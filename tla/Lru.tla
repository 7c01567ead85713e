-------------------------------- MODULE Lru --------------------------------
(***************************************************************************)
(* The thread-safe LRU cache with expirable entries that holds gorm's      *)
(* prepared statements: gorm/internal/lru/lru.go.                          *)
(*                                                                         *)
(* Every exported method holds mu from its first to its last statement, so *)
(* each is one action.  The cleanup goroutine is the exception: in         *)
(* deleteExpired it releases mu while it sleeps until the newest entry of  *)
(* the bucket has expired, and any method may run in between.              *)
(***************************************************************************)
EXTENDS Integers, FiniteSets, Recency

CONSTANTS
    Keys, Values,
    Size,           \* the size argument of NewLRU
    Sizes,          \* the arguments Resize is called with
    TTL,            \* the ttl argument of NewLRU
    NoEvictionTTL,  \* noEvictionTTL: the ttl that turns the cleaner off
    NumBuckets,     \* numBuckets, 100 in the code
    Prompt,         \* TRUE: the cleanup goroutine is scheduled without delay
    MaxTime,        \* bound: the clock stops here
    LastAdd         \* bound: no Add after this time

ASSUME SizesAssumption   == Size \in Int /\ Sizes \subseteq Int
ASSUME TTLAssumption     == TTL \in Int /\ NoEvictionTTL \in Nat \ {0}
                            /\ (TTL > 0 => TTL >= NumBuckets)
ASSUME BucketsAssumption == NumBuckets \in 2..128
ASSUME BoundsAssumption  == Prompt \in BOOLEAN /\ MaxTime \in Nat /\ LastAdd \in Nat
ASSUME KeysAssumption    == IsFiniteSet(Keys)

VARIABLES
    size,               \* LRU.size
    order,              \* LRU.evictList
    items,              \* LRU.items: key -> [value, expiresAt, bucket]
    entries,            \* LRU.buckets[b].entries
    newestEntry,        \* LRU.buckets[b].newestEntry
    nextCleanupBucket,  \* LRU.nextCleanupBucket, a uint8
    cleaner,            \* the cleanup goroutine: "waiting" on ticker.C, or "sleeping"
    wakeAt,             \* when its time.Sleep ends
    tick,               \* a tick is buffered in ticker.C
    now,                \* time.Now()
    evicted             \* the <<key, value>> pairs given to onEvict by the last step

vars == <<size, order, items, entries, newestEntry, nextCleanupBucket,
          cleaner, wakeAt, tick, now, evicted>>
goroutine == <<nextCleanupBucket, cleaner, wakeAt, tick>>

Buckets == 0 .. NumBuckets - 1
Live    == DOMAIN items
ttl     == IF TTL <= 0 THEN NoEvictionTTL ELSE TTL
Period  == ttl \div NumBuckets
Entry   == [value : Values, expiresAt : Nat, bucket : Buckets]

NewSize(n) == IF n < 0 THEN 0 ELSE n

Init ==
    /\ size = NewSize(Size)
    /\ order = {}
    /\ items = << >>
    /\ entries = [b \in Buckets |-> {}]
    /\ newestEntry = [b \in Buckets |-> 0]
    /\ nextCleanupBucket = 0
    /\ cleaner = "waiting"
    /\ wakeAt = 0
    /\ tick = FALSE
    /\ now = 0
    /\ evicted = {}

-----------------------------------------------------------------------------
(* Mutant: the bucket that is cleaned next instead of last.                *)
BucketIDNext(next) == next % NumBuckets

(* addToBucket picks the bucket that is cleaned last, in uint8 arithmetic. *)
BucketID(next) == ((NumBuckets + next - 1) % 256) % NumBuckets

Later(s, t) == IF s < t THEN t ELSE s

(* The live entries after k was given v: value, renewed expiry and bucket. *)
WithItem(k, v) ==
    [j \in Live \cup {k} |->
        IF j = k THEN [value |-> v, expiresAt |-> now + ttl,
                       bucket |-> BucketID(nextCleanupBucket)]
        ELSE items[j]]

(* removeFromBucket of the keys of S, by the bucket each entry remembers.  *)
Unbucketed(S) ==
    [b \in Buckets |-> {k \in entries[b] : ~ (k \in S /\ items[k].bucket = b)}]

(* Mutant: newestEntry is not raised.                                      *)
AddToBucketStaleNewest(k, others) ==
    /\ entries' = [others EXCEPT ![BucketID(nextCleanupBucket)] = @ \cup {k}]
    /\ UNCHANGED newestEntry

AddToBucket(k, others) ==
    LET b == BucketID(nextCleanupBucket)
    IN  /\ entries' = [others EXCEPT ![b] = @ \cup {k}]
        /\ newestEntry' = [newestEntry EXCEPT ![b] = Later(@, now + ttl)]

(* removeElement for each key of S.                                        *)
RemoveElements(S) ==
    /\ items' = [k \in Live \ S |-> items[k]]
    /\ order' = Without(order, S)
    /\ entries' = Unbucketed(S)
    /\ evicted' = {<<k, items[k].value>> : k \in S}

-----------------------------------------------------------------------------
(* Add of a key that is present: it is refreshed in place, and its old     *)
(* value is dropped without a call of onEvict.                             *)
AddExisting(k, v) ==
    /\ k \in Live
    /\ now <= LastAdd
    /\ items' = WithItem(k, v)
    /\ order' = Promote(order, k, Live)
    /\ AddToBucket(k, Unbucketed({k}))
    /\ evicted' = {}
    /\ UNCHANGED <<size, now, goroutine>>

(* Add of a new key that fits.                                             *)
AddNew(k, v) ==
    /\ k \notin Live
    /\ now <= LastAdd
    /\ size = 0 \/ Cardinality(Live) + 1 <= size
    /\ items' = WithItem(k, v)
    /\ order' = Promote(order, k, Live \cup {k})
    /\ AddToBucket(k, entries)
    /\ evicted' = {}
    /\ UNCHANGED <<size, now, goroutine>>

(* Add of a new key that exceeds the size: removeOldest in the same call.  *)
AddEvicting(k, v) ==
    /\ k \notin Live
    /\ now <= LastAdd
    /\ size > 0 /\ Cardinality(Live) + 1 > size
    /\ \E old \in Live :
          LET fresh == Promote(order, k, Live \cup {k})
          IN  /\ IsOldest({old}, fresh, Live \cup {k})
              /\ items' = [j \in (Live \cup {k}) \ {old} |-> WithItem(k, v)[j]]
              /\ order' = Without(fresh, {old})
              /\ AddToBucket(k, Unbucketed({old}))
              /\ evicted' = {<<old, items[old].value>>}
    /\ UNCHANGED <<size, now, goroutine>>

(* Mutant: the expiry is not looked at.                                    *)
GetExpired(k) ==
    /\ order' = IF k \in Live THEN Promote(order, k, Live) ELSE order
    /\ evicted' = {}
    /\ UNCHANGED <<size, items, entries, newestEntry, now, goroutine>>

(* A hit refreshes the recency but not the expiry; an expired entry is not *)
(* served, and stays where it is.                                          *)
Get(k) ==
    /\ order' = IF k \in Live /\ ~ (now > items[k].expiresAt)
                THEN Promote(order, k, Live) ELSE order
    /\ evicted' = {}
    /\ UNCHANGED <<size, items, entries, newestEntry, now, goroutine>>

Remove(k) ==
    /\ RemoveElements({k} \cap Live)
    /\ UNCHANGED <<size, newestEntry, now, goroutine>>

RemoveOldest ==
    /\ \E S \in SUBSET Live :
          /\ Cardinality(S) = (IF Live = {} THEN 0 ELSE 1)
          /\ IsOldest(S, order, Live)
          /\ RemoveElements(S)
    /\ UNCHANGED <<size, newestEntry, now, goroutine>>

(* Resize evicts the oldest entries beyond n; 0 or less only lifts the     *)
(* limit.                                                                  *)
Resize(n) ==
    /\ size' = NewSize(n)
    /\ \E S \in SUBSET Live :
          /\ Cardinality(S) = IF n <= 0 \/ Cardinality(Live) <= n
                              THEN 0 ELSE Cardinality(Live) - n
          /\ IsOldest(S, order, Live)
          /\ RemoveElements(S)
    /\ UNCHANGED <<newestEntry, now, goroutine>>

(* Mutant: onEvict is not called.                                          *)
PurgeSilently ==
    /\ evicted' = {}
    /\ items' = << >>
    /\ order' = {}
    /\ entries' = [b \in Buckets |-> {}]
    /\ UNCHANGED <<size, newestEntry, now, goroutine>>

(* Purge clears items, buckets and list; the buckets keep newestEntry.     *)
Purge ==
    /\ evicted' = {<<k, items[k].value>> : k \in Live}
    /\ items' = << >>
    /\ order' = {}
    /\ entries' = [b \in Buckets |-> {}]
    /\ UNCHANGED <<size, newestEntry, now, goroutine>>

-----------------------------------------------------------------------------
(* Mutants: the bucket number runs past the last one; it never moves.      *)
CleanBucketNoWrap ==
    /\ RemoveElements(entries[nextCleanupBucket])
    /\ nextCleanupBucket' = nextCleanupBucket + 1

CleanBucketStuck ==
    /\ RemoveElements(entries[nextCleanupBucket])
    /\ UNCHANGED nextCleanupBucket

(* The loop over the bucket's entries and the step to the next bucket.     *)
CleanBucket ==
    /\ RemoveElements(entries[nextCleanupBucket])
    /\ nextCleanupBucket' = (nextCleanupBucket + 1) % NumBuckets

(* deleteExpired, called on a tick, when the bucket's newest entry has     *)
(* expired already: all of it under one lock.                              *)
CleanNow ==
    /\ cleaner = "waiting" /\ tick
    /\ newestEntry[nextCleanupBucket] <= now
    /\ tick' = FALSE
    /\ CleanBucket
    /\ UNCHANGED <<size, newestEntry, cleaner, wakeAt, now>>

(* deleteExpired finds an entry that has not expired: it unlocks mu and    *)
(* sleeps for as long as that entry has left.                              *)
CleanerSleeps ==
    /\ cleaner = "waiting" /\ tick
    /\ newestEntry[nextCleanupBucket] > now
    /\ tick' = FALSE
    /\ cleaner' = "sleeping"
    /\ wakeAt' = newestEntry[nextCleanupBucket]
    /\ evicted' = {}
    /\ UNCHANGED <<size, order, items, entries, newestEntry,
                   nextCleanupBucket, now>>

(* Mutant: the bucket is skipped after a sleep.                            *)
CleanerWakesAndSkips ==
    /\ cleaner = "sleeping" /\ wakeAt <= now
    /\ cleaner' = "waiting"
    /\ nextCleanupBucket' = (nextCleanupBucket + 1) % NumBuckets
    /\ evicted' = {}
    /\ UNCHANGED <<size, order, items, entries, newestEntry, wakeAt, tick, now>>

(* It wakes, locks mu again and clears the bucket without another look at  *)
(* the time.                                                               *)
CleanerWakes ==
    /\ cleaner = "sleeping" /\ wakeAt <= now
    /\ cleaner' = "waiting"
    /\ CleanBucket
    /\ UNCHANGED <<size, newestEntry, wakeAt, tick, now>>

CleanerDue == \/ cleaner = "waiting" /\ tick
              \/ cleaner = "sleeping" /\ wakeAt <= now

(* Time passes.  The ticker fires every Period; its channel holds one tick *)
(* and further ones are dropped.  MaxTime stands for itself and for every  *)
(* later time: the clock stops there and the ticker goes on.               *)
Tick ==
    /\ Prompt => ~ CleanerDue
    /\ now' = IF now < MaxTime THEN now + 1 ELSE now
    /\ tick' = (tick \/ (/\ ttl # NoEvictionTTL
                         /\ now = MaxTime \/ (now + 1) % Period = 0))
    /\ evicted' = {}
    /\ UNCHANGED <<size, order, items, entries, newestEntry,
                   nextCleanupBucket, cleaner, wakeAt>>

-----------------------------------------------------------------------------
Add(k, v) == AddExisting(k, v) \/ AddNew(k, v) \/ AddEvicting(k, v)
Cleaner   == CleanNow \/ CleanerSleeps \/ CleanerWakes

Next ==
    \/ \E k \in Keys, v \in Values : Add(k, v)
    \/ \E k \in Keys : Get(k) \/ Remove(k)
    \/ RemoveOldest
    \/ \E n \in Sizes : Resize(n)
    \/ Purge
    \/ Cleaner
    \/ Tick

Spec == Init /\ [][Next]_vars

(* The goroutine never exits (done is never closed), so it is scheduled    *)
(* again and again, and time passes.                                       *)
FairSpec == Spec /\ WF_vars(Cleaner) /\ WF_vars(Tick)

-----------------------------------------------------------------------------
(* The types of the variables.                                             *)
TypeOK ==
    /\ size \in Nat
    /\ order \subseteq Keys \X Keys
    /\ Live \subseteq Keys
    /\ items \in [Live -> Entry]
    /\ entries \in [Buckets -> SUBSET Keys]
    /\ newestEntry \in [Buckets -> Nat]
    /\ nextCleanupBucket \in Buckets
    /\ cleaner \in {"waiting", "sleeping"}
    /\ wakeAt \in Nat
    /\ tick \in BOOLEAN
    /\ now \in Nat
    /\ evicted \subseteq Keys \X Values

(* items, evictList and buckets describe the same entries: the list is a   *)
(* total order of exactly the live keys, and each live key is in exactly   *)
(* the bucket its entry remembers, so removeElement never touches an entry *)
(* that another path has removed already (lru.go:312-338).                 *)
Consistent ==
    /\ IsRecencyOrder(order, Live)
    /\ \A b \in Buckets : entries[b] = {k \in Live : items[k].bucket = b}

(* Add and Resize keep the cache within its size (lru.go:137-141,281-288). *)
SizeBound == size > 0 => Cardinality(Live) <= size

(* The one lookup deleteExpired makes before it sleeps is enough: no entry *)
(* of the bucket it will clear expires after newestEntry, and while it     *)
(* sleeps no entry that expires later than its wake-up time can join that  *)
(* bucket, whatever is added, renewed or removed meanwhile                 *)
(* (lru.go:325-335 against addToBucket, 341-348).                          *)
NewestBound ==
    /\ \A k \in Live : items[k].expiresAt <= newestEntry[items[k].bucket]
    /\ cleaner = "sleeping" => wakeAt = newestEntry[nextCleanupBucket]

(* The map, the list and the buckets hold the same entries and no more     *)
(* than size allows, and no entry outlives the newestEntry of its bucket   *)
(* (NewLRU to deleteExpired, lru.go:49-356).                               *)
Structure == Consistent /\ SizeBound /\ NewestBound

(* The cleaner removes an entry only once it has expired.                  *)
CleanerNeverEarly ==
    [][Cleaner => \A k \in Live : k \notin DOMAIN items' =>
                                     items[k].expiresAt <= now]_vars

(* onEvict sees every entry that leaves the cache exactly as it was, and   *)
(* nothing else: a value can be lost without a call only when Add replaces *)
(* it under the same key (lru.go:100-105, 126, 316-318).                   *)
EvictedExactly ==
    [][evicted' = {<<k, items[k].value>> : k \in Live \ DOMAIN items'}]_vars

(* With a cleaner that is never late, an entry is gone at the latest when  *)
(* it has been expired for as long as it lived: every sleep of the cleaner *)
(* delays all later buckets, and the delays of successive rounds add up,   *)
(* but never beyond one ttl (lru.go:323-338).                              *)
WithinTwoLifetimes ==
    (Prompt /\ ttl # NoEvictionTTL) =>
        \A k \in Live : now <= items[k].expiresAt + ttl

(* An expired entry does not stay for ever: it is removed or renewed.      *)
EventuallyExpired ==
    ttl # NoEvictionTTL =>
        \A k \in Keys :
            (k \in Live /\ now > items[k].expiresAt)
                ~> ~ (k \in Live /\ now > items[k].expiresAt)

(* The cache implements the abstract expirable cache.                      *)
Abstract == INSTANCE ExpirableCache WITH
    Lifetime <- ttl,
    cap      <- size,
    content  <- [k \in Live |-> [value |-> items[k].value,
                                 expiresAt |-> items[k].expiresAt]]

Implements == Abstract!Spec
=============================================================================
