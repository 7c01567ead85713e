--------------------------- MODULE SaveGraphProofs ---------------------------
(***************************************************************************)
(* Proofs about SaveGraph, for every set of objects, every graph of them   *)
(* and any number of calls:                                                *)
(*                                                                         *)
(*   SaveGraphTypes         the values of the variables, and that the      *)
(*                          calls of Create nest at most once for each     *)
(*                          object and once for the first                  *)
(*   SaveGraphAllOrNothing  a call that fails has changed no row           *)
(*                                                                         *)
(* The lemmas at the start are about the sequences and the places in them  *)
(* that the operators of SaveGraph are built from.                         *)
(***************************************************************************)
EXTENDS SaveGraph, SequenceTheorems, FiniteSetTheorems, WellFoundedInduction, TLAPS

-----------------------------------------------------------------------------
(* Induction over numbers, by sets of them.                                *)

(* A set of numbers that is not empty has a least member.                  *)
LEMMA Least ==
    ASSUME NEW T \in SUBSET Nat, T # {}
    PROVE  \E x \in T : \A y \in T : x \leq y
<1> DEFINE R == {ss \in Nat \X Nat : ss[1] < ss[2]}
<1>1. IsWellFoundedOn(R, Nat)
    BY NatLessThanWellFounded, Zenon DEF OpToRel
<1>2. \E x \in T : \A y \in T : ~(<<y, x>> \in R)
    <2> HIDE DEF R
    <2> QED
        BY <1>1, WFMin
<1>3. PICK x \in T : \A y \in T : ~(<<y, x>> \in R)
    BY <1>2
<1>4. ASSUME NEW y \in T, y < x PROVE FALSE
    <2>1. x \in Nat /\ y \in Nat
        OBVIOUS
    <2>2. <<y, x>> \in R
        BY <1>4, <2>1, SMT
    <2>3. QED
        BY <1>3, <2>2
<1>5. QED
    BY <1>4, SMT

(* A set that has 0 and with each number the next one has them all.        *)
LEMMA Induction ==
    ASSUME NEW T, 0 \in T, \A n \in Nat : n \in T => n + 1 \in T
    PROVE  \A n \in Nat : n \in T
<1>1. SUFFICES ASSUME Nat \ T # {} PROVE FALSE
    OBVIOUS
<1>2. PICK x \in Nat \ T : \A y \in Nat \ T : x \leq y
    BY <1>1, Least
<1>3. x - 1 \in Nat
    BY <1>2
<1>4. x - 1 \in T
    BY <1>2, <1>3
<1>5. QED
    BY <1>2, <1>3, <1>4

(* Sequences of sequences are flattened to one of the same members.        *)
LEMMA FlattenSeqType ==
    ASSUME NEW S, NEW seqs \in Seq(Seq(S))
    PROVE  FlattenSeq(seqs) \in Seq(S)
<1> DEFINE N == 1..Len(seqs)
           Step(f, i) == IF i = 1 THEN seqs[i] ELSE f[i-1] \o seqs[i]
           flatten == CHOOSE f : f = [i \in N |-> Step(f, i)]
           Built(n) == \E f \in [1..n -> Seq(S)] : \A i \in 1..n : f[i] = Step(f, i)
           T == {n \in Nat : n \leq Len(seqs) => Built(n)}
           U == {n \in Nat : n \in N => flatten[n] \in Seq(S)}
<1>1. CASE Len(seqs) = 0
    BY <1>1 DEF FlattenSeq
<1>2. CASE Len(seqs) # 0
    <2>1. FlattenSeq(seqs) = flatten[Len(seqs)]
        BY <1>2 DEF FlattenSeq
    <2>2. 0 \in T
        <3>1. [i \in 1..0 |-> <<>>] \in [1..0 -> Seq(S)]
            OBVIOUS
        <3>2. \A i \in 1..0 : FALSE
            OBVIOUS
        <3>3. Built(0)
            BY <3>1, <3>2
        <3> HIDE DEF Built
        <3>4. QED
            BY <3>3
    <2>3. ASSUME NEW n \in Nat, n \in T, n + 1 \leq Len(seqs)
          PROVE  Built(n + 1)
        <3>0. Built(n)
            <4> HIDE DEF Built
            <4> QED BY <2>3
        <3>1. PICK f \in [1..n -> Seq(S)] : \A i \in 1..n : f[i] = Step(f, i)
            BY <3>0
        <3> DEFINE new == IF n = 0 THEN seqs[n+1] ELSE f[n] \o seqs[n+1]
        <3> DEFINE g == [i \in 1..(n+1) |-> IF i \leq n THEN f[i] ELSE new]
        <3>2. seqs[n+1] \in Seq(S)
            BY <2>3
        <3>3. new \in Seq(S)
            BY <3>1, <3>2
        <3>4. g \in [1..(n+1) -> Seq(S)]
            <4> HIDE DEF new
            <4> QED BY <3>1, <3>3
        <3>5. ASSUME NEW i \in 1..(n+1) PROVE g[i] = Step(g, i)
            <4>1. CASE i \leq n
                <5>0. i \in 1..n
                    BY <4>1
                <5>1. f[i] = Step(f, i) /\ g[i] = f[i]
                    <6>1. f[i] = Step(f, i)
                        <7> HIDE DEF At
                        <7> QED BY <3>1, <5>0
                    <6>2. g[i] = f[i]
                        <7> HIDE DEF new
                        <7> QED BY <4>1
                    <6>3. QED
                        BY <6>1, <6>2
                <5>2. i # 1 => g[i-1] = f[i-1]
                    BY <4>1
                <5>3. QED
                    BY <5>1, <5>2
            <4>2. CASE i = n + 1
                <5>1. g[i] = new
                    BY <4>2
                <5>2. i # 1 => n # 0 /\ g[i-1] = f[n]
                    BY <4>2
                <5>3. i = 1 => n = 0
                    BY <4>2
                <5>4. QED
                    BY <4>2, <5>1, <5>2, <5>3
            <4>3. QED
                BY <4>1, <4>2
        <3> HIDE DEF g
        <3>6. QED
            BY <3>4, <3>5
    <2>4. \A n \in Nat : n \in T
        <3> HIDE DEF Built
        <3>1. \A n \in Nat : n \in T => n + 1 \in T
            BY <2>3
        <3> HIDE DEF T
        <3>2. QED
            BY <2>2, <3>1, Induction
    <2>5. PICK f \in [N -> Seq(S)] : \A i \in N : f[i] = Step(f, i)
        <3>1. Built(Len(seqs))
            <4> HIDE DEF Built
            <4> QED BY <2>4
        <3>2. QED
            BY <3>1
    <2>6. f = [i \in N |-> Step(f, i)]
        BY <2>5
    <2>7. flatten = [i \in N |-> Step(flatten, i)]
        BY <2>6
    <2>8. \A n \in Nat : n \in U
        <3> HIDE DEF flatten
        <3>1. 0 \in U
            OBVIOUS
        <3>2. ASSUME NEW n \in Nat, n \in U, n + 1 \in N
              PROVE  flatten[n+1] \in Seq(S)
            <4>1. seqs[n+1] \in Seq(S)
                BY <3>2
            <4>2. CASE n = 0
                BY <2>7, <4>1, <4>2
            <4>3. CASE n # 0
                <5>1. flatten[n] \in Seq(S)
                    BY <3>2, <4>3
                <5>2. flatten[n+1] = Step(flatten, n+1)
                    <6> HIDE DEF At
                    <6> QED BY <2>7, <3>2
                <5>3. n + 1 # 1 /\ (n + 1) - 1 = n
                    BY <4>3
                <5>4. Step(flatten, n+1) = flatten[n] \o seqs[n+1]
                    BY <5>3
                <5>5. flatten[n] \o seqs[n+1] \in Seq(S)
                    BY <4>1, <5>1, ConcatProperties
                <5>6. QED
                    <6> HIDE DEF At
                    <6> QED BY <5>2, <5>4, <5>5
            <4>4. QED
                BY <4>2, <4>3
        <3>3. \A n \in Nat : n \in U => n + 1 \in U
            BY <3>2
        <3> HIDE DEF U
        <3>4. QED
            BY <3>1, <3>3, Induction
    <2>9. flatten[Len(seqs)] \in Seq(S)
        <3>1. Len(seqs) \in U
            <4> HIDE DEF U
            <4> QED BY <2>8
        <3> HIDE DEF flatten
        <3>2. QED
            BY <1>2, <3>1
    <2>10. QED
        BY <2>1, <2>9
<1>3. QED
    BY <1>1, <1>2

(* Places in a sequence: if there are any, one of them is the last.        *)
LEMMA Greatest ==
    ASSUME NEW n \in Nat, NEW T \in SUBSET (1..n), T # {}
    PROVE  \E x \in T : \A y \in T : y \leq x
<1> DEFINE B == {m \in Nat : \A y \in T : y \leq m}
<1>1. n \in B
    OBVIOUS
<1>2. PICK m \in B : \A k \in B : m \leq k
    BY <1>1, Least
<1>3. m \in T
    <2>1. SUFFICES ASSUME m \notin T PROVE FALSE
        OBVIOUS
    <2>2. PICK y \in T : TRUE
        OBVIOUS
    <2>3. m - 1 \in Nat
        BY <2>2
    <2>4. \A z \in T : z \leq m - 1
        BY <2>1
    <2>5. m - 1 \in B
        BY <2>3, <2>4
    <2>6. QED
        BY <1>2, <2>5
<1>4. QED
    BY <1>3

(* The places up to one of them.                                           *)
LEMMA UpTo ==
    ASSUME NEW n \in Nat, NEW T \in SUBSET (1..n)
    PROVE  /\ IsFiniteSet(T) /\ Cardinality(T) \in Nat
           /\ \A i \in Nat : /\ IsFiniteSet({j \in T : j \leq i})
                             /\ Cardinality({j \in T : j \leq i}) \in Nat
                             /\ Cardinality({j \in T : j \leq i}) \leq Cardinality(T)
                             /\ i \in T => 1 \leq Cardinality({j \in T : j \leq i})
<1>1. IsFiniteSet(1..n)
    BY FS_Interval
<1>2. IsFiniteSet(T) /\ Cardinality(T) \in Nat
    BY <1>1, FS_Subset, FS_CardinalityType
<1>3. ASSUME NEW i \in Nat
      PROVE  /\ IsFiniteSet({j \in T : j \leq i})
             /\ Cardinality({j \in T : j \leq i}) \in Nat
             /\ Cardinality({j \in T : j \leq i}) \leq Cardinality(T)
             /\ i \in T => 1 \leq Cardinality({j \in T : j \leq i})
    <2> DEFINE U == {j \in T : j \leq i}
    <2>1. U \in SUBSET T
        OBVIOUS
    <2>2. IsFiniteSet(U) /\ Cardinality(U) \leq Cardinality(T)
        <3> HIDE DEF U
        <3> QED BY <1>2, <2>1, FS_Subset
    <2>3. Cardinality(U) \in Nat
        <3> HIDE DEF U
        <3> QED BY <2>2, FS_CardinalityType
    <2>4. i \in T => U # {}
        OBVIOUS
    <2>5. Cardinality(U) = 0 => U = {}
        <3> HIDE DEF U
        <3> QED BY <2>2, FS_EmptySet
    <2>6. i \in T => 1 \leq Cardinality(U)
        <3> HIDE DEF U
        <3> QED BY <2>3, <2>4, <2>5
    <2>7. QED
        BY <2>2, <2>3, <2>6
<1>4. QED
    BY <1>2, <1>3

(* There is a k-th place, up to as many as there are.                      *)
LEMMA NthMember ==
    ASSUME NEW n \in Nat, NEW T \in SUBSET (1..n), NEW k \in 1..Cardinality(T)
    PROVE  Nth(T, k) \in T
<1> DEFINE upTo(i) == {j \in T : j \leq i}
           B == {i \in Nat : k \leq Cardinality(upTo(i))}
<1>0. \A j \in T : j \in Nat /\ 1 \leq j /\ j \leq n
    OBVIOUS
<1>1. n \in B
    <2>1. upTo(n) = T
        BY <1>0
    <2>2. k \leq Cardinality(T)
        BY UpTo
    <2>3. QED
        BY <2>1, <2>2
<1>2. PICK i \in B : \A m \in B : i \leq m
    BY <1>1, Least
<1>3. i \in Nat /\ k \leq Cardinality(upTo(i))
    OBVIOUS
<1>4. i # 0
    <2>1. ASSUME i = 0 PROVE FALSE
        <3>1. upTo(i) = {}
            <4>1. \A j \in T : ~(j \leq i)
                <5> HIDE DEF B
                <5> QED BY <1>0, <2>1
            <4>2. QED
                BY <4>1
        <3>2. Cardinality(upTo(i)) = 0
            BY <3>1, FS_EmptySet
        <3>3. QED
            BY <1>3, <3>2
    <2>2. QED
        BY <2>1
<1>5. i - 1 \in Nat /\ Cardinality(upTo(i - 1)) \in Nat /\ Cardinality(upTo(i - 1)) < k
    <2>1. i - 1 \in Nat
        BY <1>3, <1>4
    <2>2. i - 1 \notin B
        <3> HIDE DEF B
        <3>1. ~(i \leq i - 1)
            BY <1>3
        <3>2. QED
            BY <1>2, <3>1
    <2>3. Cardinality(upTo(i - 1)) \in Nat
        BY <2>1, UpTo
    <2>4. ~(k \leq Cardinality(upTo(i - 1)))
        BY <2>1, <2>2
    <2>5. QED
        <3> HIDE DEF upTo, B
        <3> QED BY <2>1, <2>3, <2>4
<1>6. i \in T
    <2>1. ASSUME i \notin T PROVE FALSE
        <3>1. upTo(i) = upTo(i - 1)
            <4>1. \A j \in T : j \leq i <=> j \leq i - 1
                BY <1>0, <1>3, <2>1
            <4>2. QED
                BY <4>1
        <3>2. QED
            <4> HIDE DEF upTo, B
            <4> QED BY <1>3, <1>5, <3>1
    <2>2. QED
        BY <2>1
<1>7. Cardinality(upTo(i)) = k
    <2>1. upTo(i) = upTo(i - 1) \cup {i}
        <3>1. \A j \in T : j \leq i <=> j \leq i - 1 \/ j = i
            BY <1>0, <1>3
        <3>2. i \leq i
            BY <1>3
        <3>3. QED
            BY <1>6, <3>1, <3>2
    <2>2. i \notin upTo(i - 1)
        BY <1>3
    <2>3. IsFiniteSet(upTo(i - 1))
        BY <1>5, UpTo
    <2>4. Cardinality(upTo(i - 1) \cup {i}) = Cardinality(upTo(i - 1)) + 1
        <3> HIDE DEF upTo, B
        <3> QED BY <2>2, <2>3, FS_AddElement
    <2>5. QED
        <3> HIDE DEF upTo, B
        <3> QED BY <1>3, <1>5, <2>1, <2>4
<1>8. QED
    BY <1>6, <1>7 DEF Nth

(* A sequence without its last member.                                     *)
LEMMA FrontProperties ==
    ASSUME NEW S, NEW s \in Seq(S), s # <<>>
    PROVE  /\ Front(s) \in Seq(S) /\ Len(s) \in Nat \ {0} /\ Len(Front(s)) = Len(s) - 1
           /\ \A i \in 1..(Len(s) - 1) : Front(s)[i] = s[i]
<1> DEFINE n == Len(s)
<1>1. n \in Nat /\ n # 0
    BY EmptySeq
<1>2. Front(s) = SubSeq(s, 1, n - 1)
    BY DEF Front
<1>3. 1 \in Int /\ n - 1 \in Int /\ (n - 1) - 1 + 1 = n - 1
    BY <1>1
<1>4. \A i \in 1..(n - 1) : s[i] \in S
    BY <1>1
<1> HIDE DEF n
<1>5. /\ SubSeq(s, 1, n - 1) \in Seq(S)
      /\ Len(SubSeq(s, 1, n - 1)) = IF 1 \leq n - 1 THEN (n - 1) - 1 + 1 ELSE 0
      /\ \A i \in 1..((n - 1) - 1 + 1) : SubSeq(s, 1, n - 1)[i] = s[1 + i - 1]
    BY <1>3, <1>4, SubSeqProperties
<1>6. Len(SubSeq(s, 1, n - 1)) = n - 1
    BY <1>1, <1>5
<1>7. \A i \in 1..(n - 1) : 1 + i - 1 = i
    BY <1>1
<1>8. \A i \in 1..(n - 1) : SubSeq(s, 1, n - 1)[i] = s[i]
    BY <1>3, <1>5, <1>7
<1>9. QED
    BY <1>1, <1>2, <1>5, <1>6, <1>8 DEF n

(* The last of a sequence is replaced.                                     *)
LEMMA LastReplaced ==
    ASSUME NEW S, NEW s \in Seq(S), s # <<>>, NEW x \in S
    PROVE  LET t == Front(s) \o <<x>>
           IN  /\ t \in Seq(S) /\ t # <<>> /\ Len(t) = Len(s) /\ t[Len(t)] = x
               /\ \A i \in 1..(Len(s) - 1) : t[i] = s[i]
<1> DEFINE n == Len(s)  f == Front(s)  t == f \o <<x>>
<1>1. n \in Nat /\ n # 0
    BY FrontProperties
<1>2. f \in Seq(S) /\ Len(f) = n - 1 /\ \A i \in 1..(n - 1) : f[i] = s[i]
    BY FrontProperties
<1>3. <<x>> \in Seq(S) /\ Len(<<x>>) = 1 /\ <<x>>[1] = x
    OBVIOUS
<1> HIDE DEF f
<1>4. t \in Seq(S) /\ Len(t) = n
    BY <1>1, <1>2, <1>3, ConcatProperties
<1>5. t[n] = x
    BY <1>1, <1>2, <1>3, ConcatProperties
<1>6. \A i \in 1..(n - 1) : t[i] = s[i]
    BY <1>1, <1>2, <1>3, ConcatProperties
<1>7. t # <<>>
    <2> HIDE DEF t
    <2> QED BY <1>1, <1>4, EmptySeq
<1>8. t = Front(s) \o <<x>>
    BY DEF f
<1> HIDE DEF t
<1>9. QED
    BY <1>4, <1>5, <1>6, <1>7, <1>8

(* The last two of a sequence are replaced by one.                         *)
LEMMA LastTwoReplaced ==
    ASSUME NEW S, NEW s \in Seq(S), Len(s) > 1, NEW x \in S
    PROVE  LET t == Append(Front(Front(s)), x)
           IN  /\ t \in Seq(S) /\ t # <<>> /\ Len(t) = Len(s) - 1 /\ t[Len(t)] = x
               /\ \A i \in 1..(Len(s) - 2) : t[i] = s[i]
<1> DEFINE n == Len(s)  f == Front(s)  g == Front(f)  t == Append(g, x)
<1>1. n \in Nat /\ n > 1 /\ s # <<>>
    BY EmptySeq
<1>2. f \in Seq(S) /\ Len(f) = n - 1 /\ \A i \in 1..(n - 1) : f[i] = s[i]
    BY <1>1, FrontProperties
<1> HIDE DEF f
<1>3. f # <<>>
    BY <1>1, <1>2, EmptySeq
<1>4. g \in Seq(S) /\ Len(g) = n - 2 /\ \A i \in 1..(n - 2) : g[i] = f[i]
    <2>1. (n - 1) - 1 = n - 2
        BY <1>1
    <2>2. QED
        BY <1>2, <1>3, <2>1, FrontProperties
<1>5. \A i \in 1..(n - 2) : g[i] = s[i]
    BY <1>1, <1>2, <1>4
<1> HIDE DEF g
<1>6. t \in Seq(S) /\ Len(t) = n - 1 /\ t[n - 1] = x
    BY <1>1, <1>4, AppendProperties
<1>7. \A i \in 1..(n - 2) : t[i] = s[i]
    BY <1>1, <1>4, <1>5, AppendProperties
<1>8. t = Append(Front(Front(s)), x)
    BY DEF f, g
<1> HIDE DEF t
<1>9. t # <<>>
    BY <1>1, <1>6, EmptySeq
<1>10. QED
    BY <1>6, <1>7, <1>8, <1>9

-----------------------------------------------------------------------------
(* The inductive invariant.                                                *)

Row == [obj : SUBSET Objs, cols : [Cols -> Nat]]

(* What a database can hold.                                               *)
Holds(theRows, theJoins, theNext) ==
    /\ theNext \in Nat \ {0}
    /\ \A n \in DOMAIN theRows : n \in 1..(theNext - 1) /\ theRows[n] \in Row
    /\ theJoins \subseteq Cols \X Nat \X Nat

Values ==
    /\ world \in Worlds
    /\ pk \in [Objs -> Nat] /\ fk \in [Objs -> [Cols -> Nat]]
    /\ open \in BOOLEAN /\ faults \in BOOLEAN
    /\ visited \subseteq Objs
    /\ outcome \in {"none", "ok", "error", "panic"}
    /\ calls \in 0..MaxCalls
    /\ linked \subseteq RelIds \X Objs

Stored ==
    /\ Holds(rows, joins, nextId)
    /\ Holds(saved.rows, saved.joins, saved.nextId)
    /\ saved.nextId \leq nextId

(* The calls of Create that run: one that waits for another does so in one *)
(* of the two callbacks for associations, and only the outermost begins a  *)
(* transaction.                                                            *)
Running ==
    /\ frames \in Seq(Frame)
    /\ \A i \in 1..Len(frames) :
           /\ frames[i].err => frames[i].at = "end"
           /\ frames[i].at = "begin" => i = 1
           /\ frames[i].at = "join" => frames[i].next \in RelIds
           /\ i < Len(frames) => /\ frames[i].at \in {"saveBefore", "saveAfter"}
                                /\ frames[i].next \in RelIds

(* Each nested call was for an object not visited before.                  *)
Nests == Len(frames) \leq Cardinality(visited) + 1

(* A transaction is open from the first callback to the last, unless it    *)
(* could not be begun, and before it nothing is written; one that failed   *)
(* has been undone.                                                        *)
Undoable ==
    /\ frames # <<>> => outcome = "none"
    /\ open => /\ world.transaction
               /\ \/ frames # <<>> /\ frames[1].at # "begin"
                  \/ outcome = "panic"
    /\ world.transaction /\ ~open /\ frames # <<>> =>
           /\ Len(frames) = 1 /\ (frames[1].at = "begin" \/ frames[1].err)
           /\ rows = saved.rows /\ joins = saved.joins
    /\ world.transaction /\ outcome = "error" => rows = saved.rows /\ joins = saved.joins

Inv == Values /\ Stored /\ Running /\ Nests /\ Undoable

-----------------------------------------------------------------------------
(* What the operators of SaveGraph return.                                 *)

LEMMA ToSetType ==
    ASSUME NEW S, NEW s \in Seq(S)
    PROVE  ToSet(s) \subseteq S
BY DEF ToSet

LEMMA LastType ==
    ASSUME NEW S, NEW s \in Seq(S), s # <<>>
    PROVE  Last(s) \in S
<1>1. Len(s) \in 1..Len(s)
    BY EmptySeq
<1>2. QED
    BY <1>1 DEF Last

LEMMA WorldType ==
    ASSUME NEW w \in Worlds
    PROVE  /\ w.root \in Objs /\ w.keyed \in Seq(Objs)
           /\ w.transaction \in BOOLEAN /\ w.full \in BOOLEAN /\ w.reuses \in BOOLEAN
           /\ DOMAIN w.relations = 1..Len(w.relations) /\ Len(w.relations) \in Nat
           /\ \A r \in DOMAIN w.relations :
                  /\ w.relations[r] \in Relation /\ w.relations[r].col \in Cols
                  /\ \A o \in Objs : w.relations[r].to[o] \in Seq(Objs)
<1>1. w \in World
    BY WorldsAssumption
<1>2. /\ w.root \in Objs /\ w.keyed \in Seq(Objs) /\ w.relations \in Seq(Relation)
      /\ w.transaction \in BOOLEAN /\ w.full \in BOOLEAN /\ w.reuses \in BOOLEAN
    BY <1>1 DEF World
<1>3. DOMAIN w.relations = 1..Len(w.relations) /\ Len(w.relations) \in Nat
    BY <1>2
<1>4. ASSUME NEW r \in DOMAIN w.relations
      PROVE  /\ w.relations[r] \in Relation /\ w.relations[r].col \in Cols
             /\ \A o \in Objs : w.relations[r].to[o] \in Seq(Objs)
    <2>1. w.relations[r] \in Relation
        BY <1>2, <1>3
    <2>2. QED
        BY <2>1 DEF Relation
<1>5. QED
    BY <1>2, <1>3, <1>4

LEMMA RelationType ==
    ASSUME world \in Worlds
    PROVE  /\ RelIds = 1..Len(Rels) /\ Len(Rels) \in Nat
           /\ \A r \in RelIds : /\ r \in Nat /\ Rels[r].col \in Cols
                                /\ \A o \in Objs : Rels[r].to[o] \in Seq(Objs)
<1>1. RelIds = 1..Len(Rels) /\ Len(Rels) \in Nat
    BY WorldType DEF Rels, RelIds
<1>2. \A r \in RelIds : r \in Nat
    BY <1>1
<1>3. \A r \in RelIds : /\ Rels[r].col \in Cols
                        /\ \A o \in Objs : Rels[r].to[o] \in Seq(Objs)
    BY WorldType DEF Rels, RelIds
<1>4. QED
    BY <1>1, <1>2, <1>3

LEMMA TargetsType ==
    ASSUME world \in Worlds, NEW r \in RelIds, NEW values \in Seq(Objs)
    PROVE  Targets(r, values) \in Seq(Objs)
<1> DEFINE lists == [i \in DOMAIN values |-> Rels[r].to[values[i]]]
<1>1. DOMAIN values = 1..Len(values) /\ Len(values) \in Nat
    OBVIOUS
<1>2. \A i \in DOMAIN values : Rels[r].to[values[i]] \in Seq(Objs)
    <2>1. \A i \in DOMAIN values : values[i] \in Objs
        BY <1>1
    <2>2. QED
        BY <2>1, RelationType
<1>3. lists \in [1..Len(values) -> Seq(Objs)]
    BY <1>1, <1>2
<1>4. lists \in Seq(Seq(Objs))
    <2> HIDE DEF lists
    <2> QED BY <1>1, <1>3
<1>5. FlattenSeq(lists) \in Seq(Objs)
    BY <1>4, FlattenSeqType
<1>6. QED
    BY <1>5 DEF Targets

LEMMA DistinctType ==
    ASSUME NEW objs \in Seq(Objs)
    PROVE  Distinct(objs) \in Seq(Objs)
<1> DEFINE first == {i \in DOMAIN objs :
                        pk[objs[i]] = 0 \/ \A j \in 1..(i - 1) : pk[objs[j]] # pk[objs[i]]}
           n == Cardinality(first)
           picked == [k \in 1..n |-> objs[Nth(first, k)]]
<1>1. Len(objs) \in Nat /\ DOMAIN objs = 1..Len(objs)
    OBVIOUS
<1>2. first \in SUBSET (1..Len(objs))
    BY <1>1
<1> HIDE DEF first
<1>3. n \in Nat
    BY <1>1, <1>2, UpTo
<1>4. \A k \in 1..n : Nth(first, k) \in 1..Len(objs)
    BY <1>1, <1>2, NthMember
<1>5. picked \in [1..n -> Objs]
    BY <1>4
<1>6. picked \in Seq(Objs)
    <2> HIDE DEF n, picked
    <2> QED BY <1>3, <1>5
<1>7. QED
    BY <1>6 DEF Distinct, first

LEMMA ReferencedType ==
    ASSUME world \in Worlds, pk \in [Objs -> Nat], fk \in [Objs -> [Cols -> Nat]],
           NEW r \in RelIds, NEW values \in Seq(Objs)
    PROVE  Referenced(r, values) \in [Objs -> [Cols -> Nat]]
<1> DEFINE owners(o) == {v \in ToSet(values) : Contains(Rels[r].to[v], o)}
           Last1(o) == CHOOSE i \in DOMAIN values :
                          /\ values[i] \in owners(o)
                          /\ \A j \in DOMAIN values : values[j] \in owners(o) => j \leq i
           new(o) == IF Rels[r].kind \in {"one", "many"} /\ owners(o) # {}
                     THEN [fk[o] EXCEPT ![Rels[r].col] = pk[values[Last1(o)]]]
                     ELSE fk[o]
<1>1. Len(values) \in Nat /\ DOMAIN values = 1..Len(values)
    OBVIOUS
<1>2. ASSUME NEW o \in Objs, owners(o) # {}
      PROVE  Last1(o) \in DOMAIN values
    <2> DEFINE T == {i \in DOMAIN values : values[i] \in owners(o)}
    <2>1. T \in SUBSET (1..Len(values))
        BY <1>1
    <2>2. T # {}
        BY <1>2 DEF ToSet
    <2>3. \E i \in T : \A j \in T : j \leq i
        <3> HIDE DEF T
        <3> QED BY <1>1, <2>1, <2>2, Greatest
    <2>4. \E i \in DOMAIN values : /\ values[i] \in owners(o)
                                   /\ \A j \in DOMAIN values : values[j] \in owners(o) => j \leq i
        <3> HIDE DEF owners
        <3> QED BY <2>3
    <2>5. QED
        <3> HIDE DEF owners
        <3> QED BY <2>4
<1>3. ASSUME NEW o \in Objs
      PROVE  new(o) \in [Cols -> Nat]
    <2>1. CASE owners(o) # {}
        <3>1. Last1(o) \in DOMAIN values
            BY <1>2, <2>1
        <3> HIDE DEF owners, Last1
        <3>2. pk[values[Last1(o)]] \in Nat
            BY <1>1, <3>1
        <3>3. QED
            BY <3>2
    <2>2. CASE owners(o) = {}
        <3> HIDE DEF owners, Last1
        <3> QED BY <2>2
    <2>3. QED
        BY <2>1, <2>2
<1>4. Referenced(r, values) = [o \in Objs |-> new(o)]
    BY DEF Referenced
<1> HIDE DEF new
<1>5. QED
    BY <1>3, <1>4

LEMMA ReferencesType ==
    ASSUME world \in Worlds, pk \in [Objs -> Nat], fk \in [Objs -> [Cols -> Nat]],
           NEW r \in RelIds, NEW values \in Seq(Objs)
    PROVE  References(r, values) \in [Objs -> [Cols -> Nat]]
<1> DEFINE new(o) == IF o \in ToSet(values) /\ Rels[r].to[o] # <<>>
                     THEN [fk[o] EXCEPT ![Rels[r].col] = pk[Last(Rels[r].to[o])]]
                     ELSE fk[o]
<1>1. ASSUME NEW o \in Objs
      PROVE  new(o) \in [Cols -> Nat]
    <2>1. Rels[r].to[o] # <<>> => pk[Last(Rels[r].to[o])] \in Nat
        <3>1. Rels[r].to[o] \in Seq(Objs)
            BY RelationType
        <3>2. Rels[r].to[o] # <<>> => Last(Rels[r].to[o]) \in Objs
            BY <3>1, LastType
        <3>3. QED
            BY <3>2
    <2>2. QED
        BY <2>1
<1>2. References(r, values) = [o \in Objs |-> new(o)]
    BY DEF References
<1> HIDE DEF new
<1>3. QED
    BY <1>1, <1>2

LEMMA EntryType ==
    ASSUME NEW values \in Seq(Objs), NEW conflict \in {"error", "nothing", "update"},
           NEW cols \in SUBSET Cols, NEW at \in Stages
    PROVE  LET e == Entry(values, conflict, cols, at)
           IN  e \in Frame /\ e.at = at /\ e.err = FALSE
BY DEF Entry, Frame

LEMMA OnConflictType ==
    ASSUME world \in Worlds, NEW r \in RelIds, NEW values \in Seq(Objs)
    PROVE  LET e == OnConflict(r, values)
           IN  e \in Frame /\ e.at = "before" /\ e.err = FALSE
<1>1. "before" \in Stages
    BY DEF Stages
<1>2. Rels[r].col \in Cols
    BY RelationType
<1>3. PICK conflict \in {"error", "nothing", "update"}, cols \in SUBSET Cols :
          OnConflict(r, values) = Entry(values, conflict, cols, "before")
    BY <1>2 DEF OnConflict
<1>4. QED
    BY <1>1, <1>3 DEF Entry, Frame

-----------------------------------------------------------------------------
(* The INSERT.                                                             *)

(* Numbers in a sequence are bounded.                                      *)
LEMMA Bounded ==
    ASSUME NEW n \in Nat, NEW f \in [1..n -> Nat]
    PROVE  \E m \in Nat : \A i \in 1..n : f[i] \leq m
<1> DEFINE P(k) == \E m \in Nat : \A i \in 1..k : f[i] \leq m
           T == {k \in Nat : k \leq n => P(k)}
<1>1. 0 \in T
    <2>1. P(0)
        OBVIOUS
    <2> HIDE DEF P
    <2>2. QED
        BY <2>1
<1>2. ASSUME NEW k \in Nat, P(k), k + 1 \leq n
      PROVE  P(k + 1)
    <2>1. PICK m \in Nat : \A i \in 1..k : f[i] \leq m
        BY <1>2
    <2>2. f[k + 1] \in Nat
        BY <1>2
    <2> DEFINE b == IF m \leq f[k + 1] THEN f[k + 1] ELSE m
    <2>3. b \in Nat /\ m \leq b /\ f[k + 1] \leq b
        BY <2>2
    <2>4. \A i \in 1..(k + 1) : f[i] \leq b
        <3> HIDE DEF b
        <3>1. TAKE i \in 1..(k + 1)
        <3>2. CASE i = k + 1
            BY <2>3, <3>2
        <3>3. CASE i \in 1..k
            <4>1. f[i] \in Nat
                BY <1>2, <3>3
            <4>2. QED
                BY <2>1, <2>3, <3>3, <4>1
        <3>4. QED
            BY <3>2, <3>3
    <2>5. QED
        BY <2>3, <2>4
<1>3. \A k \in Nat : k \in T => k + 1 \in T
    <2> HIDE DEF P
    <2> QED BY <1>2
<1>4. n \in T
    <2> HIDE DEF T
    <2> QED BY <1>1, <1>3, Induction
<1>5. QED
    BY <1>4

(* The ids that the database gives out begin after those that are given.   *)
LEMMA BaseChosen ==
    ASSUME NEW n \in Nat, NEW f \in [1..n -> Nat], NEW places \in SUBSET (1..n),
           NEW next \in Nat
    PROVE  LET explicit == {f[i] : i \in places}
           IN  \E b \in {next} \cup {m + 1 : m \in explicit} :
                   b \geq next /\ \A m \in explicit : m < b
<1> DEFINE explicit == {f[i] : i \in places}
           B == {b \in Nat : b \geq next /\ \A m \in explicit : m < b}
<1>1. PICK m \in Nat : \A i \in 1..n : f[i] \leq m
    BY Bounded
<1>2. \A e \in explicit : e \in Nat /\ e \leq m
    BY <1>1
<1> HIDE DEF explicit
<1>3. next + m + 1 \in B
    BY <1>2
<1>4. PICK b \in B : \A c \in B : b \leq c
    BY <1>3, Least
<1>5. CASE b = next
    BY <1>5 DEF explicit
<1>6. CASE b # next
    <2>1. b - 1 \in Nat /\ b - 1 \geq next /\ ~(b \leq b - 1)
        BY <1>6
    <2>2. b - 1 \notin B
        <3> HIDE DEF B
        <3> QED BY <1>4, <2>1
    <2>3. PICK e \in explicit : ~(e < b - 1)
        BY <2>1, <2>2
    <2>4. b = e + 1
        BY <1>2, <2>3
    <2>5. b \in {next} \cup {k + 1 : k \in explicit}
        BY <2>4
    <2>6. QED
        BY <2>5 DEF explicit
<1>7. QED
    BY <1>5, <1>6

(* The places before one of them are fewer than all.                       *)
LEMMA FewerBefore ==
    ASSUME NEW n \in Nat, NEW T \in SUBSET (1..n), NEW i \in T
    PROVE  /\ Cardinality({j \in T : j < i}) \in Nat /\ Cardinality(T) \in Nat
           /\ Cardinality({j \in T : j < i}) < Cardinality(T)
<1> DEFINE U == {j \in T : j < i}
<1>1. IsFiniteSet(T) /\ Cardinality(T) \in Nat
    BY UpTo
<1>2. U \in SUBSET T /\ i \notin U
    OBVIOUS
<1> HIDE DEF U
<1>3. IsFiniteSet(U) /\ Cardinality(U) \leq Cardinality(T) /\ (Cardinality(U) = Cardinality(T) => U = T)
    BY <1>1, <1>2, FS_Subset
<1>4. Cardinality(U) \in Nat
    BY <1>3, FS_CardinalityType
<1>5. Cardinality(U) # Cardinality(T)
    BY <1>2, <1>3
<1>6. Cardinality(U) < Cardinality(T)
    BY <1>1, <1>3, <1>4, <1>5
<1>7. QED
    BY <1>1, <1>4, <1>6 DEF U

LEMMA InsertType ==
    ASSUME pk \in [Objs -> Nat], fk \in [Objs -> [Cols -> Nat]],
           Holds(rows, joins, nextId), Top \in Frame, Insert
    PROVE  /\ pk' \in [Objs -> Nat]
           /\ Holds(rows', joins, nextId') /\ nextId \leq nextId'
<1> DEFINE values   == Top.values
           N        == Len(values)
           fresh    == {i \in DOMAIN values : pk[values[i]] = 0}
           explicit == {pk[values[i]] : i \in DOMAIN values \ fresh}
           base     == CHOOSE n \in {nextId} \cup {m + 1 : m \in explicit} :
                           n \geq nextId /\ \A m \in explicit : m < n
           before(i) == Cardinality({j \in fresh : j < i})
           id       == [i \in DOMAIN values |-> IF i \in fresh THEN base + before(i)
                                                ELSE pk[values[i]]]
           given    == ToSet(id)
           of(n)    == CHOOSE i \in DOMAIN values : id[i] = n
           returned == {i \in DOMAIN values : id[i] \notin Ids}
           first    == {i \in fresh : \A j \in fresh : values[j] = values[i] => i \leq j}
           me(o)    == CHOOSE i \in first : values[i] = o
           place(o) == Nth(returned, Cardinality({i \in first : i \leq me(o)}))
           last(o)  == CHOOSE i \in fresh :
                           values[i] = o /\ \A j \in fresh : values[j] = o => j \leq i
<1>1. values \in Seq(Objs) /\ Top.cols \subseteq Cols
    BY DEF Frame
<1>2. /\ N \in Nat /\ DOMAIN values = 1..N
      /\ \A i \in 1..N : values[i] \in Objs /\ pk[values[i]] \in Nat
    <2>1. N \in Nat /\ DOMAIN values = 1..N
        BY <1>1
    <2>2. \A i \in 1..N : values[i] \in Objs
        BY <1>1, <2>1
    <2>3. QED
        BY <2>1, <2>2
<1>3. fresh \in SUBSET (1..N) /\ \A i \in 1..N : i \notin fresh => pk[values[i]] # 0
    BY <1>2
<1>4. nextId \in Nat \ {0} /\ \A n \in Ids : n \in 1..(nextId - 1) /\ rows[n] \in Row
    BY DEF Holds, Ids
<1>5. /\ base \in Nat /\ base \geq nextId
      /\ \A i \in 1..N : i \notin fresh => pk[values[i]] < base
    <2> DEFINE f == [i \in 1..N |-> pk[values[i]]]
    <2>1. f \in [1..N -> Nat]
        BY <1>2
    <2>2. explicit = {f[i] : i \in (1..N) \ fresh}
        BY <1>2
    <2>3. \A m \in explicit : m \in Nat
        BY <1>2
    <2>4. (1..N) \ fresh \in SUBSET (1..N)
        OBVIOUS
    <2> HIDE DEF f
    <2>5. \E n \in {nextId} \cup {m + 1 : m \in explicit} :
              n \geq nextId /\ \A m \in explicit : m < n
        <3> HIDE DEF fresh, N, explicit
        <3> QED BY <1>2, <1>4, <2>1, <2>2, <2>4, BaseChosen
    <2>6. /\ base \in {nextId} \cup {m + 1 : m \in explicit}
          /\ base \geq nextId /\ \A m \in explicit : m < base
        <3> HIDE DEF explicit
        <3> QED BY <2>5
    <2>7. base \in Nat
        <3> HIDE DEF base, explicit
        <3> QED BY <1>4, <2>3, <2>6
    <2>8. \A i \in 1..N : i \notin fresh => pk[values[i]] \in explicit
        BY <1>2
    <2>9. QED
        <3> HIDE DEF base, explicit, fresh
        <3> QED BY <2>6, <2>7, <2>8
<1> HIDE DEF base
<1>6. ASSUME NEW i \in fresh
      PROVE  /\ before(i) \in Nat /\ Cardinality(fresh) \in Nat
             /\ before(i) < Cardinality(fresh)
    <2> HIDE DEF fresh
    <2> QED BY <1>2, <1>3, FewerBefore
<1>7. Cardinality(fresh) \in Nat
    <2> HIDE DEF fresh
    <2> QED BY <1>2, <1>3, UpTo
<1> HIDE DEF before
<1>8. nextId' = base + Cardinality(fresh)
    BY DEF Insert, base
<1>9. nextId' \in Nat \ {0} /\ nextId \leq nextId' /\ base \leq nextId'
    <2> HIDE DEF fresh
    <2> QED BY <1>4, <1>5, <1>7, <1>8
<1>10. ASSUME NEW i \in 1..N
       PROVE  /\ id[i] \in 1..(nextId' - 1)
              /\ i \in fresh => id[i] \notin Ids
    <2>1. id[i] = IF i \in fresh THEN base + before(i) ELSE pk[values[i]]
        BY <1>2
    <2>2. CASE i \in fresh
        <3>1. id[i] \in Nat /\ id[i] \geq base /\ id[i] < nextId'
            <4> HIDE DEF fresh, id
            <4> QED BY <1>5, <1>6, <1>8, <2>1, <2>2
        <3>2. id[i] \geq nextId
            <4> HIDE DEF fresh, id
            <4> QED BY <1>4, <1>5, <3>1
        <3>3. id[i] \notin Ids
            <4> HIDE DEF fresh, id
            <4> QED BY <1>4, <3>1, <3>2
        <3>4. QED
            <4> HIDE DEF fresh, id
            <4> QED BY <1>4, <1>9, <3>1, <3>2, <3>3
    <2>3. CASE i \notin fresh
        <3>1. pk[values[i]] \in Nat /\ pk[values[i]] # 0 /\ pk[values[i]] < base
            BY <1>2, <1>3, <1>5, <2>3
        <3>2. QED
            <4> HIDE DEF fresh, id
            <4> QED BY <1>5, <1>9, <2>1, <2>3, <3>1
    <2>4. QED
        BY <2>2, <2>3
<1>11. DOMAIN id = 1..N
    BY <1>2
<1> HIDE DEF id
<1>12. ASSUME NEW n \in given
       PROVE  /\ n \in 1..(nextId' - 1) /\ of(n) \in 1..N
              /\ values[of(n)] \in Objs /\ fk[values[of(n)]] \in [Cols -> Nat]
    <2>1. PICK i \in 1..N : id[i] = n
        BY <1>11 DEF ToSet
    <2>2. of(n) \in 1..N
        BY <1>2, <2>1
    <2> HIDE DEF of
    <2>3. values[of(n)] \in Objs
        BY <1>2, <2>2
    <2>4. QED
        BY <1>10, <2>1, <2>2, <2>3
<1> HIDE DEF of, given
<1>13. \A n \in DOMAIN rows' : n \in 1..(nextId' - 1) /\ rows'[n] \in Row
    <2> DEFINE new(n) ==
            IF n \notin Ids
            THEN [obj |-> {values[of(n)]}, cols |-> fk[values[of(n)]]]
            ELSE IF n \in given /\ Top.conflict = "update"
            THEN [rows[n] EXCEPT !.cols =
                     [c \in Cols |-> IF c \in Top.cols
                                     THEN fk[values[of(n)]][c] ELSE @[c]]]
            ELSE rows[n]
    <2>1. rows' = [n \in Ids \cup given |-> new(n)]
        BY DEF Insert, given, of, id, base, before
    <2>2. ASSUME NEW n \in Ids \cup given
          PROVE  n \in 1..(nextId' - 1) /\ new(n) \in Row
        <3>1. CASE n \notin Ids
            <4>1. n \in given
                BY <3>1
            <4>2. [obj |-> {values[of(n)]}, cols |-> fk[values[of(n)]]] \in Row
                BY <1>12, <4>1 DEF Row
            <4>3. QED
                BY <1>12, <3>1, <4>1, <4>2
        <3>2. CASE n \in Ids
            <4>1. n \in 1..(nextId' - 1)
                BY <1>4, <1>9, <3>2
            <4>2. rows[n] \in Row
                BY <1>4, <3>2
            <4>3. ASSUME n \in given
                  PROVE  [rows[n] EXCEPT !.cols =
                            [c \in Cols |-> IF c \in Top.cols
                                            THEN fk[values[of(n)]][c] ELSE @[c]]] \in Row
                <5>1. fk[values[of(n)]] \in [Cols -> Nat]
                    BY <1>12, <4>3
                <5>2. QED
                    BY <4>2, <5>1 DEF Row
            <4>4. QED
                BY <3>2, <4>1, <4>2, <4>3
        <3>3. QED
            BY <3>1, <3>2
    <2> HIDE DEF new
    <2>3. QED
        BY <2>1, <2>2
<1>14. first \in SUBSET fresh /\ fresh \in SUBSET returned /\ returned \in SUBSET (1..N)
    <2>1. first \in SUBSET fresh
        OBVIOUS
    <2>2. fresh \in SUBSET returned
        <3> HIDE DEF fresh
        <3> QED BY <1>2, <1>3, <1>10
    <2>3. returned \in SUBSET (1..N)
        BY <1>2
    <2>4. QED
        BY <2>1, <2>2, <2>3
<1>15. ASSUME NEW o \in Objs, \E i \in fresh : values[i] = o
       PROVE  id[place(o)] \in Nat
    <2> DEFINE mine == {i \in fresh : values[i] = o}
    <2>1. mine \in SUBSET Nat /\ mine # {}
        <3> HIDE DEF fresh
        <3> QED BY <1>3, <1>15
    <2>2. PICK i \in mine : \A j \in mine : i \leq j
        <3> HIDE DEF mine
        <3> QED BY <2>1, Least
    <2>3. i \in first /\ values[i] = o
        <3> HIDE DEF fresh
        <3> QED BY <2>2
    <2>4. me(o) \in first
        <3> HIDE DEF first
        <3> QED BY <2>3
    <2> HIDE DEF me, mine
    <2> DEFINE k == Cardinality({j \in first : j \leq me(o)})
    <2>5. first \in SUBSET (1..N) /\ IsFiniteSet(returned) /\ me(o) \in Nat
        <3> HIDE DEF first, fresh, returned
        <3>1. first \in SUBSET (1..N) /\ me(o) \in 1..N
            BY <1>14, <2>4
        <3>2. IsFiniteSet(returned)
            BY <1>2, <1>14, UpTo
        <3>3. QED
            BY <3>1, <3>2
    <2>6. k \in Nat /\ 1 \leq k /\ k \leq Cardinality(first) /\ Cardinality(first) \in Nat
        <3> HIDE DEF first
        <3> QED BY <1>2, <2>4, <2>5, UpTo
    <2>7. Cardinality(first) \leq Cardinality(returned) /\ Cardinality(returned) \in Nat
        <3> HIDE DEF first, fresh, returned
        <3>1. first \in SUBSET returned
            BY <1>14
        <3>2. QED
            BY <2>5, <3>1, FS_Subset, FS_CardinalityType
    <2>8. k \in 1..Cardinality(returned)
        <3> HIDE DEF k
        <3> QED BY <2>6, <2>7
    <2>9. place(o) \in 1..N
        <3> HIDE DEF k, returned, first
        <3>1. Nth(returned, k) \in returned
            BY <1>2, <1>14, <2>8, NthMember
        <3>2. QED
            BY <1>14, <3>1 DEF k
    <2> HIDE DEF place
    <2>10. QED
        BY <1>10, <2>9
<1>16. ASSUME NEW o \in Objs, \E i \in fresh : values[i] = o
       PROVE  id[last(o)] \in Nat
    <2> DEFINE mine == {i \in fresh : values[i] = o}
    <2>1. mine \in SUBSET (1..N) /\ mine # {}
        <3> HIDE DEF fresh
        <3> QED BY <1>3, <1>16
    <2>2. \E i \in mine : \A j \in mine : j \leq i
        <3> HIDE DEF mine
        <3> QED BY <1>2, <2>1, Greatest
    <2>3. \E i \in fresh : values[i] = o /\ \A j \in fresh : values[j] = o => j \leq i
        <3> HIDE DEF fresh
        <3> QED BY <2>2
    <2>4. last(o) \in fresh
        <3> HIDE DEF fresh
        <3> QED BY <2>3
    <2> HIDE DEF last
    <2>5. QED
        <3> HIDE DEF fresh
        <3>1. last(o) \in 1..N
            BY <1>3, <2>4
        <3>2. id[last(o)] \in 1..(nextId' - 1)
            BY <1>10, <3>1
        <3>3. QED
            BY <3>2
<1>17. pk' \in [Objs -> Nat]
    <2> DEFINE new(o) == IF \A i \in fresh : values[i] # o THEN pk[o]
                         ELSE IF Top.conflict = "nothing" THEN id[place(o)]
                         ELSE id[last(o)]
    <2>1. pk' = [o \in Objs |-> new(o)]
        BY DEF Insert, id, base, before
    <2>2. ASSUME NEW o \in Objs PROVE new(o) \in Nat
        <3> HIDE DEF fresh, place, last
        <3> QED BY <1>15, <1>16
    <2> HIDE DEF new
    <2>3. QED
        BY <2>1, <2>2
<1>18. joins \subseteq Cols \X Nat \X Nat
    BY DEF Holds
<1>19. QED
    BY <1>9, <1>13, <1>17, <1>18 DEF Holds

-----------------------------------------------------------------------------
(* Steps of the call that runs.                                            *)

LEMMA TopType ==
    ASSUME Running, frames # <<>>
    PROVE  /\ Len(frames) \in Nat \ {0} /\ Top = frames[Len(frames)] /\ Top \in Frame
           /\ Top.values \in Seq(Objs) /\ Top.cols \subseteq Cols /\ Top.at \in Stages
           /\ Top.next \in Nat /\ Top.err \in BOOLEAN
           /\ Top.conflict \in {"error", "nothing", "update"}
           /\ Top.err => Top.at = "end"
           /\ Top.at = "begin" => Len(frames) = 1
           /\ Top.at = "join" => Top.next \in RelIds
<1>1. frames \in Seq(Frame)
    BY DEF Running
<1>2. Len(frames) \in Nat \ {0} /\ Len(frames) \in 1..Len(frames)
    BY <1>1, EmptySeq
<1>3. Top = frames[Len(frames)]
    BY DEF Top, Last
<1>4. Top \in Frame
    BY <1>1, <1>2, <1>3
<1>5. /\ Top.err => Top.at = "end"
      /\ Top.at = "begin" => Len(frames) = 1
      /\ Top.at = "join" => Top.next \in RelIds
    BY <1>2, <1>3 DEF Running
<1>6. QED
    BY <1>2, <1>3, <1>4, <1>5 DEF Frame

(* The frame of the call that runs is replaced.                            *)
LEMMA Replaced ==
    ASSUME Running, frames # <<>>, world' = world,
           NEW x \in Frame, frames' = Front(frames) \o <<x>>,
           x.err => x.at = "end", x.at # "begin", x.at = "join" => x.next \in RelIds
    PROVE  /\ Running' /\ frames' # <<>> /\ Len(frames') = Len(frames)
           /\ frames'[1].at # "begin"
<1> DEFINE n == Len(frames)
<1>1. frames \in Seq(Frame) /\ n \in Nat \ {0}
    BY TopType DEF Running
<1>2. /\ frames' \in Seq(Frame) /\ frames' # <<>> /\ Len(frames') = n /\ frames'[n] = x
      /\ \A i \in 1..(n - 1) : frames'[i] = frames[i]
    BY <1>1, LastReplaced
<1>3. RelIds' = RelIds
    BY DEF RelIds, Rels
<1> HIDE DEF n
<1>4. ASSUME NEW i \in 1..n
      PROVE  /\ frames'[i].err => frames'[i].at = "end"
             /\ frames'[i].at # "begin"
             /\ frames'[i].at = "join" => frames'[i].next \in RelIds
             /\ i < n => /\ frames'[i].at \in {"saveBefore", "saveAfter"}
                         /\ frames'[i].next \in RelIds
    <2>1. CASE i = n
        BY <1>1, <1>2, <2>1
    <2>2. CASE i # n
        <3>1. i \in 1..(n - 1) /\ i < n
            BY <1>1, <2>2
        <3>2. frames'[i] = frames[i]
            BY <1>2, <3>1
        <3>3. /\ frames[i].err => frames[i].at = "end"
              /\ frames[i].at \in {"saveBefore", "saveAfter"} /\ frames[i].next \in RelIds
            BY <3>1 DEF Running, n
        <3>4. QED
            BY <3>2, <3>3
    <2>3. QED
        BY <2>1, <2>2
<1>5. Running'
    BY <1>2, <1>3, <1>4 DEF Running
<1>6. frames'[1].at # "begin"
    BY <1>1, <1>4
<1>7. QED
    BY <1>2, <1>5, <1>6 DEF n

(* A call past its first callback and without an error is in a transaction *)
(* if there is to be one.                                                  *)
LEMMA InTransaction ==
    ASSUME Inv, frames # <<>>, Top.at # "begin", ~Top.err
    PROVE  (open \/ ~world.transaction) /\ outcome = "none"
<1>1. Len(frames) = 1 => frames[1] = Top
    BY TopType DEF Inv
<1>2. QED
    BY <1>1 DEF Inv, Undoable

(* A step of such a call that leaves the transaction open.                 *)
LEMMA Stepped ==
    ASSUME Inv, frames # <<>>, Top.at # "begin", ~Top.err,
           NEW x \in Frame, frames' = Front(frames) \o <<x>>,
           x.err => x.at = "end", x.at # "begin", x.at = "join" => x.next \in RelIds,
           UNCHANGED <<world, open, saved, visited, outcome>>
    PROVE  Running' /\ Nests' /\ Undoable'
<1>1. world' = world /\ open' = open /\ visited' = visited /\ outcome' = outcome
    OBVIOUS
<1>2. /\ Running' /\ frames' # <<>> /\ Len(frames') = Len(frames)
      /\ frames'[1].at # "begin"
    BY <1>1, Replaced DEF Inv
<1>3. (open \/ ~world.transaction) /\ outcome = "none"
    BY InTransaction
<1>4. open => world.transaction
    BY DEF Inv, Undoable
<1>5. Undoable'
    BY <1>1, <1>2, <1>3, <1>4 DEF Undoable
<1>6. Nests'
    BY <1>1, <1>2 DEF Inv, Nests
<1>7. QED
    BY <1>2, <1>5, <1>6

(* What Fail, GoTo and Advance make of the frame.                          *)
LEMMA Failing ==
    ASSUME Inv, frames # <<>>, Top.at # "begin", ~Top.err, Fail,
           UNCHANGED <<world, open, saved, visited, outcome>>
    PROVE  Running' /\ Nests' /\ Undoable'
<1> DEFINE x == [Top EXCEPT !.err = TRUE, !.at = "end"]
<1>1. Top \in Frame
    BY TopType DEF Inv
<1>2. x \in Frame /\ x.at = "end"
    BY <1>1 DEF Frame, Stages
<1>3. frames' = Front(frames) \o <<x>>
    BY DEF Fail
<1> HIDE DEF x
<1>4. QED
    BY <1>2, <1>3, Stepped

LEMMA GoingTo ==
    ASSUME Inv, frames # <<>>, Top.at # "begin", ~Top.err,
           NEW at \in Stages \ {"begin"}, GoTo(at), at = "join" => Top.next \in RelIds,
           UNCHANGED <<world, open, saved, visited, outcome>>
    PROVE  Running' /\ Nests' /\ Undoable'
<1> DEFINE x == [Top EXCEPT !.at = at]
<1>1. Top \in Frame
    BY TopType DEF Inv
<1>2. x \in Frame /\ x.at = at /\ x.next = Top.next /\ ~x.err
    BY <1>1 DEF Frame
<1>3. frames' = Front(frames) \o <<x>>
    BY DEF GoTo
<1> HIDE DEF x
<1>4. QED
    BY <1>2, <1>3, Stepped

LEMMA Advancing ==
    ASSUME Inv, frames # <<>>, Top.at \in {"saveBefore", "saveAfter"}, ~Top.err, Advance,
           UNCHANGED <<world, open, saved, visited, outcome>>
    PROVE  Running' /\ Nests' /\ Undoable'
<1> DEFINE x == [Top EXCEPT !.next = @ + 1]
<1>1. Top \in Frame
    BY TopType DEF Inv
<1>2. x \in Frame /\ x.at = Top.at /\ ~x.err
    BY <1>1 DEF Frame
<1>3. frames' = Front(frames) \o <<x>>
    BY DEF Advance
<1> HIDE DEF x
<1>4. QED
    BY <1>2, <1>3, Stepped

-----------------------------------------------------------------------------
(* The initial states and the steps.                                       *)

LEMMA InitInv == Init => Inv
<1> SUFFICES ASSUME Init PROVE Inv
    OBVIOUS
<1>1. world \in Worlds /\ world.keyed \in Seq(Objs)
    BY WorldType DEF Init
<1> DEFINE n == Len(world.keyed)
<1>2. n \in Nat /\ DOMAIN world.keyed = 1..n /\ \A i \in 1..n : world.keyed[i] \in Objs
    BY <1>1
<1>3. pk \in [Objs -> Nat]
    <2> DEFINE key(o) == IF Contains(world.keyed, o)
                         THEN CHOOSE i \in DOMAIN world.keyed : world.keyed[i] = o
                         ELSE 0
    <2>1. \A o \in Objs : key(o) \in Nat
        <3>1. TAKE o \in Objs
        <3>2. CASE Contains(world.keyed, o)
            <4>1. \E i \in DOMAIN world.keyed : world.keyed[i] = o
                BY <1>2, <3>2 DEF Contains
            <4>2. (CHOOSE i \in DOMAIN world.keyed : world.keyed[i] = o) \in DOMAIN world.keyed
                BY <4>1
            <4>3. QED
                BY <1>2, <3>2, <4>2
        <3>3. CASE ~Contains(world.keyed, o)
            BY <3>3
        <3>4. QED
            BY <3>2, <3>3
    <2>2. pk = [o \in Objs |-> key(o)]
        BY DEF Init
    <2> HIDE DEF key
    <2>3. QED
        BY <2>1, <2>2
<1>4. Null \in [Cols -> Nat]
    BY DEF Null
<1>5. fk \in [Objs -> [Cols -> Nat]]
    BY <1>4 DEF Init
<1>6. nextId = n + 1 /\ joins = {}
    BY DEF Init
<1>7. \A i \in DOMAIN rows : i \in 1..n /\ rows[i] \in Row
    <2>1. rows = [i \in {j \in DOMAIN world.keyed : world.keyed[j] \in world.stored} |->
                     [obj |-> {world.keyed[i]}, cols |-> Null]]
        BY DEF Init
    <2>2. QED
        BY <1>2, <1>4, <2>1 DEF Row
<1>8. Holds(rows, joins, nextId)
    <2> HIDE DEF n
    <2> QED BY <1>2, <1>6, <1>7 DEF Holds
<1>9. saved.rows = rows /\ saved.joins = joins /\ saved.nextId = nextId
    BY DEF Init
<1>10. Stored
    BY <1>2, <1>6, <1>8, <1>9 DEF Stored
<1>11. Values
    <2>1. /\ open = FALSE /\ faults = FALSE /\ visited = {} /\ outcome = "none"
          /\ calls = 0 /\ linked = {}
        BY DEF Init
    <2>2. calls \in 0..MaxCalls
        BY <2>1, CallsAssumption
    <2>3. QED
        BY <1>1, <1>3, <1>5, <2>1, <2>2 DEF Values
<1>12. frames = <<>> /\ Len(frames) = 0
    BY DEF Init
<1>13. Running
    BY <1>12, EmptySeq DEF Running
<1>14. Nests
    BY <1>12, FS_EmptySet DEF Init, Nests
<1>15. Undoable
    BY <1>9, <1>12 DEF Init, Undoable
<1>16. QED
    BY <1>10, <1>11, <1>13, <1>14, <1>15 DEF Inv

LEMMA CreateKeeps ==
    ASSUME Inv, Create
    PROVE  Inv'
<1> USE DEF Create
<1>1. /\ world' = world /\ rows' = rows /\ joins' = joins /\ nextId' = nextId
      /\ pk' = pk /\ fk' = fk /\ open' = open /\ visited' = {} /\ outcome' = "none"
      /\ saved'.rows = rows /\ saved'.joins = joins /\ saved'.nextId = nextId
    BY DEF memory, database
<1>2. Holds(rows, joins, nextId) /\ nextId \in Nat
    BY DEF Inv, Stored, Holds
<1>3. Stored'
    BY <1>1, <1>2 DEF Stored
<1>4. RelIds' = RelIds
    BY <1>1 DEF RelIds, Rels
<1>5. calls' \in 0..MaxCalls
    BY CallsAssumption DEF Inv, Values
<1>6. Values'
    BY <1>1, <1>4, <1>5 DEF Inv, Values
<1> DEFINE x == Entry(<<world.root>>, "error", {}, "begin")
<1>7. x \in Frame /\ x.at = "begin" /\ x.err = FALSE
    <2>1. world.root \in Objs
        BY WorldType DEF Inv, Values
    <2>2. <<world.root>> \in Seq(Objs) /\ {} \in SUBSET Cols /\ "begin" \in Stages
        BY <2>1 DEF Stages
    <2>3. QED
        BY <2>2 DEF Entry, Frame
<1>8. frames' = <<x>>
    OBVIOUS
<1> HIDE DEF x
<1>9. frames' \in Seq(Frame) /\ Len(frames') = 1 /\ frames'[1] = x /\ frames' # <<>>
    BY <1>7, <1>8
<1>10. Running'
    BY <1>7, <1>9 DEF Running
<1>11. Nests'
    BY <1>1, <1>9, FS_EmptySet DEF Nests
<1>12. ~open
    BY DEF Inv, Undoable
<1>13. Undoable'
    BY <1>1, <1>7, <1>9, <1>12 DEF Undoable
<1>14. QED
    BY <1>3, <1>6, <1>10, <1>11, <1>13 DEF Inv

LEMMA OthersKeeps ==
    ASSUME Inv, Others
    PROVE  Inv'
<1> USE DEF Others
<1>1. /\ world' = world /\ joins' = joins /\ nextId' = nextId + 1
      /\ pk' = pk /\ fk' = fk /\ open' = open /\ visited' = visited
      /\ outcome' = outcome /\ frames' = frames /\ calls' = calls /\ faults' = faults
      /\ linked' = linked
      /\ saved'.rows = rows' /\ saved'.joins = joins' /\ saved'.nextId = nextId'
    BY DEF memory
<1>2. Holds(rows, joins, nextId)
    BY DEF Inv, Stored
<1>3. Null \in [Cols -> Nat]
    BY DEF Null
<1>4. rows' = [i \in Ids \cup {nextId} |->
                  IF i = nextId THEN [obj |-> {}, cols |-> Null] ELSE rows[i]]
    OBVIOUS
<1>5. nextId \in Nat \ {0} /\ \A i \in Ids : i \in 1..(nextId - 1) /\ rows[i] \in Row
    BY <1>2 DEF Holds, Ids
<1>6. \A i \in DOMAIN rows' : i \in 1..(nextId' - 1) /\ rows'[i] \in Row
    <2>1. [obj |-> {}, cols |-> Null] \in Row
        BY <1>3 DEF Row
    <2>2. ASSUME NEW i \in Ids \cup {nextId}
          PROVE  i \in 1..(nextId' - 1) /\ rows'[i] \in Row
        <3>1. CASE i = nextId
            BY <1>1, <1>4, <1>5, <2>1, <3>1
        <3>2. CASE i \in Ids /\ i # nextId
            <4>1. rows'[i] = rows[i]
                BY <1>4, <3>2
            <4>2. QED
                BY <1>1, <1>5, <3>2, <4>1
        <3>3. QED
            BY <3>1, <3>2
    <2>3. QED
        BY <1>4, <2>2
<1>7. Holds(rows', joins', nextId')
    <2>1. nextId' \in Nat \ {0}
        BY <1>1, <1>5
    <2>2. joins' \subseteq Cols \X Nat \X Nat
        BY <1>1, <1>2 DEF Holds
    <2>3. QED
        BY <1>6, <2>1, <2>2 DEF Holds
<1>8. Stored'
    <2>1. nextId' \in Nat
        BY <1>1, <1>5
    <2>2. QED
        BY <1>1, <1>7, <2>1 DEF Stored
<1>9. Values'
    BY <1>1 DEF Inv, Values, RelIds, Rels
<1>10. Running' /\ Nests'
    BY <1>1 DEF Inv, Running, Nests, RelIds, Rels
<1>11. Undoable'
    BY <1>1 DEF Inv, Undoable
<1>12. QED
    BY <1>8, <1>9, <1>10, <1>11 DEF Inv

(* Begin succeeds, or fails and nothing has been written.                  *)
LEMMA BeginTransactionKeeps ==
    ASSUME Inv, BeginTransaction
    PROVE  Inv'
<1>1. /\ world' = world /\ pk' = pk /\ fk' = fk /\ rows' = rows /\ joins' = joins
      /\ nextId' = nextId /\ saved' = saved /\ visited' = visited /\ outcome' = outcome
      /\ calls' = calls /\ linked' = linked
    BY DEF BeginTransaction, memory, database
<1>2. frames # <<>> /\ Top.at = "begin" /\ ~Top.err
    BY DEF BeginTransaction, Runs, At
<1>3. Len(frames) = 1 /\ frames[1] = Top /\ Top \in Frame
    BY <1>2, TopType DEF Inv
<1>4. ~open /\ outcome = "none"
    BY <1>2, <1>3 DEF Inv, Undoable
<1>5. Stored'
    BY <1>1 DEF Inv, Stored
<1>6. world.transaction \in BOOLEAN
    BY WorldType DEF Inv, Values
<1>7. PICK x \in Frame :
          /\ frames' = Front(frames) \o <<x>>
          /\ \/ open' = world.transaction /\ x.at = "before" /\ x.err = FALSE /\ faults' = faults
             \/ world.transaction /\ x.at = "end" /\ x.err /\ open' = open /\ faults' = TRUE
    <2> DEFINE g == [Top EXCEPT !.at = "before"]
               f == [Top EXCEPT !.err = TRUE, !.at = "end"]
    <2>1. g \in Frame /\ g.at = "before" /\ g.err = FALSE
        BY <1>2, <1>3 DEF Frame, Stages
    <2>2. f \in Frame /\ f.at = "end" /\ f.err
        BY <1>3 DEF Frame, Stages
    <2>3. \/ open' = world.transaction /\ frames' = Front(frames) \o <<g>> /\ faults' = faults
          \/ /\ world.transaction /\ frames' = Front(frames) \o <<f>> /\ open' = open
             /\ faults' = TRUE
        BY DEF BeginTransaction, GoTo, Fault, Fail
    <2> HIDE DEF f, g
    <2>4. QED
        BY <2>1, <2>2, <2>3
<1>8. /\ Running' /\ frames' # <<>> /\ Len(frames') = 1
      /\ frames'[1].at # "begin"
    BY <1>1, <1>2, <1>3, <1>7, Replaced DEF Inv
<1>9. frames'[1] = x
    <2>1. frames \in Seq(Frame)
        BY DEF Inv, Running
    <2>2. frames'[Len(frames')] = x
        BY <1>2, <1>7, <2>1, LastReplaced
    <2>3. QED
        BY <1>8, <2>2
<1>10. Values'
    <2>1. open' \in BOOLEAN /\ faults' \in BOOLEAN
        BY <1>4, <1>6, <1>7 DEF Inv, Values
    <2>2. QED
        BY <1>1, <2>1 DEF Inv, Values, RelIds, Rels
<1>11. Nests'
    BY <1>1, <1>3, <1>8 DEF Inv, Nests
<1>12. Undoable'
    BY <1>1, <1>2, <1>3, <1>4, <1>6, <1>7, <1>8, <1>9 DEF Inv, Undoable
<1>13. QED
    BY <1>5, <1>8, <1>10, <1>11, <1>12 DEF Inv

LEMMA HooksKeeps ==
    ASSUME Inv, Hooks
    PROVE  Inv'
<1>1. /\ UNCHANGED <<world, open, saved, visited, outcome>>
      /\ world' = world /\ pk' = pk /\ fk' = fk /\ rows' = rows /\ joins' = joins
      /\ nextId' = nextId /\ saved' = saved /\ visited' = visited /\ outcome' = outcome
      /\ calls' = calls /\ linked' = linked /\ open' = open
    BY DEF Hooks, memory, database
<1>2. Stored'
    BY <1>1 DEF Inv, Stored
<1>3. frames # <<>> /\ Top.at \in {"before", "after"} /\ ~Top.err
    BY DEF Hooks, Runs, At
<1>4. \/ GoTo("saveBefore") /\ faults' = faults
      \/ GoTo("end") /\ faults' = faults
      \/ Fail /\ faults' = TRUE
    BY DEF Hooks, Fault
<1>5. Values'
    BY <1>1, <1>4 DEF Inv, Values, RelIds, Rels
<1>6. Top.at # "begin"
    BY <1>3
<1>7. Running' /\ Nests' /\ Undoable'
    <2>1. CASE GoTo("saveBefore")
        <3>1. "saveBefore" \in Stages \ {"begin"}
            BY DEF Stages
        <3>2. QED
            BY <1>1, <1>3, <1>6, <2>1, <3>1, GoingTo
    <2>2. CASE GoTo("end")
        <3>1. "end" \in Stages \ {"begin"}
            BY DEF Stages
        <3>2. QED
            BY <1>1, <1>3, <1>6, <2>2, <3>1, GoingTo
    <2>3. CASE Fail
        BY <1>1, <1>3, <1>6, <2>3, Failing
    <2>4. QED
        BY <1>4, <2>1, <2>2, <2>3
<1>8. QED
    BY <1>2, <1>5, <1>7 DEF Inv

LEMMA PanicKeeps ==
    ASSUME Inv, Panic
    PROVE  Inv'
<1>1. /\ world' = world /\ pk' = pk /\ fk' = fk /\ rows' = rows /\ joins' = joins
      /\ nextId' = nextId /\ saved' = saved /\ visited' = visited /\ outcome' = "panic"
      /\ calls' = calls /\ linked' = linked /\ open' = open /\ faults' = faults
      /\ frames' = <<>>
    BY DEF Panic, memory, database
<1>2. Stored' /\ Values'
    BY <1>1 DEF Inv, Stored, Values, RelIds, Rels
<1>3. Running'
    BY <1>1, EmptySeq DEF Running
<1>4. Nests'
    <2>1. IsFiniteSet(visited) /\ Cardinality(visited) \in Nat
        BY CallsAssumption, FS_Subset, FS_CardinalityType DEF Inv, Values
    <2>2. Len(frames') = 0
        BY <1>1
    <2>3. QED
        BY <1>1, <2>1, <2>2 DEF Nests
<1>5. Undoable'
    BY <1>1 DEF Inv, Undoable
<1>6. QED
    BY <1>2, <1>3, <1>4, <1>5 DEF Inv

LEMMA AssociationsDoneKeeps ==
    ASSUME Inv, AssociationsDone
    PROVE  Inv'
<1>1. /\ UNCHANGED <<world, open, saved, visited, outcome>>
      /\ world' = world /\ pk' = pk /\ fk' = fk /\ rows' = rows /\ joins' = joins
      /\ nextId' = nextId /\ saved' = saved /\ visited' = visited /\ outcome' = outcome
      /\ calls' = calls /\ linked' = linked /\ open' = open /\ faults' = faults
    BY DEF AssociationsDone, memory, database
<1>2. Stored' /\ Values'
    BY <1>1 DEF Inv, Stored, Values, RelIds, Rels
<1>3. frames # <<>> /\ Top.at # "begin" /\ ~Top.err
    BY DEF AssociationsDone, Runs, At
<1>4. PICK at \in {"insert", "after"} : GoTo(at)
    BY DEF AssociationsDone
<1>5. at \in Stages \ {"begin"} /\ at # "join"
    BY DEF Stages
<1>6. Running' /\ Nests' /\ Undoable'
    BY <1>1, <1>3, <1>4, <1>5, GoingTo
<1>7. QED
    BY <1>2, <1>6 DEF Inv

(* A nested call is pushed: it is for an object not visited before.        *)
LEMMA Pushed ==
    ASSUME Inv, frames # <<>>, Top.at \in {"saveBefore", "saveAfter"}, ~Top.err,
           Top.next \in RelIds,
           NEW x \in Frame, x.at = "before", x.err = FALSE, frames' = Append(frames, x),
           NEW todo \in Seq(Objs), ~Saved(todo), visited' = visited \cup ToSet(todo),
           UNCHANGED <<world, open, saved, outcome>>
    PROVE  Running' /\ Nests' /\ Undoable'
<1> DEFINE n == Len(frames)
<1>1. world' = world /\ open' = open /\ saved' = saved /\ outcome' = outcome
    OBVIOUS
<1>2. frames \in Seq(Frame) /\ n \in Nat \ {0} /\ Top = frames[n]
    BY TopType DEF Inv, Running
<1>3. /\ frames' \in Seq(Frame) /\ Len(frames') = n + 1 /\ frames'[n + 1] = x
      /\ \A i \in 1..n : frames'[i] = frames[i]
    BY <1>2, AppendProperties
<1>4. frames' # <<>>
    BY <1>2, <1>3, EmptySeq
<1>5. RelIds' = RelIds
    BY <1>1 DEF RelIds, Rels
<1> HIDE DEF n
<1>6. ASSUME NEW i \in 1..(n + 1)
      PROVE  /\ frames'[i].err => frames'[i].at = "end"
             /\ frames'[i].at # "begin"
             /\ frames'[i].at = "join" => frames'[i].next \in RelIds
             /\ i < n + 1 => /\ frames'[i].at \in {"saveBefore", "saveAfter"}
                             /\ frames'[i].next \in RelIds
    <2>1. CASE i = n + 1
        BY <1>2, <1>3, <2>1
    <2>2. CASE i = n
        <3>1. frames'[i] = Top
            BY <1>2, <1>3, <2>2
        <3>2. QED
            BY <3>1
    <2>3. CASE i \in 1..(n - 1)
        <3>1. frames'[i] = frames[i] /\ i < n /\ i \in 1..n
            BY <1>2, <1>3, <2>3
        <3>2. /\ frames[i].err => frames[i].at = "end"
              /\ frames[i].at \in {"saveBefore", "saveAfter"} /\ frames[i].next \in RelIds
            BY <3>1 DEF Inv, Running, n
        <3>3. QED
            BY <3>1, <3>2
    <2>4. i = n + 1 \/ i = n \/ i \in 1..(n - 1)
        BY <1>2
    <2>5. QED
        BY <2>1, <2>2, <2>3, <2>4
<1>7. Running'
    BY <1>3, <1>5, <1>6 DEF Running
<1>8. frames'[1].at # "begin"
    BY <1>2, <1>6
<1>9. (open \/ ~world.transaction) /\ outcome = "none"
    BY InTransaction
<1>10. open => world.transaction
    BY DEF Inv, Undoable
<1>11. Undoable'
    BY <1>1, <1>4, <1>8, <1>9, <1>10 DEF Undoable
<1>12. Nests'
    <2>1. visited \subseteq Objs /\ ToSet(todo) \subseteq Objs
        BY ToSetType DEF Inv, Values
    <2>2. PICK o \in ToSet(todo) : o \notin visited
        BY DEF Saved
    <2>3. IsFiniteSet(visited') /\ visited' \in SUBSET Objs
        BY <2>1, CallsAssumption, FS_Subset
    <2>4. /\ IsFiniteSet(visited) /\ Cardinality(visited) \leq Cardinality(visited')
          /\ Cardinality(visited') = Cardinality(visited) => visited' = visited
        <3>1. visited \in SUBSET visited'
            OBVIOUS
        <3>2. QED
            BY <2>3, <3>1, FS_Subset
    <2>5. Cardinality(visited) \in Nat /\ Cardinality(visited') \in Nat
        BY <2>3, <2>4, FS_CardinalityType
    <2>6. visited' # visited
        BY <2>2
    <2>7. n \leq Cardinality(visited) + 1
        BY DEF Inv, Nests, n
    <2>8. n + 1 \leq Cardinality(visited') + 1
        BY <1>2, <2>4, <2>5, <2>6, <2>7
    <2>9. QED
        BY <1>3, <2>8 DEF Nests
<1>13. QED
    BY <1>7, <1>11, <1>12

LEMMA AssociationsKeeps ==
    ASSUME Inv, Associations
    PROVE  Inv'
<1> DEFINE r    == Top.next
           objs == Targets(r, Top.values)
           todo == IF Rel.kind = "one" THEN objs ELSE Distinct(objs)
<1>1. /\ world' = world /\ pk' = pk /\ rows' = rows /\ joins' = joins /\ nextId' = nextId
      /\ open' = open /\ saved' = saved /\ outcome' = outcome /\ calls' = calls
      /\ faults' = faults
    BY DEF Associations, database
<1>2. frames # <<>> /\ Top.at \in {"saveBefore", "saveAfter"} /\ ~Top.err
    BY DEF Associations, Runs, At
<1>3. r \in RelIds
    BY DEF Associations
<1>4. world \in Worlds /\ pk \in [Objs -> Nat] /\ fk \in [Objs -> [Cols -> Nat]]
    BY DEF Inv, Values
<1>5. Top.values \in Seq(Objs)
    BY <1>2, TopType DEF Inv
<1>6. objs \in Seq(Objs)
    BY <1>3, <1>4, <1>5, TargetsType
<1>7. todo \in Seq(Objs)
    BY <1>6, DistinctType
<1> DEFINE skips  == Advance /\ fk' = fk
           found  == /\ fk' = IF Before THEN References(r, Top.values)
                              ELSE Referenced(r, Top.values)
                     /\ Advance \/ GoTo("join")
           saves  == /\ ~Saved(todo)
                     /\ visited' = visited \cup ToSet(todo)
                     /\ linked' = linked \cup ({r} \X ToSet(Top.values))
                     /\ fk' = Referenced(r, Top.values)
                     /\ frames' = Append(frames, OnConflict(r, todo))
<1>8. saves \/ (visited' = visited /\ linked' = linked /\ (skips \/ found))
    BY DEF Associations
<1> HIDE DEF objs, todo
<1>9. fk' \in [Objs -> [Cols -> Nat]]
    <2>1. /\ References(r, Top.values) \in [Objs -> [Cols -> Nat]]
          /\ Referenced(r, Top.values) \in [Objs -> [Cols -> Nat]]
        BY <1>3, <1>4, <1>5, ReferencesType, ReferencedType
    <2>2. QED
        BY <1>4, <1>8, <2>1
<1>10. visited' \subseteq Objs /\ linked' \subseteq RelIds \X Objs
    <2>1. ToSet(todo) \subseteq Objs /\ ToSet(Top.values) \subseteq Objs
        BY <1>5, <1>7, ToSetType
    <2>2. visited \subseteq Objs /\ linked \subseteq RelIds \X Objs
        BY DEF Inv, Values
    <2>3. {r} \X ToSet(Top.values) \subseteq RelIds \X Objs
        BY <1>3, <2>1
    <2>4. QED
        BY <1>8, <2>1, <2>2, <2>3
<1>11. RelIds' = RelIds
    BY <1>1 DEF RelIds, Rels
<1>12. Values'
    BY <1>1, <1>9, <1>10, <1>11 DEF Inv, Values
<1>13. Stored'
    BY <1>1 DEF Inv, Stored
<1>14. Running' /\ Nests' /\ Undoable'
    <2>1. CASE saves
        <3> DEFINE x == OnConflict(r, todo)
        <3>1. x \in Frame /\ x.at = "before" /\ x.err = FALSE
            BY <1>3, <1>4, <1>7, OnConflictType
        <3>2. frames' = Append(frames, x) /\ ~Saved(todo) /\ visited' = visited \cup ToSet(todo)
            BY <2>1
        <3> HIDE DEF x
        <3>3. QED
            BY <1>1, <1>2, <1>3, <1>7, <3>1, <3>2, Pushed
    <2>2. CASE visited' = visited /\ Advance
        BY <1>1, <1>2, <2>2, Advancing
    <2>3. CASE visited' = visited /\ GoTo("join")
        <3>1. "join" \in Stages \ {"begin"}
            BY DEF Stages
        <3>2. Top.at # "begin"
            BY <1>2
        <3>3. QED
            BY <1>1, <1>2, <1>3, <2>3, <3>1, <3>2, GoingTo
    <2>4. QED
        BY <1>8, <2>1, <2>2, <2>3
<1>15. QED
    BY <1>12, <1>13, <1>14 DEF Inv

LEMMA JoinKeeps ==
    ASSUME Inv, Join
    PROVE  Inv'
<1>1. /\ UNCHANGED <<world, open, saved, visited, outcome>>
      /\ world' = world /\ pk' = pk /\ fk' = fk /\ rows' = rows
      /\ nextId' = nextId /\ saved' = saved /\ visited' = visited /\ outcome' = outcome
      /\ calls' = calls /\ open' = open
    BY DEF Join, memory
<1>2. frames # <<>> /\ Top.at = "join" /\ ~Top.err
    BY DEF Join, Runs, At
<1>3. Top.next \in RelIds /\ Top \in Frame /\ Top.values \in Seq(Objs) /\ Top.next \in Nat
    BY <1>2, TopType DEF Inv
<1>4. world \in Worlds /\ pk \in [Objs -> Nat]
    BY DEF Inv, Values
<1>5. ToSet(Top.values) \subseteq Objs
    BY <1>3, ToSetType
<1>6. Rel.col \in Cols /\ \A o \in Objs : ToSet(Rel.to[o]) \subseteq Objs
    <2>1. Rel.col \in Cols /\ \A o \in Objs : Rel.to[o] \in Seq(Objs)
        BY <1>3, <1>4, RelationType DEF Rel
    <2>2. QED
        BY <2>1, ToSetType
<1>7. joins \subseteq Cols \X Nat \X Nat
    BY DEF Inv, Stored, Holds
<1> DEFINE added == UNION {{<<Rel.col, pk[o], pk[to]>> : to \in ToSet(Rel.to[o])} :
                              o \in ToSet(Top.values)}
           x     == [Top EXCEPT !.at = "saveAfter", !.next = @ + 1]
           links == {Top.next} \X ToSet(Top.values)
<1>8. added \subseteq Cols \X Nat \X Nat
    <2>1. ASSUME NEW o \in ToSet(Top.values), NEW to \in ToSet(Rel.to[o])
          PROVE  <<Rel.col, pk[o], pk[to]>> \in Cols \X Nat \X Nat
        BY <1>4, <1>5, <1>6
    <2>2. QED
        BY <2>1
<1>9. links \subseteq RelIds \X Objs
    BY <1>3, <1>5
<1>10. x \in Frame /\ x.at = "saveAfter" /\ ~x.err
    <2>1. Top.next + 1 \in Nat /\ Top.err \in BOOLEAN
        BY <1>3 DEF Frame
    <2>2. QED
        BY <1>2, <1>3, <2>1 DEF Frame, Stages
<1> DEFINE writes == /\ joins' = joins \cup added
                     /\ frames' = Front(frames) \o <<x>>
                     /\ linked' = linked \cup links
                     /\ faults' = faults
           fails  == Fail /\ faults' = TRUE /\ joins' = joins /\ linked' = linked
<1>11. writes \/ fails
    BY DEF Join, Fault
<1> HIDE DEF added, x, links
<1>12. Holds(rows', joins', nextId')
    <2>1. joins' \subseteq Cols \X Nat \X Nat
        BY <1>7, <1>8, <1>11
    <2>2. QED
        BY <1>1, <2>1 DEF Inv, Stored, Holds
<1>13. Stored'
    BY <1>1, <1>12 DEF Inv, Stored
<1>14. Values'
    <2>1. linked' \subseteq RelIds \X Objs /\ faults' \in BOOLEAN
        BY <1>9, <1>11 DEF Inv, Values
    <2>2. QED
        BY <1>1, <2>1 DEF Inv, Values, RelIds, Rels
<1>15. Running' /\ Nests' /\ Undoable'
    <2>1. Top.at # "begin"
        BY <1>2
    <2>2. CASE writes
        BY <1>1, <1>2, <1>10, <2>1, <2>2, Stepped
    <2>3. CASE fails
        BY <1>1, <1>2, <2>1, <2>3, Failing
    <2>4. QED
        BY <1>11, <2>2, <2>3
<1>16. QED
    BY <1>13, <1>14, <1>15 DEF Inv

LEMMA InsertValuesKeeps ==
    ASSUME Inv, InsertValues
    PROVE  Inv'
<1>1. /\ UNCHANGED <<world, open, saved, visited, outcome>>
      /\ world' = world /\ fk' = fk /\ joins' = joins
      /\ saved' = saved /\ visited' = visited /\ outcome' = outcome
      /\ calls' = calls /\ open' = open /\ linked' = linked
    BY DEF InsertValues
<1>2. frames # <<>> /\ Top.at = "insert" /\ ~Top.err /\ Top.at # "begin"
    BY DEF InsertValues, Runs, At
<1>3. Top \in Frame
    BY <1>2, TopType DEF Inv
<1>4. pk \in [Objs -> Nat] /\ fk \in [Objs -> [Cols -> Nat]] /\ Holds(rows, joins, nextId)
    BY DEF Inv, Values, Stored
<1>5. \/ Insert /\ GoTo("saveAfter") /\ faults' = faults
      \/ Fail /\ pk' = pk /\ rows' = rows /\ nextId' = nextId /\ faults' \in {faults, TRUE}
    BY DEF InsertValues, Fault
<1>6. pk' \in [Objs -> Nat] /\ Holds(rows', joins, nextId') /\ nextId \leq nextId'
    <2>1. CASE Insert
        BY <1>3, <1>4, <2>1, InsertType
    <2>2. CASE pk' = pk /\ rows' = rows /\ nextId' = nextId
        <3>1. nextId \in Nat
            BY <1>4 DEF Holds
        <3>2. QED
            BY <1>4, <2>2, <3>1
    <2>3. QED
        BY <1>5, <2>1, <2>2
<1>7. Stored'
    <2>1. Holds(rows', joins', nextId')
        BY <1>1, <1>6
    <2>2. saved'.nextId \leq nextId'
        <3>1. /\ saved.nextId \in Nat /\ nextId \in Nat /\ nextId' \in Nat
              /\ saved.nextId \leq nextId
            BY <1>6 DEF Inv, Stored, Holds
        <3>2. QED
            BY <1>1, <1>6, <3>1
    <2>3. QED
        BY <1>1, <2>1, <2>2 DEF Inv, Stored
<1>8. Values'
    <2>1. faults' \in BOOLEAN
        BY <1>5 DEF Inv, Values
    <2>2. QED
        BY <1>1, <1>6, <2>1 DEF Inv, Values, RelIds, Rels
<1>9. Running' /\ Nests' /\ Undoable'
    <2>1. CASE GoTo("saveAfter")
        <3>1. "saveAfter" \in Stages \ {"begin"}
            BY DEF Stages
        <3>2. QED
            BY <1>1, <1>2, <2>1, <3>1, GoingTo
    <2>2. CASE Fail
        BY <1>1, <1>2, <2>2, Failing
    <2>3. QED
        BY <1>5, <2>1, <2>2
<1>10. QED
    BY <1>7, <1>8, <1>9 DEF Inv

(* A nested call has returned to the one that made it.                     *)
LEMMA ReturnKeeps ==
    ASSUME Inv, Return
    PROVE  Inv'
<1> DEFINE n == Len(frames)
           caller == frames[n - 1]
           x == IF Top.err THEN Failed(caller) ELSE Resumed(caller)
<1>1. /\ world' = world /\ pk' = pk /\ rows' = rows /\ joins' = joins /\ nextId' = nextId
      /\ open' = open /\ saved' = saved /\ visited' = visited /\ outcome' = outcome
      /\ calls' = calls /\ faults' = faults /\ linked' = linked
    BY DEF Return, database
<1>2. frames # <<>> /\ n > 1
    BY DEF Return, At
<1>3. frames \in Seq(Frame) /\ n \in Nat
    BY <1>2, TopType DEF Inv, Running
<1>4. /\ caller \in Frame /\ ~caller.err /\ caller.at \in {"saveBefore", "saveAfter"}
      /\ caller.next \in RelIds
    <2>1. n - 1 \in 1..n /\ n - 1 < n
        BY <1>2, <1>3
    <2>2. caller \in Frame
        BY <1>3, <2>1
    <2>3. /\ caller.err => caller.at = "end"
          /\ caller.at \in {"saveBefore", "saveAfter"} /\ caller.next \in RelIds
        BY <2>1 DEF Inv, Running
    <2>4. QED
        BY <2>2, <2>3 DEF Frame
<1> HIDE DEF caller
<1>5. /\ x \in Frame /\ x.at # "begin"
      /\ x.err => x.at = "end"
      /\ x.at = "join" => x.next \in RelIds
    <2>1. caller.next \in Nat /\ caller.next + 1 \in Nat
        BY <1>4 DEF Frame
    <2>2. Failed(caller) \in Frame /\ Failed(caller).at = "end"
        BY <1>4 DEF Failed, Frame, Stages
    <2>3. CASE Rels[caller.next].kind = "m2m"
        <3>1. Resumed(caller) = [caller EXCEPT !.at = "join"]
            BY <2>3 DEF Resumed
        <3>2. /\ Resumed(caller) \in Frame /\ Resumed(caller).at = "join"
              /\ ~Resumed(caller).err /\ Resumed(caller).next = caller.next
            BY <1>4, <3>1 DEF Frame, Stages
        <3>3. QED
            BY <1>4, <2>2, <3>2
    <2>4. CASE Rels[caller.next].kind # "m2m"
        <3>1. Resumed(caller) = [caller EXCEPT !.next = @ + 1]
            BY <2>4 DEF Resumed
        <3>2. /\ Resumed(caller) \in Frame /\ Resumed(caller).at = caller.at
              /\ ~Resumed(caller).err
            BY <1>4, <2>1, <3>1 DEF Frame
        <3>3. QED
            BY <1>4, <2>2, <3>2
    <2>5. QED
        BY <2>3, <2>4
<1>6. frames' = Append(Front(Front(frames)), x)
    BY DEF Return, caller
<1>7. fk' \in [Objs -> [Cols -> Nat]]
    <2>1. world \in Worlds /\ pk \in [Objs -> Nat] /\ fk \in [Objs -> [Cols -> Nat]]
        BY DEF Inv, Values
    <2>2. caller.values \in Seq(Objs)
        BY <1>4 DEF Frame
    <2>3. References(caller.next, caller.values) \in [Objs -> [Cols -> Nat]]
        BY <1>4, <2>1, <2>2, ReferencesType
    <2>4. fk' = fk \/ fk' = References(caller.next, caller.values)
        BY DEF Return, caller
    <2>5. QED
        BY <2>1, <2>3, <2>4
<1> HIDE DEF x
<1>8. /\ frames' \in Seq(Frame) /\ frames' # <<>> /\ Len(frames') = n - 1
      /\ frames'[n - 1] = x /\ \A i \in 1..(n - 2) : frames'[i] = frames[i]
    BY <1>2, <1>3, <1>5, <1>6, LastTwoReplaced
<1>9. RelIds' = RelIds
    BY <1>1 DEF RelIds, Rels
<1> HIDE DEF n
<1>10. ASSUME NEW i \in 1..(n - 1)
       PROVE  /\ frames'[i].err => frames'[i].at = "end"
              /\ frames'[i].at # "begin"
              /\ frames'[i].at = "join" => frames'[i].next \in RelIds
              /\ i < n - 1 => /\ frames'[i].at \in {"saveBefore", "saveAfter"}
                              /\ frames'[i].next \in RelIds
    <2>1. CASE i = n - 1
        BY <1>2, <1>3, <1>5, <1>8, <2>1
    <2>2. CASE i # n - 1
        <3>1. i \in 1..(n - 2) /\ i < n /\ i \in 1..n
            BY <1>2, <1>3, <2>2
        <3>2. frames'[i] = frames[i]
            BY <1>8, <3>1
        <3>3. /\ frames[i].err => frames[i].at = "end"
              /\ frames[i].at \in {"saveBefore", "saveAfter"} /\ frames[i].next \in RelIds
            BY <3>1 DEF Inv, Running, n
        <3>4. QED
            BY <3>2, <3>3
    <2>3. QED
        BY <2>1, <2>2
<1>11. Running'
    BY <1>8, <1>9, <1>10 DEF Running
<1>12. frames'[1].at # "begin"
    <2>1. 1 \in 1..(n - 1)
        BY <1>2, <1>3
    <2>2. QED
        BY <1>10, <2>1
<1>13. Nests'
    <2>1. n \leq Cardinality(visited) + 1
        BY DEF Inv, Nests, n
    <2>2. Cardinality(visited) \in Nat
        BY CallsAssumption, FS_Subset, FS_CardinalityType DEF Inv, Values
    <2>3. n - 1 \leq Cardinality(visited) + 1
        BY <1>3, <2>1, <2>2
    <2>4. QED
        BY <1>1, <1>8, <2>3 DEF Nests
<1>14. Undoable'
    <2>1. outcome = "none" /\ (open => world.transaction)
        BY <1>2 DEF Inv, Undoable
    <2>2. world.transaction => open
        <3>1. n # 1
            BY <1>2, <1>3
        <3>2. QED
            BY <1>2, <3>1 DEF Inv, Undoable, n
    <2>3. QED
        BY <1>1, <1>8, <1>12, <2>1, <2>2 DEF Undoable
<1>15. Values'
    BY <1>1, <1>7, <1>9 DEF Inv, Values
<1>16. Stored'
    BY <1>1 DEF Inv, Stored
<1>17. QED
    BY <1>11, <1>13, <1>14, <1>15, <1>16 DEF Inv

(* The transaction ends: everything is kept, or nothing.                   *)
LEMMA CommitOrRollbackKeeps ==
    ASSUME Inv, CommitOrRollback
    PROVE  Inv'
<1>1. /\ world' = world /\ pk' = pk /\ fk' = fk /\ saved' = saved /\ visited' = visited
      /\ calls' = calls /\ linked' = linked /\ frames' = <<>> /\ open' = FALSE
    BY DEF CommitOrRollback, memory
<1>2. frames # <<>> /\ Len(frames) = 1 /\ frames[1] = Top /\ Top.at = "end"
    <2>1. frames # <<>> /\ Len(frames) = 1 /\ Top.at = "end"
        BY DEF CommitOrRollback, At
    <2>2. QED
        BY <2>1, TopType DEF Inv
<1> DEFINE same    == rows' = rows /\ joins' = joins /\ nextId' = nextId
           commits == ~Top.err /\ outcome' = "ok" /\ same /\ faults' = faults
           breaks  == ~Top.err /\ open /\ Undo /\ outcome' = "error" /\ faults' = TRUE
           undoes  == Top.err /\ outcome' = "error" /\ faults' = faults /\ open /\ Undo
           stays   == Top.err /\ outcome' = "error" /\ faults' = faults /\ ~open /\ same
<1>3. commits \/ breaks \/ undoes \/ stays
    BY DEF CommitOrRollback, database
<1>4. Values'
    <2>1. outcome' \in {"ok", "error"} /\ faults' \in BOOLEAN
        BY <1>3 DEF Inv, Values
    <2>2. open' \in BOOLEAN
        BY <1>1
    <2>3. QED
        BY <1>1, <2>1, <2>2 DEF Inv, Values, RelIds, Rels
<1>5. Stored'
    <2>1. CASE same
        BY <1>1, <2>1 DEF Inv, Stored
    <2>2. CASE Undo
        <3>1. /\ Holds(saved.rows, saved.joins, saved.nextId)
              /\ saved.nextId \in Nat \ {0} /\ nextId \in Nat /\ saved.nextId \leq nextId
            BY DEF Inv, Stored, Holds
        <3>2. rows' = saved.rows /\ joins' = saved.joins /\ nextId' \in {saved.nextId, nextId}
            BY <2>2 DEF Undo
        <3>3. nextId' \in Nat \ {0} /\ saved.nextId \leq nextId'
            BY <3>1, <3>2
        <3>4. \A i \in DOMAIN saved.rows : i \in 1..(nextId' - 1) /\ saved.rows[i] \in Row
            BY <3>1, <3>3 DEF Holds
        <3>5. Holds(rows', joins', nextId')
            BY <3>1, <3>2, <3>3, <3>4 DEF Holds
        <3>6. QED
            BY <1>1, <3>1, <3>3, <3>5 DEF Stored
    <2>3. QED
        BY <1>3, <2>1, <2>2
<1>6. Running'
    BY <1>1, EmptySeq DEF Running
<1>7. Nests'
    <2>1. Cardinality(visited) \in Nat
        BY CallsAssumption, FS_Subset, FS_CardinalityType DEF Inv, Values
    <2>2. Len(frames') = 0
        BY <1>1
    <2>3. QED
        BY <1>1, <2>1, <2>2 DEF Nests
<1>8. world.transaction /\ outcome' = "error" => rows' = saved.rows /\ joins' = saved.joins
    <2>1. CASE commits
        BY <2>1
    <2>2. CASE breaks \/ undoes
        BY <2>2 DEF Undo
    <2>3. CASE stays
        BY <1>2, <2>3 DEF Inv, Undoable
    <2>4. QED
        BY <1>3, <2>1, <2>2, <2>3
<1>9. Undoable'
    BY <1>1, <1>8 DEF Undoable
<1>10. QED
    BY <1>4, <1>5, <1>6, <1>7, <1>9 DEF Inv

LEMMA StutterKeeps ==
    ASSUME Inv, UNCHANGED vars
    PROVE  Inv'
<1>1. /\ world' = world /\ pk' = pk /\ fk' = fk /\ rows' = rows /\ joins' = joins
      /\ nextId' = nextId /\ open' = open /\ saved' = saved /\ frames' = frames
      /\ visited' = visited /\ outcome' = outcome /\ calls' = calls /\ faults' = faults
      /\ linked' = linked
    BY DEF vars, memory, database
<1>2. Values' /\ Stored' /\ Running' /\ Nests' /\ Undoable'
    BY <1>1 DEF Inv, Values, Stored, Running, Nests, Undoable, RelIds, Rels
<1>3. QED
    BY <1>2 DEF Inv

LEMMA NextKeeps ==
    ASSUME Inv, [Next]_vars
    PROVE  Inv'
<1>1. CASE Create
    BY <1>1, CreateKeeps
<1>2. CASE Others
    BY <1>2, OthersKeeps
<1>3. CASE BeginTransaction
    BY <1>3, BeginTransactionKeeps
<1>4. CASE Hooks
    BY <1>4, HooksKeeps
<1>5. CASE Panic
    BY <1>5, PanicKeeps
<1>6. CASE Associations
    BY <1>6, AssociationsKeeps
<1>7. CASE AssociationsDone
    BY <1>7, AssociationsDoneKeeps
<1>8. CASE Join
    BY <1>8, JoinKeeps
<1>9. CASE InsertValues
    BY <1>9, InsertValuesKeeps
<1>10. CASE Return
    BY <1>10, ReturnKeeps
<1>11. CASE CommitOrRollback
    BY <1>11, CommitOrRollbackKeeps
<1>12. CASE UNCHANGED vars
    BY <1>12, StutterKeeps
<1>13. QED
    BY <1>1, <1>2, <1>3, <1>4, <1>5, <1>6, <1>7, <1>8, <1>9, <1>10, <1>11, <1>12 DEF Next

(* The invariant holds in every state of every behaviour of Create and its *)
(* retries (gorm/callbacks/callbacks.go:39-46).                            *)
THEOREM Invariance == Spec => []Inv
<1>1. Init => Inv
    BY InitInv
<1>2. Inv /\ [Next]_vars => Inv'
    BY NextKeeps
<1>3. QED
    BY <1>1, <1>2, PTL DEF Spec

(* The variables have their types, and however objects refer to one        *)
(* another the calls of Create that saveAssociations makes nest no deeper  *)
(* than there are objects ("stop save association loop",                   *)
(* gorm/callbacks/associations.go:379).                                    *)
THEOREM SaveGraphTypes == Spec => []TypeOK
<1>1. ASSUME Inv PROVE TypeOK
    <2>1. NestingBound
        <3>1. /\ Cardinality(visited) \in Nat /\ Cardinality(Objs) \in Nat
              /\ Cardinality(visited) \leq Cardinality(Objs)
            BY <1>1, CallsAssumption, FS_Subset, FS_CardinalityType DEF Inv, Values
        <3>2. Len(frames) \in Nat /\ Len(frames) \leq Cardinality(visited) + 1
            BY <1>1 DEF Inv, Running, Nests
        <3>3. QED
            BY <3>1, <3>2 DEF NestingBound
    <2>2. DOMAIN frames = 1..Len(frames)
        BY <1>1 DEF Inv, Running
    <2>3. \A n \in Ids : n \in 1..(nextId - 1) /\ rows[n] \in [obj : SUBSET Objs, cols : [Cols -> Nat]]
        BY <1>1 DEF Inv, Stored, Holds, Row, Ids
    <2>4. joins \subseteq Cols \X Nat \X Nat
        BY <1>1 DEF Inv, Stored, Holds
    <2>5. QED
        BY <1>1, <2>1, <2>2, <2>3, <2>4 DEF Inv, Values, Running, TypeOK
<1>2. Inv => TypeOK
    BY <1>1
<1>3. QED
    BY <1>2, Invariance, PTL

(* A Create that fails, at whatever depth of the graph and however often   *)
(* it is tried again, has changed no row and no join row, and its          *)
(* transaction is over (gorm/callbacks/transaction.go:7-32).               *)
THEOREM SaveGraphAllOrNothing == Spec => []AllOrNothing
<1>1. Inv => AllOrNothing
    BY DEF Inv, Undoable, AllOrNothing
<1>2. QED
    BY <1>1, Invariance, PTL

=============================================================================
