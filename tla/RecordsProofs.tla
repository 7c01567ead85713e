--------------------------- MODULE RecordsProofs ---------------------------
(***************************************************************************)
(* Proofs about Records: that every finisher selects the rows its own      *)
(* chain's words ask for, whatever other handles and chains share          *)
(* statements and arrays with it, for every set of conditions, rows and    *)
(* words and every bound.  They are about a program that has none of the   *)
(* Habits (each a use of the API that the code answers otherwise; a run    *)
(* cannot have one either, as Faithful is then false).                     *)
(*                                                                         *)
(* The argument. What the Where of a statement selects is what Means gives *)
(* for the words on its handle (Tell, Says). Every operation on memory     *)
(* puts a new array at a number that nothing reaches, and leaves those     *)
(* there are as they were: where Build and BuildCondition write into one   *)
(* they find nothing to move, as no array begins with Or. So what a        *)
(* statement selects does not change when another one does (Good is the    *)
(* inductive invariant, with TableInv for the table and JobOk for the call *)
(* that is under way). Arrays nest, and what is said of one is shown by    *)
(* induction on its rank: a nested array is always an older one.           *)
(*                                                                         *)
(* That FirstOrCreate's row is found again rests on more, PInv: on which   *)
(* expressions there are. Without a Not, a row that has one more column is *)
(* still selected, and one with the columns of all Eqs is.                 *)
(***************************************************************************)
EXTENDS Records, SequenceTheorems, FiniteSetTheorems, WellFoundedInduction, NaturalsInduction, FunctionTheorems, TLAPS

-----------------------------------------------------------------------------
(* Numbers, sets of them and sequences.                                    *)

(* A set of natural numbers that is not empty has a least one.             *)
LEMMA LeastMember ==
    ASSUME NEW T \in SUBSET Nat, T # {}
    PROVE  \E x \in T : \A y \in T : x \leq y
<1> DEFINE R == {ss \in Nat \X Nat : ss[1] < ss[2]}
<1>1. IsWellFoundedOn(R, Nat)
  BY NatLessThanWellFounded, Zenon DEF OpToRel
<1>2. \E x \in T : \A y \in T : ~(<<y, x>> \in R)
  <2> HIDE DEF R
  <2> QED BY <1>1, WFMin
<1>3. PICK x \in T : \A y \in T : ~(<<y, x>> \in R)
  BY <1>2
<1>4. ASSUME NEW y \in T, y < x PROVE FALSE
  <2>1. x \in Nat /\ y \in Nat
    OBVIOUS
  <2>2. <<y, x>> \in R
    BY <1>4, <2>1, SMT
  <2>3. QED BY <1>3, <2>2
<1>5. QED BY <1>4, SMT

(* A set that has 0 and with each number the next one has them all.        *)
LEMMA Induction ==
    ASSUME NEW T, 0 \in T, \A n \in Nat : n \in T => n + 1 \in T
    PROVE  \A n \in Nat : n \in T
<1>1. SUFFICES ASSUME Nat \ T # {} PROVE FALSE
  OBVIOUS
<1>2. PICK x \in Nat \ T : \A y \in Nat \ T : x \leq y
  BY <1>1, LeastMember
<1>3. x - 1 \in Nat
  BY <1>2
<1>4. x - 1 \in T
  BY <1>2, <1>3
<1>5. QED BY <1>2, <1>3, <1>4

(* Least is that number.                                                   *)
LEMMA LeastProperty ==
    ASSUME NEW T \in SUBSET Nat, T # {}
    PROVE  Least(T) \in T /\ \A y \in T : Least(T) <= y
<1>1. \E x \in T : \A y \in T : x <= y
  BY LeastMember
<1>2. QED BY <1>1 DEF Least

(* A number that is given out is not in use.                               *)
LEMMA FreeIdProperty ==
    ASSUME NEW f, IsFiniteSet(DOMAIN f)
    PROVE  FreeId(f) \in Nat \ {0} /\ FreeId(f) \notin DOMAIN f
<1> DEFINE n == Cardinality(DOMAIN f)
           T == 1..(n + 1) \ DOMAIN f
<1>1. n \in Nat
  BY FS_CardinalityType
<1>2. IsFiniteSet(1..(n + 1)) /\ Cardinality(1..(n + 1)) = n + 1
  <2>1. 1 \in Int /\ n + 1 \in Int /\ ~(1 > n + 1)
    BY <1>1
  <2>2. IsFiniteSet(1..(n + 1)) /\ Cardinality(1..(n + 1)) = IF 1 > n + 1 THEN 0 ELSE (n + 1) - 1 + 1
    BY <2>1, FS_Interval
  <2>3. (n + 1) - 1 + 1 = n + 1
    BY <1>1
  <2>4. QED BY <2>1, <2>2, <2>3
<1>3. ASSUME T = {} PROVE FALSE
  <2>1. 1..(n + 1) \in SUBSET (DOMAIN f)
    BY <1>3
  <2>2. Cardinality(1..(n + 1)) <= n
    BY <2>1, FS_Subset
  <2>3. QED BY <1>1, <1>2, <2>2
<1>4. T \in SUBSET Nat
  BY <1>1
<1>5. Least(T) \in T
  BY <1>3, <1>4, LeastProperty
<1>6. FreeId(f) = Least(T)
  BY DEF FreeId
<1>7. QED
  <2> HIDE DEF T
  <2>1. FreeId(f) \in T
    BY <1>5, <1>6
  <2> USE DEF T
  <2>2. FreeId(f) \in 1..(n + 1) /\ FreeId(f) \notin DOMAIN f
    BY <2>1
  <2>3. QED BY <1>1, <2>2

(* The length, the positions and the members of a sequence.                *)
LEMMA SeqFacts ==
    ASSUME NEW S, NEW s \in Seq(S)
    PROVE  /\ Len(s) \in Nat /\ DOMAIN s = 1..Len(s) /\ \A i \in 1..Len(s) : s[i] \in S
           /\ s = <<>> <=> Len(s) = 0
           /\ s = <<>> <=> DOMAIN s = {}
    OBVIOUS

(* What a sequence made of two consists of.                                *)
LEMMA Concat ==
    ASSUME NEW S, NEW s \in Seq(S), NEW u \in Seq(S)
    PROVE  /\ s \o u \in Seq(S) /\ Len(s \o u) = Len(s) + Len(u) /\ DOMAIN (s \o u) = 1..(Len(s) + Len(u))
           /\ \A i \in 1..Len(s) : (s \o u)[i] = s[i]
           /\ \A i \in 1..Len(u) : (s \o u)[Len(s) + i] = u[i]
           /\ \A i \in DOMAIN (s \o u) : \/ i \in 1..Len(s) /\ (s \o u)[i] = s[i]
                                         \/ i - Len(s) \in 1..Len(u) /\ (s \o u)[i] = u[i - Len(s)]
<1>1. /\ Len(s) \in Nat /\ Len(u) \in Nat
      /\ s \o u \in Seq(S) /\ Len(s \o u) = Len(s) + Len(u)
      /\ \A i \in 1 .. Len(s) + Len(u) : (s \o u)[i] = IF i <= Len(s) THEN s[i] ELSE u[i - Len(s)]
  BY ConcatProperties
<1>2. DOMAIN (s \o u) = 1..(Len(s) + Len(u))
  BY <1>1
<1> DEFINE w == s \o u
<1> HIDE DEF w
<1>3. QED
  <2>1. /\ Len(s) \in Nat /\ Len(u) \in Nat
        /\ \A i \in 1 .. Len(s) + Len(u) : w[i] = IF i <= Len(s) THEN s[i] ELSE u[i - Len(s)]
    BY <1>1 DEF w
  <2>2. \A i \in 1..Len(s) : w[i] = s[i]
    BY <2>1
  <2>3. \A i \in 1..Len(u) : w[Len(s) + i] = u[i]
    <3>1. TAKE i \in 1..Len(u)
    <3>2. Len(s) + i \in 1..(Len(s) + Len(u)) /\ ~(Len(s) + i <= Len(s)) /\ (Len(s) + i) - Len(s) = i
      BY <2>1
    <3>3. QED BY <2>1, <3>2
  <2>4. \A i \in 1..(Len(s) + Len(u)) : \/ i \in 1..Len(s) /\ w[i] = s[i]
                                        \/ i - Len(s) \in 1..Len(u) /\ w[i] = u[i - Len(s)]
    <3>1. TAKE i \in 1..(Len(s) + Len(u))
    <3>2. i <= Len(s) => i \in 1..Len(s)
      BY <2>1
    <3>3. ~(i <= Len(s)) => i - Len(s) \in 1..Len(u)
      BY <2>1
    <3>4. QED BY <2>1, <3>2, <3>3
  <2>5. QED BY <1>1, <1>2, <2>2, <2>3, <2>4 DEF w

(* Put changes the function at one place, which may be new.                *)
LEMMA PutProperty ==
    ASSUME NEW f, NEW k, NEW v
    PROVE  /\ DOMAIN Put(f, k, v) = DOMAIN f \cup {k}
           /\ Put(f, k, v)[k] = v
           /\ \A x \in DOMAIN f : x # k => Put(f, k, v)[x] = f[x]
    BY DEF Put

(* A value of the type keeps the function of its type.                     *)
LEMMA PutType ==
    ASSUME NEW f, NEW k, NEW S, f \in [DOMAIN f -> S], NEW v \in S
    PROVE  Put(f, k, v) \in [DOMAIN f \cup {k} -> S]
    BY DEF Put

-----------------------------------------------------------------------------
(* Arrays of expressions.  Arrays says what they keep to as long as no     *)
(* chain begins with Or: Build and BuildCondition then find nothing to     *)
(* write, and an array stays as it was made.                               *)

Within(arr, exprs) ==
    /\ exprs \in Seq(Expr)
    /\ Refs(exprs, Nested) \subseteq DOMAIN arr
    /\ \A j \in Refs(exprs, {"or"}) : Len(arr[j]) = 1
Starts(exprs) == exprs # <<>> /\ exprs[1][1] # "or"
Acyclic(arr) ==
    \E n \in Nat : \E rank \in [DOMAIN arr -> 0..n] :
        \A i \in DOMAIN arr : \A j \in Refs(arr[i], Nested) : rank[j] < rank[i]
Arrays(arr) ==
    /\ IsFiniteSet(DOMAIN arr) /\ DOMAIN arr \subseteq Nat \ {0}
    /\ arr \in [DOMAIN arr -> Seq(Expr)]
    /\ \A i \in DOMAIN arr : Within(arr, arr[i]) /\ Starts(arr[i])
    /\ Acyclic(arr)
Extends(a, b) == DOMAIN a \subseteq DOMAIN b /\ \A i \in DOMAIN a : b[i] = a[i]

(* Refs has the array of each And or Or among the expressions.             *)
LEMMA RefsMember ==
    ASSUME NEW exprs, NEW i \in DOMAIN exprs, NEW ops, exprs[i][1] \in ops
    PROVE  exprs[i][2] \in Refs(exprs, ops)
    BY DEF Refs

(* An And or Or is a kind and the number of an array.                      *)
LEMMA ExprNested ==
    ASSUME NEW e \in Expr, e[1] \in Nested
    PROVE  e \in Nested \X (Nat \ {0}) /\ e = <<e[1], e[2]>>
    BY DEF Expr, Nested, NoArray

(* What a group selects depends on what it consists of only.               *)
LEMMA GroupDepends ==
    ASSUME NEW a, NEW b, NEW row, NEW f, NEW g, NEW e,
           b[e[2]] = a[e[2]],
           \A i \in DOMAIN a[e[2]] : a[e[2]][i][1] \in Nested =>
               f[a[e[2]][i]] = g[a[e[2]][i]] /\ b[a[e[2]][i][2]] = a[a[e[2]][i][2]]
    PROVE  GroupHolds(a, row, f, e) = GroupHolds(b, row, g, e)
<1> DEFINE exprs == a[e[2]]
           hf == {i \in DOMAIN exprs : IF exprs[i][1] \in Nested THEN f[exprs[i]] ELSE Plain(exprs[i], row)}
           hg == {i \in DOMAIN exprs : IF exprs[i][1] \in Nested THEN g[exprs[i]] ELSE Plain(exprs[i], row)}
<1>1. hf = hg
  OBVIOUS
<1>2. Ors(a, exprs) = Ors(b, exprs)
  BY DEF Ors, SingleOr, Nested
<1>3. /\ GroupHolds(a, row, f, e) = (IF e[1] = "or" THEN hf # {} ELSE AndBeforeOr(Len(exprs), Ors(a, exprs), hf))
      /\ GroupHolds(b, row, g, e) = (IF e[1] = "or" THEN hg # {} ELSE AndBeforeOr(Len(exprs), Ors(b, exprs), hg))
  BY DEF GroupHolds
<1>4. QED
  <2> HIDE DEF hf, hg, exprs
  <2> QED BY <1>1, <1>2, <1>3

(* As groups do not contain themselves there is one answer for each.       *)
LEMMA GroupsAre ==
    ASSUME NEW arr, NEW row, Arrays(arr)
    PROVE  Groups(arr, row) = [e \in Nested \X DOMAIN arr |-> GroupHolds(arr, row, Groups(arr, row), e)]
<1> DEFINE D == Nested \X DOMAIN arr
           H(f, e) == GroupHolds(arr, row, f, e)
<1>0. PICK n \in Nat : \E rank \in [DOMAIN arr -> 0..n] :
          \A i \in DOMAIN arr : \A j \in Refs(arr[i], Nested) : rank[j] < rank[i]
  BY DEF Arrays, Acyclic
<1>1. PICK rank \in [DOMAIN arr -> 0..n] :
          \A i \in DOMAIN arr : \A j \in Refs(arr[i], Nested) : rank[j] < rank[i]
  BY <1>0
<1>2. \A e \in D : e[2] \in DOMAIN arr /\ rank[e[2]] \in Nat /\ rank[e[2]] <= n
  BY <1>1
<1>3. ASSUME NEW e \in D, NEW i \in DOMAIN arr[e[2]], arr[e[2]][i][1] \in Nested
      PROVE  arr[e[2]][i] \in D /\ rank[arr[e[2]][i][2]] < rank[e[2]]
  <2>1. arr[e[2]][i][2] \in Refs(arr[e[2]], Nested)
    BY <1>3, RefsMember
  <2>2. e[2] \in DOMAIN arr
    BY <1>2
  <2>3. arr[e[2]][i][2] \in DOMAIN arr /\ arr[e[2]] \in Seq(Expr)
    BY <2>1, <2>2 DEF Arrays, Within
  <2>4. arr[e[2]][i] \in Expr
    BY <2>3
  <2>5. arr[e[2]][i] = <<arr[e[2]][i][1], arr[e[2]][i][2]>>
    BY <1>3, <2>4, ExprNested
  <2>6. QED BY <1>1, <1>3, <2>1, <2>2, <2>3, <2>5
<1>4. ASSUME NEW f, NEW g, NEW e \in D, \A d \in D : rank[d[2]] < rank[e[2]] => f[d] = g[d]
      PROVE  H(f, e) = H(g, e)
  <2>1. \A i \in DOMAIN arr[e[2]] : arr[e[2]][i][1] \in Nested => f[arr[e[2]][i]] = g[arr[e[2]][i]]
    BY <1>3, <1>4
  <2>2. QED BY <2>1, GroupDepends
<1> DEFINE Solves(f, k) == /\ f = [e \in D |-> f[e]]
                           /\ \A e \in D : rank[e[2]] < k => f[e] = H(f, e)
           T == {k \in Nat : \E f : Solves(f, k)}
<1> HIDE DEF H
<1>5. 0 \in T
  <2> DEFINE t == [e \in D |-> TRUE]
  <2>1. t = [e \in D |-> t[e]]
    OBVIOUS
  <2>2. \A e \in D : ~(rank[e[2]] < 0)
    BY <1>2
  <2>3. Solves(t, 0)
    <3> HIDE DEF t, D
    <3> QED BY <2>1, <2>2
  <2>4. QED
    <3> HIDE DEF Solves
    <3> QED BY <2>3
<1>6. ASSUME NEW k \in Nat, k \in T PROVE k + 1 \in T
  <2>1. PICK f : Solves(f, k)
    BY <1>6
  <2> DEFINE g == [e \in D |-> IF rank[e[2]] = k THEN H(f, e) ELSE f[e]]
  <2>2. ASSUME NEW e \in D, rank[e[2]] < k + 1 PROVE g[e] = H(g, e)
    <3>1. \A d \in D : rank[d[2]] < rank[e[2]] => f[d] = g[d]
      BY <1>2, <2>2
    <3>2. H(f, e) = H(g, e)
      <4> HIDE DEF g, D
      <4> QED BY <1>4, <3>1
    <3>3. rank[e[2]] = k \/ rank[e[2]] < k
      BY <1>2, <2>2
    <3>4. CASE rank[e[2]] = k
      BY <3>2, <3>4
    <3>5. CASE rank[e[2]] < k
      <4>1. g[e] = f[e] /\ f[e] = H(f, e)
        BY <1>2, <2>1, <3>5
      <4>2. QED
        <5> HIDE DEF g, D
        <5> QED BY <3>2, <4>1
    <3>6. QED BY <3>3, <3>4, <3>5
  <2>3. g = [e \in D |-> g[e]]
    OBVIOUS
  <2>4. Solves(g, k + 1)
    BY <2>2, <2>3
  <2>5. QED
    <3> HIDE DEF Solves, g
    <3> QED BY <2>4
<1>7. PICK f : Solves(f, n + 1)
  <2>1. \A k \in Nat : k \in T
    <3> HIDE DEF T
    <3> QED BY <1>5, <1>6, Induction
  <2>2. n + 1 \in T
    <3> HIDE DEF T
    <3> QED BY <2>1
  <2>3. QED
    <3> HIDE DEF Solves
    <3> QED BY <2>2
<1>8. f = [e \in D |-> H(f, e)]
  <2>1. \A e \in D : f[e] = H(f, e)
    <3>1. \A e \in D : rank[e[2]] < n + 1
      BY <1>2
    <3>2. QED
      <4> HIDE DEF D
      <4> QED BY <1>7, <3>1
  <2>2. f = [e \in D |-> f[e]]
    <3> HIDE DEF D
    <3> QED BY <1>7
  <2>3. QED
    <3> HIDE DEF D
    <3> QED BY <2>1, <2>2
<1>9. Groups(arr, row) = CHOOSE g : g = [e \in D |-> H(g, e)]
  BY DEF Groups, H
<1>10. QED
  <2> HIDE DEF D
  <2>1. Groups(arr, row) = [e \in D |-> H(Groups(arr, row), e)]
    BY <1>8, <1>9
  <2>2. QED BY <2>1 DEF D, H

(* What a group selects, by what it consists of.                           *)
LEMMA GroupIs ==
    ASSUME NEW arr, NEW row, Arrays(arr), NEW e \in Nested \X DOMAIN arr
    PROVE  Groups(arr, row)[e] = GroupHolds(arr, row, Groups(arr, row), e)
<1> DEFINE g == Groups(arr, row)
           H(d) == GroupHolds(arr, row, g, d)
           D == Nested \X DOMAIN arr
<1>1. g = [d \in D |-> H(d)]
  BY GroupsAre
<1>2. e \in D
  OBVIOUS
<1>3. g[e] = H(e)
  <2> HIDE DEF g, H, D
  <2> QED BY <1>1, <1>2
<1>4. QED BY <1>3

(* A group selects the same when there are more arrays.                    *)
LEMMA GroupsSame ==
    ASSUME NEW a, NEW b, NEW row, Arrays(a), Arrays(b), Extends(a, b), NEW e \in Nested \X DOMAIN a
    PROVE  Groups(a, row)[e] = Groups(b, row)[e]
<1> DEFINE D == Nested \X DOMAIN a
           f == Groups(a, row)
           g == Groups(b, row)
<1>1. PICK n \in Nat : \E rank \in [DOMAIN a -> 0..n] :
          \A i \in DOMAIN a : \A j \in Refs(a[i], Nested) : rank[j] < rank[i]
  BY DEF Arrays, Acyclic
<1>2. PICK rank \in [DOMAIN a -> 0..n] :
          \A i \in DOMAIN a : \A j \in Refs(a[i], Nested) : rank[j] < rank[i]
  BY <1>1
<1>3. \A d \in D : d[2] \in DOMAIN a /\ rank[d[2]] \in Nat
  BY <1>2
<1> DEFINE T == {rank[d[2]] : d \in {c \in D : f[c] # g[c]}}
<1>4. CASE T = {}
  <2> HIDE DEF f, g
  <2>1. e \in D
    OBVIOUS
  <2>2. QED BY <1>4, <2>1 DEF f, g
<1>5. CASE T # {}
  <2>1. T \in SUBSET Nat
    <3> HIDE DEF f, g, D
    <3> QED BY <1>3
  <2>2. PICK k \in T : \A m \in T : k <= m
    <3> HIDE DEF T
    <3> QED BY <1>5, <2>1, LeastMember
  <2>3. PICK d \in D : f[d] # g[d] /\ rank[d[2]] = k
    <3> HIDE DEF f, g, D
    <3> QED OBVIOUS
  <2>4. ASSUME NEW c \in D, rank[c[2]] < rank[d[2]] PROVE f[c] = g[c]
    <3>1. SUFFICES ASSUME f[c] # g[c] PROVE FALSE
      OBVIOUS
    <3>2. rank[c[2]] \in T
      <4> HIDE DEF f, g, D
      <4> QED BY <3>1
    <3>3. rank[d[2]] <= rank[c[2]]
      <4> HIDE DEF f, g, D, T
      <4> QED BY <2>2, <2>3, <3>2
    <3>4. QED
      <4> HIDE DEF f, g, D, T
      <4> QED BY <1>3, <2>4, <3>3
  <2>5. d[2] \in DOMAIN a /\ a[d[2]] \in Seq(Expr) /\ Refs(a[d[2]], Nested) \subseteq DOMAIN a
    BY <1>3 DEF Arrays, Within
  <2>6. ASSUME NEW i \in DOMAIN a[d[2]], a[d[2]][i][1] \in Nested
        PROVE  f[a[d[2]][i]] = g[a[d[2]][i]] /\ b[a[d[2]][i][2]] = a[a[d[2]][i][2]]
    <3>1. a[d[2]][i][2] \in Refs(a[d[2]], Nested)
      BY <2>6, RefsMember
    <3>2. a[d[2]][i] = <<a[d[2]][i][1], a[d[2]][i][2]>>
      BY <2>5, <2>6, ExprNested
    <3>3. a[d[2]][i] \in D
      BY <2>5, <2>6, <3>1, <3>2
    <3>4. rank[a[d[2]][i][2]] < rank[d[2]]
      BY <1>2, <2>5, <3>1
    <3>5. f[a[d[2]][i]] = g[a[d[2]][i]]
      <4> HIDE DEF f, g, D
      <4> QED BY <2>4, <3>3, <3>4
    <3>6. QED BY <2>5, <3>1, <3>5 DEF Extends
  <2>7. b[d[2]] = a[d[2]]
    BY <2>5 DEF Extends
  <2>8. GroupHolds(a, row, f, d) = GroupHolds(b, row, g, d)
    <3> HIDE DEF f, g, D
    <3> QED BY <2>6, <2>7, GroupDepends
  <2>9. f[d] = GroupHolds(a, row, f, d)
    BY GroupIs
  <2>10. g[d] = GroupHolds(b, row, g, d)
    <3>1. d \in Nested \X DOMAIN b
      BY <2>5 DEF Extends
    <3>2. QED BY <3>1, GroupIs
  <2>11. QED
    <3> HIDE DEF f, g, D
    <3> QED BY <2>3, <2>8, <2>9, <2>10
<1>6. QED BY <1>4, <1>5

(* The And or Or at a position leads to an array there is.                 *)
LEMMA WithinMember ==
    ASSUME NEW arr, NEW exprs, Within(arr, exprs), NEW i \in DOMAIN exprs, exprs[i][1] \in Nested
    PROVE  /\ exprs[i][2] \in DOMAIN arr /\ exprs[i] \in Nested \X DOMAIN arr
           /\ exprs[i] = <<exprs[i][1], exprs[i][2]>>
           /\ exprs[i][1] = "or" => Len(arr[exprs[i][2]]) = 1
<1>1. exprs[i][2] \in Refs(exprs, Nested)
  BY RefsMember
<1>2. exprs[i][1] = "or" => exprs[i][2] \in Refs(exprs, {"or"})
  BY RefsMember
<1>3. exprs[i] \in Expr
  BY DEF Within
<1>4. exprs[i] = <<exprs[i][1], exprs[i][2]>>
  BY <1>3, ExprNested
<1>5. QED BY <1>1, <1>2, <1>4 DEF Within

(* Where every Or has one condition, buildExprs writes OR before it.       *)
LEMMA OrsAre ==
    ASSUME NEW arr, NEW exprs, Within(arr, exprs)
    PROVE  Ors(arr, exprs) = {i \in DOMAIN exprs : exprs[i][1] = "or"}
    BY WithinMember DEF Ors, SingleOr, Nested

(* More arrays change nothing.                                             *)
LEMMA HoldsSame ==
    ASSUME NEW a, NEW b, NEW row, Arrays(a), Arrays(b), Extends(a, b), NEW exprs, Within(a, exprs)
    PROVE  /\ Within(b, exprs)
           /\ \A i \in DOMAIN exprs : Holds(a, exprs[i], row) = Holds(b, exprs[i], row)
           /\ Joined(a, exprs, row) = Joined(b, exprs, row)
<1>1. Within(b, exprs)
  <2>1. Refs(exprs, {"or"}) \subseteq Refs(exprs, Nested)
    BY DEF Refs, Nested
  <2>2. QED BY <2>1 DEF Within, Extends
<1>2. ASSUME NEW i \in DOMAIN exprs PROVE Holds(a, exprs[i], row) = Holds(b, exprs[i], row)
  <2>1. CASE exprs[i][1] \in Nested
    <3>1. exprs[i] \in Nested \X DOMAIN a
      BY <2>1, WithinMember
    <3>2. Groups(a, row)[exprs[i]] = Groups(b, row)[exprs[i]]
      BY <3>1, GroupsSame
    <3>3. QED BY <2>1, <3>2 DEF Holds
  <2>2. CASE exprs[i][1] \notin Nested
    BY <2>2 DEF Holds
  <2>3. QED BY <2>1, <2>2
<1>3. Ors(a, exprs) = Ors(b, exprs)
  BY <1>1, OrsAre
<1>4. {i \in DOMAIN exprs : Holds(a, exprs[i], row)} = {i \in DOMAIN exprs : Holds(b, exprs[i], row)}
  BY <1>2
<1>5. QED BY <1>1, <1>2, <1>3, <1>4 DEF Joined

(* The same, as an equivalence.                                            *)
LEMMA JoinedSame ==
    ASSUME NEW a, NEW b, NEW row, Arrays(a), Arrays(b), Extends(a, b), NEW exprs, Within(a, exprs)
    PROVE  Joined(b, exprs, row) <=> Joined(a, exprs, row)
    BY HoldsSame

(* An And selects what its conditions select joined.                       *)
LEMMA HoldsAnd ==
    ASSUME NEW arr, NEW row, Arrays(arr), NEW id \in DOMAIN arr
    PROVE  Holds(arr, <<"and", id>>, row) = Joined(arr, arr[id], row)
<1> DEFINE e == <<"and", id>>
           exprs == arr[id]
           hg == {i \in DOMAIN exprs : IF exprs[i][1] \in Nested THEN Groups(arr, row)[exprs[i]]
                                       ELSE Plain(exprs[i], row)}
           hj == {i \in DOMAIN exprs : Holds(arr, exprs[i], row)}
<1>1. hg = hj
  BY DEF Holds
<1>2. e \in Nested \X DOMAIN arr /\ e[1] = "and" /\ e[2] = id
  BY DEF Nested
<1>3. Holds(arr, e, row) = GroupHolds(arr, row, Groups(arr, row), e)
  <2>1. Groups(arr, row)[e] = GroupHolds(arr, row, Groups(arr, row), e)
    BY <1>2, GroupIs
  <2>2. e[1] \in Nested
    BY <1>2
  <2>3. QED
    <3> HIDE DEF e
    <3> QED BY <2>1, <2>2 DEF Holds
<1>4. GroupHolds(arr, row, Groups(arr, row), e) = AndBeforeOr(Len(exprs), Ors(arr, exprs), hg)
  BY <1>2 DEF GroupHolds
<1>5. Joined(arr, exprs, row) = AndBeforeOr(Len(exprs), Ors(arr, exprs), hj)
  BY DEF Joined
<1>6. QED
  <2> HIDE DEF hg, hj
  <2> QED BY <1>1, <1>3, <1>4, <1>5

(* An Or of one condition selects what that selects.                       *)
LEMMA HoldsOr ==
    ASSUME NEW arr, NEW row, Arrays(arr), NEW id \in DOMAIN arr, Len(arr[id]) = 1
    PROVE  Holds(arr, <<"or", id>>, row) <=> Holds(arr, arr[id][1], row)
<1> DEFINE e == <<"or", id>>
           exprs == arr[id]
           hg == {i \in DOMAIN exprs : IF exprs[i][1] \in Nested THEN Groups(arr, row)[exprs[i]]
                                       ELSE Plain(exprs[i], row)}
           hj == {i \in DOMAIN exprs : Holds(arr, exprs[i], row)}
<1>1. hg = hj
  BY DEF Holds
<1>2. e \in Nested \X DOMAIN arr /\ e[1] = "or" /\ e[2] = id
  BY DEF Nested
<1>3. Holds(arr, e, row) = GroupHolds(arr, row, Groups(arr, row), e)
  <2>1. Groups(arr, row)[e] = GroupHolds(arr, row, Groups(arr, row), e)
    BY <1>2, GroupIs
  <2>2. e[1] \in Nested
    BY <1>2
  <2>3. QED
    <3> HIDE DEF e
    <3> QED BY <2>1, <2>2 DEF Holds
<1>4. GroupHolds(arr, row, Groups(arr, row), e) = (hg # {})
  BY <1>2 DEF GroupHolds
<1>5. DOMAIN exprs = {1}
  <2>1. exprs \in Seq(Expr)
    BY DEF Arrays
  <2>2. QED BY <2>1
<1>6. hj # {} <=> Holds(arr, exprs[1], row)
  BY <1>5
<1>7. QED
  <2> HIDE DEF hg, hj, exprs
  <2> QED BY <1>1, <1>3, <1>4, <1>6 DEF exprs

(* Without Or all must hold.                                               *)
NoOrs(exprs) == \A i \in DOMAIN exprs : exprs[i][1] # "or"
AllHold(arr, exprs, row) == \A i \in DOMAIN exprs : Holds(arr, exprs[i], row)

(* Without OR all parts must hold.                                         *)
LEMMA AllAnd ==
    ASSUME NEW n \in Nat, NEW holding
    PROVE  AndBeforeOr(n, {}, holding) <=> \A i \in 1..n : i \in holding
    BY DEF AndBeforeOr

(* Conditions without Or select the rows that all of them select.          *)
LEMMA JoinedPlainly ==
    ASSUME NEW arr, NEW row, NEW exprs, Within(arr, exprs), NoOrs(exprs)
    PROVE  Joined(arr, exprs, row) <=> AllHold(arr, exprs, row)
<1>1. Ors(arr, exprs) = {}
  BY OrsAre DEF NoOrs
<1>2. exprs \in Seq(Expr) /\ Len(exprs) \in Nat /\ DOMAIN exprs = 1..Len(exprs)
  BY DEF Within
<1> DEFINE hj == {i \in DOMAIN exprs : Holds(arr, exprs[i], row)}
<1>3. Joined(arr, exprs, row) = AndBeforeOr(Len(exprs), {}, hj)
  BY <1>1 DEF Joined
<1>4. AndBeforeOr(Len(exprs), {}, hj) <=> \A i \in 1..Len(exprs) : i \in hj
  BY <1>2, AllAnd
<1>5. QED BY <1>2, <1>3, <1>4 DEF AllHold

(* Two lists of expressions, one after the other.                          *)
LEMMA ConcatWithin ==
    ASSUME NEW arr, NEW a, NEW b, Within(arr, a), Within(arr, b)
    PROVE  /\ Within(arr, a \o b)
           /\ NoOrs(a) /\ NoOrs(b) => NoOrs(a \o b)
           /\ \A row : AllHold(arr, a \o b, row) <=> AllHold(arr, a, row) /\ AllHold(arr, b, row)
<1> DEFINE w == a \o b
<1>1. a \in Seq(Expr) /\ b \in Seq(Expr) /\ Len(a) \in Nat /\ Len(b) \in Nat
      /\ DOMAIN a = 1..Len(a) /\ DOMAIN b = 1..Len(b)
  BY DEF Within
<1>2. /\ w \in Seq(Expr) /\ DOMAIN w = 1..(Len(a) + Len(b))
      /\ \A i \in 1..Len(a) : w[i] = a[i]
      /\ \A i \in 1..Len(b) : w[Len(a) + i] = b[i]
      /\ \A i \in DOMAIN w : \/ i \in 1..Len(a) /\ w[i] = a[i]
                             \/ i - Len(a) \in 1..Len(b) /\ w[i] = b[i - Len(a)]
  BY <1>1, Concat
<1> HIDE DEF w
<1>3. \A ops : Refs(w, ops) \subseteq Refs(a, ops) \cup Refs(b, ops)
  <2>1. TAKE ops
  <2>2. ASSUME NEW i \in DOMAIN w, w[i][1] \in ops PROVE w[i][2] \in Refs(a, ops) \cup Refs(b, ops)
    <3>1. CASE i \in DOMAIN a /\ w[i] = a[i]
      BY <2>2, <3>1, RefsMember
    <3>2. CASE i - Len(a) \in DOMAIN b /\ w[i] = b[i - Len(a)]
      <4>1. b[i - Len(a)][1] \in ops
        BY <2>2, <3>2
      <4>2. b[i - Len(a)][2] \in Refs(b, ops)
        BY <3>2, <4>1, RefsMember
      <4>3. QED BY <3>2, <4>2
    <3>3. QED BY <1>1, <1>2, <3>1, <3>2
  <2>3. QED BY <2>2 DEF Refs
<1>4. Within(arr, w)
  BY <1>2, <1>3 DEF Within
<1>5. ASSUME NoOrs(a), NoOrs(b) PROVE NoOrs(w)
  BY <1>1, <1>2, <1>5 DEF NoOrs
<1>6. ASSUME NEW row PROVE AllHold(arr, w, row) <=> AllHold(arr, a, row) /\ AllHold(arr, b, row)
  <2>1. ASSUME AllHold(arr, w, row) PROVE AllHold(arr, a, row) /\ AllHold(arr, b, row)
    <3>1. ASSUME NEW i \in DOMAIN a PROVE Holds(arr, a[i], row)
      <4>1. i \in DOMAIN w /\ w[i] = a[i]
        BY <1>1, <1>2
      <4>2. Holds(arr, w[i], row)
        BY <2>1, <4>1 DEF AllHold
      <4>3. QED BY <4>1, <4>2
    <3>2. ASSUME NEW i \in DOMAIN b PROVE Holds(arr, b[i], row)
      <4>1. Len(a) + i \in DOMAIN w /\ w[Len(a) + i] = b[i]
        BY <1>1, <1>2
      <4>2. Holds(arr, w[Len(a) + i], row)
        BY <2>1, <4>1 DEF AllHold
      <4>3. QED BY <4>1, <4>2
    <3>3. QED BY <3>1, <3>2 DEF AllHold
  <2>2. ASSUME AllHold(arr, a, row), AllHold(arr, b, row) PROVE AllHold(arr, w, row)
    BY <1>1, <1>2, <2>2 DEF AllHold
  <2>3. QED BY <2>1, <2>2
<1>7. QED BY <1>4, <1>5, <1>6 DEF w

(* No expressions refer to nothing and have no Or.                         *)
LEMMA EmptyWithin ==
    ASSUME NEW arr PROVE Within(arr, <<>>) /\ NoOrs(<<>>)
    BY DEF Within, NoOrs, Refs

(* One expression that refers to nothing, or one that refers to an array.  *)
LEMMA SingleWithin ==
    ASSUME NEW arr, NEW e \in Expr, e[1] \in Nested => e[2] \in DOMAIN arr,
           e[1] = "or" => Len(arr[e[2]]) = 1
    PROVE  /\ Within(arr, <<e>>) /\ <<e>> # <<>> /\ (e[1] # "or" => NoOrs(<<e>>))
           /\ \A row : AllHold(arr, <<e>>, row) <=> Holds(arr, e, row)
<1>1. <<e>> \in Seq(Expr) /\ Len(<<e>>) = 1 /\ DOMAIN <<e>> = {1} /\ <<e>>[1] = e
  OBVIOUS
<1>2. QED BY <1>1 DEF Within, NoOrs, Refs, AllHold

(* A new array.                                                            *)
LEMMA NewArray ==
    ASSUME NEW arr, Arrays(arr), NEW exprs, Within(arr, exprs), Starts(exprs),
           NEW id, id = FreeId(arr), NEW new, new = Put(arr, id, exprs)
    PROVE  /\ Arrays(new) /\ Extends(arr, new) /\ new[id] = exprs
           /\ id \in Nat \ {0} /\ id \notin DOMAIN arr /\ DOMAIN new = DOMAIN arr \cup {id}
<1>1. id \in Nat \ {0} /\ id \notin DOMAIN arr
  BY FreeIdProperty DEF Arrays
<1>2. /\ DOMAIN new = DOMAIN arr \cup {id} /\ new[id] = exprs
      /\ \A x \in DOMAIN arr : new[x] = arr[x]
      /\ new \in [DOMAIN arr \cup {id} -> Seq(Expr)]
  <2>1. exprs \in Seq(Expr) /\ arr \in [DOMAIN arr -> Seq(Expr)]
    BY DEF Arrays, Within
  <2>2. new \in [DOMAIN arr \cup {id} -> Seq(Expr)]
    BY <2>1, PutType
  <2>3. new[id] = exprs
    BY DEF Put
  <2>4. DOMAIN new = DOMAIN arr \cup {id}
    BY PutProperty
  <2>5. \A x \in DOMAIN arr : new[x] = arr[x]
    BY <1>1 DEF Put
  <2>6. QED BY <2>2, <2>3, <2>4, <2>5
<1>3. Extends(arr, new)
  BY <1>2 DEF Extends
<1>4. IsFiniteSet(DOMAIN new) /\ DOMAIN new \subseteq Nat \ {0}
  BY <1>1, <1>2, FS_AddElement DEF Arrays
<1>5. ASSUME NEW xs, Within(arr, xs) PROVE Within(new, xs)
  <2>1. Refs(xs, {"or"}) \subseteq Refs(xs, Nested)
    BY DEF Refs, Nested
  <2>2. QED BY <1>3, <1>5, <2>1 DEF Within, Extends
<1>6. ASSUME NEW i \in DOMAIN new
      PROVE  Within(new, new[i]) /\ Starts(new[i])
  <2>1. CASE i \in DOMAIN arr
    BY <1>2, <1>5, <2>1 DEF Arrays
  <2>2. CASE i = id
    BY <1>2, <1>5, <2>2
  <2>3. QED BY <1>2, <2>1, <2>2
<1>7. Acyclic(new)
  <2>1. PICK n \in Nat : \E rank \in [DOMAIN arr -> 0..n] :
            \A i \in DOMAIN arr : \A j \in Refs(arr[i], Nested) : rank[j] < rank[i]
    BY DEF Arrays, Acyclic
  <2>2. PICK rank \in [DOMAIN arr -> 0..n] :
            \A i \in DOMAIN arr : \A j \in Refs(arr[i], Nested) : rank[j] < rank[i]
    BY <2>1
  <2> DEFINE rk == [i \in DOMAIN new |-> IF i = id THEN n + 1 ELSE rank[i]]
  <2>3. rk \in [DOMAIN new -> 0..(n + 1)]
    BY <1>2
  <2>4. ASSUME NEW i \in DOMAIN new, NEW j \in Refs(new[i], Nested) PROVE rk[j] < rk[i]
    <3>1. CASE i = id
      <4>1. j \in DOMAIN arr
        BY <1>2, <2>4, <3>1 DEF Within
      <4>2. QED BY <1>1, <1>2, <3>1, <4>1
    <3>2. CASE i # id
      <4>1. i \in DOMAIN arr /\ new[i] = arr[i]
        BY <1>2, <3>2
      <4>2. j \in DOMAIN arr /\ rank[j] < rank[i]
        BY <2>2, <2>4, <4>1 DEF Arrays, Within
      <4>3. QED BY <1>1, <1>2, <3>2, <4>1, <4>2
    <3>3. QED BY <3>1, <3>2
  <2>5. n + 1 \in Nat
    OBVIOUS
  <2>6. QED
    <3> HIDE DEF rk
    <3> QED BY <2>3, <2>4, <2>5 DEF Acyclic
<1>8. Arrays(new)
  BY <1>2, <1>4, <1>6, <1>7 DEF Arrays
<1>9. QED BY <1>1, <1>2, <1>3, <1>8

(* What is left when what nothing reaches is gone.                         *)
LEMMA FewerArrays ==
    ASSUME NEW arr, Arrays(arr), NEW C \in SUBSET DOMAIN arr, \A i \in C : Refs(arr[i], Nested) \subseteq C,
           NEW left, left = [i \in C |-> arr[i]]
    PROVE  Arrays(left) /\ Extends(left, arr)
<1>1. DOMAIN left = C /\ \A i \in C : left[i] = arr[i]
  OBVIOUS
<1>2. Extends(left, arr)
  BY <1>1 DEF Extends
<1>3. IsFiniteSet(C) /\ C \subseteq Nat \ {0}
  BY FS_Subset DEF Arrays
<1>4. ASSUME NEW i \in C PROVE Within(left, arr[i]) /\ Starts(arr[i])
  <2>1. Within(arr, arr[i]) /\ Starts(arr[i])
    BY DEF Arrays
  <2>2. Refs(arr[i], {"or"}) \subseteq Refs(arr[i], Nested)
    BY DEF Refs, Nested
  <2>3. QED BY <1>1, <2>1, <2>2 DEF Within
<1>5. Acyclic(left)
  <2>1. PICK n \in Nat : \E rank \in [DOMAIN arr -> 0..n] :
            \A i \in DOMAIN arr : \A j \in Refs(arr[i], Nested) : rank[j] < rank[i]
    BY DEF Arrays, Acyclic
  <2>2. PICK rank \in [DOMAIN arr -> 0..n] :
            \A i \in DOMAIN arr : \A j \in Refs(arr[i], Nested) : rank[j] < rank[i]
    BY <2>1
  <2> DEFINE rk == [i \in C |-> rank[i]]
  <2>3. rk \in [C -> 0..n]
    OBVIOUS
  <2>4. \A i \in C : \A j \in Refs(left[i], Nested) : rk[j] < rk[i]
    BY <1>1, <2>2
  <2>5. QED
    <3> HIDE DEF rk
    <3> QED BY <1>1, <2>3, <2>4 DEF Acyclic
<1>6. left \in [C -> Seq(Expr)]
  BY DEF Arrays
<1>7. Arrays(left)
  BY <1>1, <1>3, <1>4, <1>5, <1>6 DEF Arrays
<1>8. QED BY <1>2, <1>7

(* What is reached is closed.                                              *)
LEMMA ReachedClosed ==
    ASSUME NEW arr, NEW ops, NEW S \in SUBSET DOMAIN arr,
           \A i \in DOMAIN arr : Refs(arr[i], ops) \subseteq DOMAIN arr,
           NEW C, C = Reached(arr, ops, S)
    PROVE  C \subseteq DOMAIN arr /\ S \subseteq C /\ \A i \in C : Refs(arr[i], ops) \subseteq C
<1> DEFINE led    == UNION {Refs(arr[j], ops) : j \in DOMAIN arr}
           closed == {D \in {S \cup T : T \in SUBSET led} : \A j \in D : Refs(arr[j], ops) \subseteq D}
           R == Reached(arr, ops, S)
<1>1. R = {i \in DOMAIN arr : \A D \in closed : i \in D}
  BY DEF Reached
<1>2. \A D \in closed : S \subseteq D /\ \A j \in D : Refs(arr[j], ops) \subseteq D
  OBVIOUS
<1> HIDE DEF R, closed
<1>3. R \subseteq DOMAIN arr /\ S \subseteq R
  BY <1>1, <1>2
<1>4. ASSUME NEW i \in R PROVE Refs(arr[i], ops) \subseteq R
  <2>1. i \in DOMAIN arr /\ \A D \in closed : i \in D
    BY <1>1
  <2>2. \A D \in closed : Refs(arr[i], ops) \subseteq D
    BY <1>2, <2>1
  <2>3. QED BY <1>1, <2>1, <2>2
<1>5. QED BY <1>3, <1>4 DEF R

-----------------------------------------------------------------------------
(* Memory: the statements, what is added to one of them.                   *)

Statement == [where : Nat, unscoped : BOOLEAN, softDelete : BOOLEAN, scopes : Seq(Atoms)]
Memory(m) ==
    /\ m = [arr |-> m.arr, stmts |-> m.stmts]
    /\ Arrays(m.arr)
    /\ IsFiniteSet(DOMAIN m.stmts) /\ DOMAIN m.stmts \subseteq Nat \ {0}
    /\ m.stmts \in [DOMAIN m.stmts -> Statement]
    /\ \A s \in DOMAIN m.stmts : WhereIn(m, s) \subseteq DOMAIN m.arr
(* n is m but for the statement s, and for new arrays.                     *)
Grown(m, n, s) ==
    /\ Memory(n) /\ Extends(m.arr, n.arr)
    /\ DOMAIN n.stmts = DOMAIN m.stmts
    /\ \A t \in DOMAIN m.stmts : t # s => n.stmts[t] = m.stmts[t]
(* The rows that the conditions of a statement select.                     *)
Chosen(m, s, row) == WhereOf(m, s) = <<>> \/ Joined(m.arr, WhereOf(m, s), row)

(* The conditions of a statement are an array that keeps to the rules, or  *)
(* none.                                                                   *)
LEMMA WhereWithin ==
    ASSUME NEW m, Memory(m), NEW s \in DOMAIN m.stmts
    PROVE  /\ Within(m.arr, WhereOf(m, s))
           /\ WhereOf(m, s) = <<>> <=> m.stmts[s].where = NoArray
           /\ WhereOf(m, s) = <<>> \/ Starts(WhereOf(m, s))
           /\ m.stmts[s].where # NoArray => /\ m.stmts[s].where \in DOMAIN m.arr
                                            /\ WhereOf(m, s) = m.arr[m.stmts[s].where]
<1>1. CASE m.stmts[s].where = NoArray
  <2>1. WhereOf(m, s) = <<>>
    BY <1>1 DEF WhereOf
  <2>2. QED BY <1>1, <2>1, EmptyWithin
<1>2. CASE m.stmts[s].where # NoArray
  <2>1. WhereOf(m, s) = m.arr[m.stmts[s].where]
    BY <1>2 DEF WhereOf
  <2>2. m.stmts[s].where \in DOMAIN m.arr
    BY <1>2 DEF Memory, WhereIn
  <2>3. QED
    <3>1. Within(m.arr, m.arr[m.stmts[s].where]) /\ Starts(m.arr[m.stmts[s].where])
      BY <2>2 DEF Memory, Arrays
    <3>2. m.arr[m.stmts[s].where] # <<>>
      BY <3>1 DEF Starts
    <3>3. QED BY <1>2, <2>1, <2>2, <3>1, <3>2
<1>3. QED BY <1>1, <1>2

Pointing(arr, st)       == st \in Statement /\ st.where \in DOMAIN arr \cup {NoArray}
Write(m, arr, s, st)    == [arr |-> arr, stmts |-> [m.stmts EXCEPT ![s] = st]]

(* A statement is written over, beside arrays that are only added.         *)
LEMMA Written ==
    ASSUME NEW m, Memory(m), NEW arr, Arrays(arr), Extends(m.arr, arr), NEW s \in DOMAIN m.stmts,
           NEW st, Pointing(arr, st)
    PROVE  Grown(m, Write(m, arr, s, st), s)
<1> DEFINE n == Write(m, arr, s, st)
<1>1. /\ n.arr = arr /\ DOMAIN n.stmts = DOMAIN m.stmts /\ n.stmts[s] = st
      /\ \A t \in DOMAIN m.stmts : t # s => n.stmts[t] = m.stmts[t]
      /\ n = [arr |-> n.arr, stmts |-> n.stmts]
      /\ n.stmts \in [DOMAIN m.stmts -> Statement]
  BY DEF Memory, Write, Pointing
<1> HIDE DEF n
<1>2. ASSUME NEW t \in DOMAIN n.stmts PROVE WhereIn(n, t) \subseteq DOMAIN n.arr
  <2>1. CASE t = s
    BY <1>1, <2>1 DEF WhereIn, Pointing
  <2>2. CASE t # s
    BY <1>1, <2>2 DEF WhereIn, Memory, Extends
  <2>3. QED BY <2>1, <2>2
<1>3. Memory(n)
  BY <1>1, <1>2 DEF Memory
<1>4. Grown(m, n, s)
  BY <1>1, <1>3 DEF Grown
<1>5. QED BY <1>4 DEF n

(* Only where of the statement s changes, which gets what is said.         *)
Added(m, n, s, exprs) ==
    /\ n.stmts[s] = [m.stmts[s] EXCEPT !.where = n.stmts[s].where]
    /\ WhereOf(n, s) = WhereOf(m, s) \o exprs /\ WhereOf(n, s) # <<>>

(* MergeClause appends the conditions and leaves all else alone            *)
(* (clause/where.go:92).                                                   *)
LEMMA AddWhereKeeps ==
    ASSUME NEW m, Memory(m), NEW s \in DOMAIN m.stmts, NEW exprs, Within(m.arr, exprs), exprs # <<>>,
           WhereOf(m, s) = <<>> => Starts(exprs)
    PROVE  Grown(m, AddWhere(m, s, exprs), s) /\ Added(m, AddWhere(m, s, exprs), s, exprs)
<1> DEFINE n  == AddWhere(m, s, exprs)
           xs == WhereOf(m, s)
           ys == xs \o exprs
<1>1. Within(m.arr, xs) /\ (xs = <<>> \/ Starts(xs))
  BY WhereWithin
<1>2. Within(m.arr, ys)
  BY <1>1, ConcatWithin
<1>3. Starts(ys)
  <2>1. xs \in Seq(Expr) /\ exprs \in Seq(Expr)
    BY <1>1 DEF Within
  <2>2. Len(exprs) \in Nat \ {0} /\ Len(xs) \in Nat
    BY <2>1
  <2>3. CASE xs = <<>>
    <3>1. ys = exprs
      BY <2>1, <2>3
    <3>2. QED BY <2>3, <3>1
  <2>4. CASE xs # <<>>
    <3>1. 1 \in 1..Len(xs)
      BY <2>1, <2>4
    <3>2. ys[1] = xs[1] /\ Len(ys) = Len(xs) + Len(exprs)
      <4> HIDE DEF xs
      <4> QED BY <2>1, <3>1, Concat
    <3>3. ys # <<>>
      BY <2>2, <3>2
    <3>4. QED BY <1>1, <2>4, <3>2, <3>3 DEF Starts
  <2>5. QED BY <2>3, <2>4
<1>4. Arrays(m.arr)
  BY DEF Memory
<1> HIDE DEF ys, xs
<1>a. PICK id : id = FreeId(m.arr)
  OBVIOUS
<1>b. PICK arr : arr = Put(m.arr, id, ys)
  OBVIOUS
<1> DEFINE st == [m.stmts[s] EXCEPT !.where = id]
<1>5. /\ Arrays(arr) /\ Extends(m.arr, arr) /\ arr[id] = ys
      /\ id \in Nat \ {0} /\ id \in DOMAIN arr
  <2> DEFINE old == m.arr
  <2> HIDE DEF old, st
  <2>0. Within(old, ys) /\ Arrays(old) /\ id = FreeId(old) /\ arr = Put(old, id, ys)
    BY <1>2, <1>4, <1>a, <1>b DEF old
  <2>1. Arrays(arr) /\ Extends(old, arr)
    BY <2>0, <1>3, NewArray
  <2>2. arr[id] = ys /\ DOMAIN arr = DOMAIN old \cup {id}
    BY <2>0 DEF Put
  <2>3. IsFiniteSet(DOMAIN old)
    BY <2>0 DEF Arrays
  <2>4. id \in Nat \ {0}
    BY <2>0, <2>3, FreeIdProperty
  <2>5. QED BY <2>1, <2>2, <2>4 DEF old
<1>6. m.stmts[s] \in Statement
  BY DEF Memory
<1>7. st \in Statement /\ st.where = id
  BY <1>5, <1>6 DEF Statement
<1>8. n = Write(m, arr, s, st)
  <2>1. m = [arr |-> m.arr, stmts |-> m.stmts]
    BY DEF Memory
  <2>2. n = [m EXCEPT !.arr = arr, !.stmts[s].where = id]
    BY <1>a, <1>b DEF AddWhere, ys, xs
  <2>3. QED BY <2>1, <2>2 DEF Write
<1>9. n.stmts[s] = st /\ n.arr = arr
  BY <1>8 DEF Write, Memory
<1> HIDE DEF n
<1>10. Grown(m, n, s)
  <2>1. Pointing(arr, st)
    BY <1>5, <1>7 DEF Pointing
  <2>2. QED
    <3> HIDE DEF st
    <3> QED BY <1>5, <1>8, <2>1, Written
<1>11. WhereOf(n, s) = ys
  <2>1. n.stmts[s].where = id /\ id # NoArray
    BY <1>5, <1>7, <1>9 DEF NoArray
  <2>2. QED BY <1>5, <1>9, <2>1 DEF WhereOf
<1>12. ys # <<>>
  BY <1>3 DEF Starts
<1>13. Added(m, n, s, exprs)
  BY <1>7, <1>9, <1>11, <1>12 DEF Added, ys, xs
<1>14. QED BY <1>10, <1>13 DEF n

(* What was selected before, and what holds all that is added.             *)
LEMMA AddWhereChosen ==
    ASSUME NEW m, Memory(m), NEW s \in DOMAIN m.stmts, NEW exprs, Within(m.arr, exprs), exprs # <<>>,
           NoOrs(exprs), NoOrs(WhereOf(m, s))
    PROVE  /\ Grown(m, AddWhere(m, s, exprs), s) /\ Added(m, AddWhere(m, s, exprs), s, exprs)
           /\ NoOrs(WhereOf(AddWhere(m, s, exprs), s))
           /\ \A row : Chosen(AddWhere(m, s, exprs), s, row) <=> Chosen(m, s, row) /\ AllHold(m.arr, exprs, row)
<1> DEFINE n  == AddWhere(m, s, exprs)
           xs == WhereOf(m, s)
           ys == xs \o exprs
<1>1. Starts(exprs)
  <2>1. exprs \in Seq(Expr)
    BY DEF Within
  <2>2. 1 \in DOMAIN exprs
    BY <2>1
  <2>3. QED BY <2>2 DEF NoOrs, Starts
<1>2. Grown(m, n, s) /\ Added(m, n, s, exprs)
  BY <1>1, AddWhereKeeps
<1>3. WhereOf(n, s) = ys /\ WhereOf(n, s) # <<>>
  BY <1>2 DEF Added
<1>4. Within(m.arr, xs)
  BY WhereWithin
<1>5. /\ Within(m.arr, ys) /\ NoOrs(ys)
      /\ \A row : AllHold(m.arr, ys, row) <=> AllHold(m.arr, xs, row) /\ AllHold(m.arr, exprs, row)
  <2> HIDE DEF xs
  <2>1. NoOrs(xs)
    BY DEF xs
  <2>2. QED BY <1>4, <2>1, ConcatWithin
<1>6. Arrays(m.arr) /\ Arrays(n.arr) /\ Extends(m.arr, n.arr)
  BY <1>2 DEF Grown, Memory
<1>7. ASSUME NEW row PROVE Chosen(n, s, row) <=> Chosen(m, s, row) /\ AllHold(m.arr, exprs, row)
  <2> HIDE DEF n, xs, ys
  <2>1. Chosen(n, s, row) <=> Joined(n.arr, ys, row)
    BY <1>3 DEF Chosen
  <2>2. Joined(n.arr, ys, row) <=> Joined(m.arr, ys, row)
    BY <1>5, <1>6, JoinedSame
  <2>3. Joined(m.arr, ys, row) <=> AllHold(m.arr, ys, row)
    BY <1>5, JoinedPlainly
  <2>4. AllHold(m.arr, ys, row) <=> AllHold(m.arr, xs, row) /\ AllHold(m.arr, exprs, row)
    BY <1>5
  <2>5. Joined(m.arr, xs, row) <=> AllHold(m.arr, xs, row)
    BY <1>4, JoinedPlainly DEF xs
  <2>6. xs = <<>> => AllHold(m.arr, xs, row)
    BY DEF AllHold
  <2>7. Chosen(m, s, row) <=> xs = <<>> \/ Joined(m.arr, xs, row)
    BY DEF Chosen, xs
  <2>8. QED BY <2>1, <2>2, <2>3, <2>4, <2>5, <2>6, <2>7
<1>8. NoOrs(WhereOf(n, s))
  BY <1>3, <1>5
<1>9. QED BY <1>2, <1>7, <1>8

(* Two steps that each change one statement only.                          *)
LEMMA GrownTwice ==
    ASSUME NEW m, NEW n, NEW o, NEW s, Grown(m, n, s), Grown(n, o, s)
    PROVE  Grown(m, o, s)
    BY DEF Grown, Extends
(* No step at all is one.                                                  *)
LEMMA GrownSame ==
    ASSUME NEW m, NEW s, Memory(m) PROVE Grown(m, m, s)
    BY DEF Grown, Extends

-----------------------------------------------------------------------------
(* Words and conditions.                                                   *)

Condition == SUBSET (SUBSET Atoms)
Word      == {"where", "or", "not"} \X Condition
Spoken(words)   == words # <<>> => words[1][1] # "or"
TrueOf(w, is)   == is \in w[2] <=> w[1] # "not"
OrsOf(words)    == {i \in DOMAIN words : words[i][1] = "or"}
AllTrue(words, is) == AndBeforeOr(Len(words), OrsOf(words), {i \in DOMAIN words : TrueOf(words[i], is)})

(* Who has said nothing asks for every row.                                *)
LEMMA MeansNothing == Means(<<>>) = SUBSET Atoms
    BY DEF Means

(* A chain that does not begin with Or means what it says word for word.   *)
LEMMA MeansWords ==
    ASSUME NEW words \in Seq(Word), Spoken(words), NEW is \in SUBSET Atoms
    PROVE  is \in Means(words) <=> words = <<>> \/ AllTrue(words, is)
<1>1. CASE words = <<>>
  BY <1>1, MeansNothing
<1>2. CASE words # <<>>
  <2> DEFINE plain == {i \in DOMAIN words : words[i][1] # "or"}
             first == Least(plain)
             said  == IF plain = {} THEN words
                      ELSE [words EXCEPT ![1] = words[first], ![first] = words[1]]
  <2>1. 1 \in DOMAIN words /\ DOMAIN words = 1..Len(words) /\ Len(words) \in Nat
    BY <1>2
  <2>2. 1 \in plain
    BY <1>2, <2>1 DEF Spoken
  <2>3. plain \in SUBSET Nat /\ plain # {} /\ \A i \in plain : 1 <= i
    BY <2>1, <2>2
  <2>4. first \in plain /\ \A i \in plain : first <= i
    <3> HIDE DEF plain
    <3> QED BY <2>3, LeastProperty
  <2>5. first = 1
    <3>1. first <= 1 /\ 1 <= first /\ first \in Nat
      <4> HIDE DEF plain, first
      <4> QED BY <2>2, <2>3, <2>4
    <3>2. QED
      <4> HIDE DEF first
      <4> QED BY <3>1
  <2>6. said = words
    <3>1. said = [words EXCEPT ![1] = words[1], ![1] = words[1]]
      <4> HIDE DEF plain, first
      <4> QED BY <2>3, <2>5
    <3>2. QED
      <4> HIDE DEF said
      <4> QED BY <2>1, <3>1
  <2>7. Means(words) = {js \in SUBSET Atoms : words = <<>> \/
            AndBeforeOr(Len(said), {i \in DOMAIN said : said[i][1] = "or"},
                        {i \in DOMAIN said : js \in said[i][2] <=> said[i][1] # "not"})}
    BY DEF Means
  <2> HIDE DEF said
  <2>8. QED BY <1>2, <2>6, <2>7 DEF AllTrue, OrsOf, TrueOf
<1>3. QED BY <1>1, <1>2

(* Expressions that say the same as words do, one by one.                  *)
AlikeOne(arr, e, w) == /\ e[1] = "or" <=> w[1] = "or"
                       /\ \A row \in Row : Holds(arr, e, row) <=> TrueOf(w, row.is)
Alike(arr, exprs, words) == /\ Len(exprs) = Len(words)
                            /\ \A i \in DOMAIN exprs : AlikeOne(arr, exprs[i], words[i])

(* No expressions for no words.                                            *)
LEMMA AlikeNothing ==
    ASSUME NEW arr PROVE Alike(arr, <<>>, <<>>)
    BY DEF Alike

(* One expression for one word.                                            *)
LEMMA AlikeSingle ==
    ASSUME NEW arr, NEW e, NEW w, AlikeOne(arr, e, w) PROVE Alike(arr, <<e>>, <<w>>)
    BY DEF Alike

(* Expressions say the same when there are more arrays.                    *)
LEMMA AlikeSame ==
    ASSUME NEW a, NEW b, Arrays(a), Arrays(b), Extends(a, b), NEW exprs, Within(a, exprs), NEW words
    PROVE  Alike(a, exprs, words) <=> Alike(b, exprs, words)
<1>1. \A i \in DOMAIN exprs : \A row : Holds(a, exprs[i], row) <=> Holds(b, exprs[i], row)
  BY HoldsSame
<1>2. ASSUME NEW i \in DOMAIN exprs PROVE AlikeOne(a, exprs[i], words[i]) <=> AlikeOne(b, exprs[i], words[i])
  BY <1>1 DEF AlikeOne
<1>3. QED BY <1>2 DEF Alike

(* Expressions for words, followed by expressions for more words.          *)
LEMMA AlikeConcat ==
    ASSUME NEW arr, NEW a \in Seq(Expr), NEW b \in Seq(Expr), NEW u \in Seq(Word), NEW v \in Seq(Word),
           Alike(arr, a, u), Alike(arr, b, v)
    PROVE  Alike(arr, a \o b, u \o v)
<1> DEFINE w == a \o b
           x == u \o v
<1>1. /\ Len(a) \in Nat /\ Len(b) \in Nat /\ Len(u) = Len(a) /\ Len(v) = Len(b)
      /\ DOMAIN a = 1..Len(a) /\ DOMAIN b = 1..Len(b)
  BY DEF Alike
<1>2. /\ Len(w) = Len(a) + Len(b)
      /\ \A i \in DOMAIN w : \/ i \in 1..Len(a) /\ w[i] = a[i]
                             \/ i - Len(a) \in 1..Len(b) /\ w[i] = b[i - Len(a)]
      /\ DOMAIN w = 1..(Len(a) + Len(b))
  BY Concat
<1>3. /\ Len(x) = Len(a) + Len(b)
      /\ \A i \in 1..Len(a) : x[i] = u[i]
      /\ \A i \in 1..Len(b) : x[Len(a) + i] = v[i]
  <2>1. /\ Len(x) = Len(u) + Len(v)
        /\ \A i \in 1..Len(u) : x[i] = u[i]
        /\ \A i \in 1..Len(v) : x[Len(u) + i] = v[i]
    BY Concat
  <2>2. QED
    <3> HIDE DEF x
    <3> QED BY <1>1, <2>1
<1> HIDE DEF w, x
<1>4. ASSUME NEW i \in DOMAIN w PROVE AlikeOne(arr, w[i], x[i])
  <2>1. CASE i \in 1..Len(a) /\ w[i] = a[i]
    <3>1. x[i] = u[i] /\ AlikeOne(arr, a[i], u[i])
      BY <1>1, <1>3, <2>1 DEF Alike
    <3>2. QED BY <2>1, <3>1
  <2>2. CASE i - Len(a) \in 1..Len(b) /\ w[i] = b[i - Len(a)]
    <3>1. i = Len(a) + (i - Len(a))
      BY <1>1, <1>2
    <3>2. x[i] = v[i - Len(a)] /\ AlikeOne(arr, b[i - Len(a)], v[i - Len(a)])
      BY <1>1, <1>3, <2>2, <3>1 DEF Alike
    <3>3. QED BY <2>2, <3>2
  <2>3. QED BY <1>2, <2>1, <2>2
<1>5. Alike(arr, w, x)
  BY <1>2, <1>3, <1>4 DEF Alike
<1>6. QED BY <1>5 DEF w, x

(* They have their Ors at the same places.                                 *)
LEMMA AlikeOrs ==
    ASSUME NEW arr, NEW exprs \in Seq(Expr), NEW words \in Seq(Word), Alike(arr, exprs, words)
    PROVE  /\ NoOrs(exprs) <=> ~HasOr(words)
           /\ exprs = <<>> <=> words = <<>>
           /\ {i \in DOMAIN exprs : exprs[i][1] = "or"} = OrsOf(words)
<1>1. Len(exprs) = Len(words) /\ DOMAIN exprs = DOMAIN words
  BY DEF Alike
<1>2. \A i \in DOMAIN exprs : exprs[i][1] = "or" <=> words[i][1] = "or"
  BY DEF Alike, AlikeOne
<1>3. exprs = <<>> <=> words = <<>>
  BY <1>1
<1>4. {i \in DOMAIN exprs : exprs[i][1] = "or"} = OrsOf(words)
  BY <1>1, <1>2 DEF OrsOf
<1>5. NoOrs(exprs) <=> ~HasOr(words)
  BY <1>1, <1>2 DEF NoOrs, HasOr
<1>6. QED BY <1>3, <1>4, <1>5

(* Such expressions select the rows that the words ask for.                *)
LEMMA AlikeSelects ==
    ASSUME NEW arr, NEW exprs, Within(arr, exprs), NEW words \in Seq(Word), Spoken(words),
           Alike(arr, exprs, words), NEW row \in Row
    PROVE  exprs = <<>> \/ Joined(arr, exprs, row) <=> row.is \in Means(words)
<1>1. exprs \in Seq(Expr)
  BY DEF Within
<1>2. row.is \in SUBSET Atoms
  BY DEF Row
<1>3. row.is \in Means(words) <=> words = <<>> \/ AllTrue(words, row.is)
  BY <1>2, MeansWords
<1>4. exprs = <<>> <=> words = <<>>
  BY <1>1, AlikeOrs
<1>5. Len(exprs) = Len(words) /\ DOMAIN exprs = DOMAIN words
  BY <1>1 DEF Alike
<1>6. Ors(arr, exprs) = OrsOf(words)
  <2>1. Ors(arr, exprs) = {i \in DOMAIN exprs : exprs[i][1] = "or"}
    BY OrsAre
  <2>2. {i \in DOMAIN exprs : exprs[i][1] = "or"} = OrsOf(words)
    BY <1>1, AlikeOrs
  <2>3. QED BY <2>1, <2>2
<1>7. {i \in DOMAIN exprs : Holds(arr, exprs[i], row)} = {i \in DOMAIN words : TrueOf(words[i], row.is)}
  BY <1>5 DEF Alike, AlikeOne
<1>8. Joined(arr, exprs, row) <=> AllTrue(words, row.is)
  BY <1>5, <1>6, <1>7 DEF Joined, AllTrue
<1>9. QED BY <1>3, <1>4, <1>8

-----------------------------------------------------------------------------
(* What the conditions of a statement tell.  Before the clause of soft     *)
(* deletion they are the words one by one, after it they ask for rows that *)
(* the words ask for and that are not deleted.                             *)

TellsDeleted(arr, exprs, words) ==
    /\ NoOrs(exprs) /\ exprs # <<>> /\ (Len(exprs) = 1 <=> words = <<>>)
    /\ \A row \in Row : AllHold(arr, exprs, row) <=> row.is \in Means(words) /\ ~row.gone
Tells(arr, exprs, deleted, words) ==
    IF deleted THEN TellsDeleted(arr, exprs, words) ELSE Alike(arr, exprs, words)
Tell(m, s, words) == Tells(m.arr, WhereOf(m, s), m.stmts[s].softDelete, words)

(* The conditions of a statement tell the same when there are more arrays. *)
LEMMA TellsSame ==
    ASSUME NEW a, NEW b, Arrays(a), Arrays(b), Extends(a, b), NEW exprs, Within(a, exprs),
           NEW words, NEW deleted
    PROVE  Tells(a, exprs, deleted, words) <=> Tells(b, exprs, deleted, words)
<1>1. \A i \in DOMAIN exprs : \A row : Holds(a, exprs[i], row) <=> Holds(b, exprs[i], row)
  BY HoldsSame
<1>2. \A row : AllHold(a, exprs, row) <=> AllHold(b, exprs, row)
  BY <1>1 DEF AllHold
<1>3. TellsDeleted(a, exprs, words) <=> TellsDeleted(b, exprs, words)
  BY <1>2 DEF TellsDeleted
<1>4. Alike(a, exprs, words) <=> Alike(b, exprs, words)
  BY AlikeSame
<1>5. QED BY <1>3, <1>4 DEF Tells

(* What the conditions of a statement select, by the words they tell.      *)
LEMMA TellsSelects ==
    ASSUME NEW arr, NEW exprs, Within(arr, exprs), NEW words \in Seq(Word), Spoken(words),
           NEW deleted \in BOOLEAN, Tells(arr, exprs, deleted, words), NEW row \in Row
    PROVE  exprs = <<>> \/ Joined(arr, exprs, row) <=> row.is \in Means(words) /\ (deleted => ~row.gone)
<1>1. CASE deleted
  <2>1. TellsDeleted(arr, exprs, words)
    BY <1>1 DEF Tells
  <2>2. Joined(arr, exprs, row) <=> AllHold(arr, exprs, row)
    BY <2>1, JoinedPlainly DEF TellsDeleted
  <2>3. QED BY <1>1, <2>1, <2>2 DEF TellsDeleted
<1>2. CASE ~deleted
  <2>1. Alike(arr, exprs, words)
    BY <1>2 DEF Tells
  <2>2. exprs = <<>> \/ Joined(arr, exprs, row) <=> row.is \in Means(words)
    BY <2>1, AlikeSelects
  <2>3. QED BY <1>2, <2>2
<1>3. QED BY <1>1, <1>2

(* Words without Or must all be true.                                      *)
LEMMA MeansPlainly ==
    ASSUME NEW words \in Seq(Word), ~HasOr(words), NEW is \in SUBSET Atoms
    PROVE  is \in Means(words) <=> \A i \in DOMAIN words : TrueOf(words[i], is)
<1>1. OrsOf(words) = {}
  BY DEF OrsOf, HasOr
<1>2. Spoken(words)
  BY DEF Spoken, HasOr
<1>3. Len(words) \in Nat /\ DOMAIN words = 1..Len(words)
  OBVIOUS
<1> DEFINE ht == {i \in DOMAIN words : TrueOf(words[i], is)}
<1>4. AllTrue(words, is) <=> AndBeforeOr(Len(words), {}, ht)
  BY <1>1 DEF AllTrue
<1>5. AndBeforeOr(Len(words), {}, ht) <=> \A i \in 1..Len(words) : i \in ht
  BY <1>3, AllAnd
<1>6. is \in Means(words) <=> words = <<>> \/ AllTrue(words, is)
  BY <1>2, MeansWords
<1>7. QED BY <1>3, <1>4, <1>5, <1>6

(* Words followed by more words.                                           *)
LEMMA WordsConcat ==
    ASSUME NEW u \in Seq(Word), NEW v \in Seq(Word)
    PROVE  /\ u \o v \in Seq(Word)
           /\ HasOr(u \o v) <=> HasOr(u) \/ HasOr(v)
           /\ u \o v = <<>> <=> u = <<>> /\ v = <<>>
           /\ Spoken(u) /\ Spoken(v) => Spoken(u \o v)
           /\ u # <<>> /\ Spoken(u) => Spoken(u \o v)
<1> DEFINE x == u \o v
<1>1. /\ x \in Seq(Word) /\ Len(x) = Len(u) + Len(v) /\ DOMAIN x = 1..(Len(u) + Len(v))
      /\ \A i \in 1..Len(u) : x[i] = u[i]
      /\ \A i \in 1..Len(v) : x[Len(u) + i] = v[i]
      /\ \A i \in DOMAIN x : \/ i \in 1..Len(u) /\ x[i] = u[i]
                             \/ i - Len(u) \in 1..Len(v) /\ x[i] = v[i - Len(u)]
  BY Concat
<1>2. /\ Len(u) \in Nat /\ Len(v) \in Nat /\ DOMAIN u = 1..Len(u) /\ DOMAIN v = 1..Len(v)
      /\ u = <<>> <=> Len(u) = 0
      /\ v = <<>> <=> Len(v) = 0
  OBVIOUS
<1>3. u = <<>> => x = v
  OBVIOUS
<1> HIDE DEF x
<1>4. HasOr(x) <=> HasOr(u) \/ HasOr(v)
  <2>1. ASSUME HasOr(x) PROVE HasOr(u) \/ HasOr(v)
    BY <1>1, <1>2, <2>1 DEF HasOr
  <2>2. ASSUME HasOr(u) PROVE HasOr(x)
    <3>1. PICK i \in DOMAIN u : u[i][1] = "or"
      BY <2>2 DEF HasOr
    <3>2. i \in DOMAIN x /\ x[i] = u[i]
      BY <1>1, <1>2
    <3>3. QED BY <3>1, <3>2 DEF HasOr
  <2>3. ASSUME HasOr(v) PROVE HasOr(x)
    <3>1. PICK i \in DOMAIN v : v[i][1] = "or"
      BY <2>3 DEF HasOr
    <3>2. Len(u) + i \in DOMAIN x /\ x[Len(u) + i] = v[i]
      BY <1>1, <1>2
    <3>3. QED BY <3>1, <3>2 DEF HasOr
  <2>4. QED BY <2>1, <2>2, <2>3
<1>5. x = <<>> <=> u = <<>> /\ v = <<>>
  <2>1. x = <<>> <=> Len(x) = 0
    BY <1>1
  <2>2. QED BY <1>1, <1>2, <2>1
<1>6. u # <<>> => x[1] = u[1]
  BY <1>1, <1>2
<1>7. /\ Spoken(u) /\ Spoken(v) => Spoken(x)
      /\ u # <<>> /\ Spoken(u) => Spoken(x)
  BY <1>3, <1>5, <1>6 DEF Spoken
<1>8. QED BY <1>1, <1>4, <1>5, <1>7 DEF x

(* More words without Or, and expressions for them.                        *)
LEMMA TellsMore ==
    ASSUME NEW arr, NEW xs, NEW es, Within(arr, xs), Within(arr, es), es # <<>>,
           NEW ws \in Seq(Word), NEW us \in Seq(Word), NEW deleted \in BOOLEAN,
           Tells(arr, xs, deleted, ws), Alike(arr, es, us),
           deleted => ~HasOr(ws) /\ ~HasOr(us)
    PROVE  Tells(arr, xs \o es, deleted, ws \o us)
<1>1. xs \in Seq(Expr) /\ es \in Seq(Expr)
  BY DEF Within
<1>2. CASE ~deleted
  <2>1. Alike(arr, xs, ws)
    BY <1>2 DEF Tells
  <2>2. Alike(arr, xs \o es, ws \o us)
    BY <1>1, <2>1, AlikeConcat
  <2>3. QED BY <1>2, <2>2 DEF Tells
<1>3. CASE deleted
  <2> DEFINE w == xs \o es
             x == ws \o us
  <2>1. TellsDeleted(arr, xs, ws) /\ ~HasOr(ws) /\ ~HasOr(us)
    BY <1>3 DEF Tells
  <2>2. x \in Seq(Word) /\ ~HasOr(x) /\ (x = <<>> <=> ws = <<>> /\ us = <<>>)
    BY <2>1, WordsConcat
  <2>3. NoOrs(es) /\ us # <<>>
    BY <1>1, <2>1, AlikeOrs
  <2>4. NoOrs(w)
    BY <2>1, <2>3, ConcatWithin DEF TellsDeleted
  <2>5. w # <<>> /\ Len(w) # 1
    <3>1. Len(w) = Len(xs) + Len(es) /\ w \in Seq(Expr)
      BY <1>1, Concat
    <3>2. Len(xs) \in Nat \ {0} /\ Len(es) \in Nat \ {0}
      BY <1>1, <2>1 DEF TellsDeleted
    <3> HIDE DEF w
    <3>3. QED BY <3>1, <3>2
  <2>6. ASSUME NEW row \in Row PROVE AllHold(arr, w, row) <=> row.is \in Means(x) /\ ~row.gone
    <3>1. AllHold(arr, w, row) <=> AllHold(arr, xs, row) /\ AllHold(arr, es, row)
      BY ConcatWithin
    <3>2. AllHold(arr, xs, row) <=> row.is \in Means(ws) /\ ~row.gone
      BY <2>1 DEF TellsDeleted
    <3>3. AllHold(arr, es, row) <=> \A i \in DOMAIN us : TrueOf(us[i], row.is)
      <4>1. DOMAIN es = DOMAIN us
        BY <1>1 DEF Alike
      <4>2. \A i \in DOMAIN es : Holds(arr, es[i], row) <=> TrueOf(us[i], row.is)
        BY DEF Alike, AlikeOne
      <4>3. QED BY <4>1, <4>2 DEF AllHold
    <3>4. row.is \in SUBSET Atoms
      BY DEF Row
    <3>5. /\ row.is \in Means(ws) <=> \A i \in DOMAIN ws : TrueOf(ws[i], row.is)
          /\ row.is \in Means(x) <=> \A i \in DOMAIN x : TrueOf(x[i], row.is)
      BY <2>1, <2>2, <3>4, MeansPlainly
    <3>6. (\A i \in DOMAIN x : TrueOf(x[i], row.is)) <=>
             (\A i \in DOMAIN ws : TrueOf(ws[i], row.is)) /\ (\A i \in DOMAIN us : TrueOf(us[i], row.is))
      <4>1. /\ DOMAIN x = 1..(Len(ws) + Len(us))
            /\ \A i \in 1..Len(ws) : x[i] = ws[i]
            /\ \A i \in 1..Len(us) : x[Len(ws) + i] = us[i]
            /\ \A i \in DOMAIN x : \/ i \in 1..Len(ws) /\ x[i] = ws[i]
                                   \/ i - Len(ws) \in 1..Len(us) /\ x[i] = us[i - Len(ws)]
        BY Concat
      <4>2. Len(ws) \in Nat /\ Len(us) \in Nat /\ DOMAIN ws = 1..Len(ws) /\ DOMAIN us = 1..Len(us)
        OBVIOUS
      <4> HIDE DEF x
      <4>3. ASSUME \A i \in DOMAIN x : TrueOf(x[i], row.is)
            PROVE  (\A i \in DOMAIN ws : TrueOf(ws[i], row.is)) /\ (\A i \in DOMAIN us : TrueOf(us[i], row.is))
        <5>1. ASSUME NEW i \in DOMAIN ws PROVE TrueOf(ws[i], row.is)
          <6>1. i \in DOMAIN x /\ x[i] = ws[i]
            BY <4>1, <4>2
          <6>2. TrueOf(x[i], row.is)
            BY <4>3, <6>1
          <6>3. QED BY <6>1, <6>2
        <5>2. ASSUME NEW i \in DOMAIN us PROVE TrueOf(us[i], row.is)
          <6>1. Len(ws) + i \in DOMAIN x /\ x[Len(ws) + i] = us[i]
            BY <4>1, <4>2
          <6>2. TrueOf(x[Len(ws) + i], row.is)
            BY <4>3, <6>1
          <6>3. QED BY <6>1, <6>2
        <5>3. QED BY <5>1, <5>2
      <4>4. ASSUME \A i \in DOMAIN ws : TrueOf(ws[i], row.is), \A i \in DOMAIN us : TrueOf(us[i], row.is)
            PROVE  \A i \in DOMAIN x : TrueOf(x[i], row.is)
        BY <4>1, <4>2, <4>4
      <4>5. QED BY <4>3, <4>4
    <3> HIDE DEF w, x
    <3>7. QED BY <3>1, <3>2, <3>3, <3>5, <3>6
  <2>7. TellsDeleted(arr, w, x)
    <3> HIDE DEF w, x
    <3> QED BY <2>2, <2>3, <2>4, <2>5, <2>6 DEF TellsDeleted
  <2>8. QED BY <1>3, <2>7 DEF Tells
<1>4. QED BY <1>2, <1>3

-----------------------------------------------------------------------------
(* What the operations do to the statement s.                              *)

(* Only its fields other than where change.                                *)
LEMMA FlagsWritten ==
    ASSUME NEW m, Memory(m), NEW s \in DOMAIN m.stmts, NEW st \in Statement,
           st.where = m.stmts[s].where
    PROVE  /\ Grown(m, Write(m, m.arr, s, st), s)
           /\ WhereOf(Write(m, m.arr, s, st), s) = WhereOf(m, s)
<1>1. Arrays(m.arr) /\ Extends(m.arr, m.arr)
  BY DEF Memory, Extends
<1>2. Pointing(m.arr, st)
  <2>1. WhereIn(m, s) \subseteq DOMAIN m.arr
    BY DEF Memory
  <2>2. st.where \in DOMAIN m.arr \cup {NoArray}
    BY <2>1 DEF WhereIn
  <2>3. QED BY <2>2 DEF Pointing
<1>3. Grown(m, Write(m, m.arr, s, st), s)
  BY <1>1, <1>2, Written
<1>4. Write(m, m.arr, s, st).arr = m.arr /\ Write(m, m.arr, s, st).stmts[s] = st
  BY DEF Write, Memory
<1>5. WhereOf(Write(m, m.arr, s, st), s) = WhereOf(m, s)
  <2> DEFINE n == Write(m, m.arr, s, st)
  <2> HIDE DEF n
  <2>1. n.arr = m.arr /\ n.stmts[s].where = m.stmts[s].where
    BY <1>4 DEF n
  <2>2. WhereOf(n, s) = WhereOf(m, s)
    BY <2>1 DEF WhereOf
  <2>3. QED BY <2>2 DEF n
<1>6. QED BY <1>3, <1>5

(* A field of a statement is set.                                          *)
LEMMA FieldsWritten ==
    ASSUME NEW m, Memory(m), NEW s \in DOMAIN m.stmts
    PROVE  /\ [m EXCEPT !.stmts[s].softDelete = TRUE] = Write(m, m.arr, s, [m.stmts[s] EXCEPT !.softDelete = TRUE])
           /\ [m EXCEPT !.stmts[s].unscoped = TRUE] = Write(m, m.arr, s, [m.stmts[s] EXCEPT !.unscoped = TRUE])
           /\ [m EXCEPT !.stmts[s].scopes = <<>>] = Write(m, m.arr, s, [m.stmts[s] EXCEPT !.scopes = <<>>])
<1>1. PICK a, t : a = m.arr /\ t = m.stmts
  OBVIOUS
<1>2. m = [arr |-> a, stmts |-> t] /\ t \in [DOMAIN t -> Statement] /\ s \in DOMAIN t
  BY <1>1 DEF Memory
<1>3. [m EXCEPT !.stmts[s].softDelete = TRUE] = Write(m, m.arr, s, [m.stmts[s] EXCEPT !.softDelete = TRUE])
  <2>1. PICK n : n = [m EXCEPT !.stmts[s].softDelete = TRUE]
    OBVIOUS
  <2>2. PICK st : st = [t[s] EXCEPT !.softDelete = TRUE]
    OBVIOUS
  <2>3. n.arr = a /\ n.stmts = [t EXCEPT ![s].softDelete = TRUE]
    BY <1>2, <2>1
  <2>4. n = [arr |-> n.arr, stmts |-> n.stmts]
    BY <1>2, <2>1
  <2>5. [t EXCEPT ![s].softDelete = TRUE] = [t EXCEPT ![s] = st]
    BY <1>2, <2>2
  <2>6. Write(m, a, s, st) = [arr |-> a, stmts |-> [t EXCEPT ![s] = st]]
    BY <1>1 DEF Write
  <2>7. n = Write(m, a, s, st)
    BY <2>3, <2>4, <2>5, <2>6
  <2>8. QED BY <1>1, <2>1, <2>2, <2>7
<1>4. [m EXCEPT !.stmts[s].unscoped = TRUE] = Write(m, m.arr, s, [m.stmts[s] EXCEPT !.unscoped = TRUE])
  <2>1. PICK n : n = [m EXCEPT !.stmts[s].unscoped = TRUE]
    OBVIOUS
  <2>2. PICK st : st = [t[s] EXCEPT !.unscoped = TRUE]
    OBVIOUS
  <2>3. n.arr = a /\ n.stmts = [t EXCEPT ![s].unscoped = TRUE]
    BY <1>2, <2>1
  <2>4. n = [arr |-> n.arr, stmts |-> n.stmts]
    BY <1>2, <2>1
  <2>5. [t EXCEPT ![s].unscoped = TRUE] = [t EXCEPT ![s] = st]
    BY <1>2, <2>2
  <2>6. Write(m, a, s, st) = [arr |-> a, stmts |-> [t EXCEPT ![s] = st]]
    BY <1>1 DEF Write
  <2>7. n = Write(m, a, s, st)
    BY <2>3, <2>4, <2>5, <2>6
  <2>8. QED BY <1>1, <2>1, <2>2, <2>7
<1>5. [m EXCEPT !.stmts[s].scopes = <<>>] = Write(m, m.arr, s, [m.stmts[s] EXCEPT !.scopes = <<>>])
  <2>1. PICK n : n = [m EXCEPT !.stmts[s].scopes = <<>>]
    OBVIOUS
  <2>2. PICK st : st = [t[s] EXCEPT !.scopes = <<>>]
    OBVIOUS
  <2>3. n.arr = a /\ n.stmts = [t EXCEPT ![s].scopes = <<>>]
    BY <1>2, <2>1
  <2>4. n = [arr |-> n.arr, stmts |-> n.stmts]
    BY <1>2, <2>1
  <2>5. [t EXCEPT ![s].scopes = <<>>] = [t EXCEPT ![s] = st]
    BY <1>2, <2>2
  <2>6. Write(m, a, s, st) = [arr |-> a, stmts |-> [t EXCEPT ![s] = st]]
    BY <1>1 DEF Write
  <2>7. n = Write(m, a, s, st)
    BY <2>3, <2>4, <2>5, <2>6
  <2>8. QED BY <1>1, <2>1, <2>2, <2>7
<1>6. QED BY <1>3, <1>4, <1>5

MoreScopes(st, x) == [st EXCEPT !.scopes = Append(@, x)]
WithScope(m, s, x) == [m EXCEPT !.stmts[s].scopes = Append(@, x)]
(* Scopes appends to one field of one statement (chainable_api.go:375).    *)
LEMMA ScopeWritten ==
    ASSUME NEW m, Memory(m), NEW s \in DOMAIN m.stmts, NEW x
    PROVE  WithScope(m, s, x) = Write(m, m.arr, s, MoreScopes(m.stmts[s], x))
<1>1. PICK a, t : a = m.arr /\ t = m.stmts
  OBVIOUS
<1>2. m = [arr |-> a, stmts |-> t] /\ t \in [DOMAIN t -> Statement] /\ s \in DOMAIN t
  BY <1>1 DEF Memory
<1>3. PICK n : n = WithScope(m, s, x)
  OBVIOUS
<1>4. PICK st : st = MoreScopes(t[s], x)
  OBVIOUS
<1>5. n.arr = a /\ n.stmts = [t EXCEPT ![s].scopes = Append(@, x)]
  BY <1>2, <1>3 DEF WithScope
<1>6. n = [arr |-> n.arr, stmts |-> n.stmts]
  BY <1>2, <1>3 DEF WithScope
<1>7. [t EXCEPT ![s].scopes = Append(@, x)] = [t EXCEPT ![s] = st]
  BY <1>2, <1>4 DEF MoreScopes
<1>8. Write(m, a, s, st) = [arr |-> a, stmts |-> [t EXCEPT ![s] = st]]
  BY <1>1 DEF Write
<1>9. QED BY <1>1, <1>3, <1>4, <1>5, <1>6, <1>7, <1>8

(* The clause of soft deletion holds for all the conditions there are.     *)

Wrap(m, s, id) == [m EXCEPT !.arr = Put(@, id, << <<"and", m.stmts[s].where>> >>), !.stmts[s].where = id]
Wraps(m, n, s) ==
    /\ NoOrs(WhereOf(n, s)) /\ WhereOf(n, s) # <<>>
    /\ n.stmts[s] = [m.stmts[s] EXCEPT !.where = n.stmts[s].where]
    /\ \A row : Chosen(n, s, row) <=> Chosen(m, s, row)

(* Wrapped in And the conditions select the same and have no Or of their   *)
(* own (soft_delete.go:79).                                                *)
LEMMA Wrapping ==
    ASSUME NEW m, Memory(m), NEW s \in DOMAIN m.stmts, NEW id, id = FreeId(m.arr),
           Ors(m.arr, WhereOf(m, s)) # {}
    PROVE  Grown(m, Wrap(m, s, id), s) /\ Wraps(m, Wrap(m, s, id), s)
<1> DEFINE n  == Wrap(m, s, id)
           xs == WhereOf(m, s)
           w  == m.stmts[s].where
           ys == << <<"and", w>> >>
           st == [m.stmts[s] EXCEPT !.where = id]
<1>1. xs # <<>>
  BY DEF Ors
<1>2. w # NoArray /\ w \in DOMAIN m.arr /\ xs = m.arr[w] /\ Within(m.arr, xs)
  BY <1>1, WhereWithin
<1>3. Arrays(m.arr) /\ m.stmts[s] \in Statement
  BY DEF Memory
<1>4. <<"and", w>> \in Expr
  <2>1. w \in Nat \ {NoArray}
    BY <1>2, <1>3 DEF Statement
  <2>2. QED BY <2>1 DEF Expr, Nested
<1> HIDE DEF xs, w
<1>5. /\ Within(m.arr, ys) /\ ys # <<>> /\ NoOrs(ys)
      /\ \A row : AllHold(m.arr, ys, row) <=> Holds(m.arr, <<"and", w>>, row)
  <2> DEFINE e == <<"and", w>>
  <2>1. e \in Expr /\ e[1] = "and" /\ e[2] = w
    BY <1>4
  <2> HIDE DEF e
  <2>2. e[1] \in Nested => e[2] \in DOMAIN m.arr
    BY <1>2, <2>1
  <2>3. e[1] # "or"
    BY <2>1
  <2>4. /\ Within(m.arr, <<e>>) /\ <<e>> # <<>> /\ NoOrs(<<e>>)
        /\ \A row : AllHold(m.arr, <<e>>, row) <=> Holds(m.arr, e, row)
    BY <2>1, <2>2, <2>3, SingleWithin
  <2>5. QED BY <2>4 DEF e
<1>6. Starts(ys)
  BY DEF Starts
<1>7. PICK arr : arr = Put(m.arr, id, ys)
  OBVIOUS
<1>8. id \in Nat \ {0}
  BY <1>3, FreeIdProperty DEF Arrays
<1>9. arr[id] = ys /\ id \in DOMAIN arr
  BY <1>7 DEF Put
<1> HIDE DEF ys
<1>10. Arrays(arr) /\ Extends(m.arr, arr)
  <2> DEFINE old == m.arr
  <2> HIDE DEF old
  <2>1. Within(old, ys) /\ Arrays(old) /\ id = FreeId(old) /\ arr = Put(old, id, ys)
    BY <1>3, <1>5, <1>7 DEF old
  <2>2. Arrays(arr) /\ Extends(old, arr)
    BY <2>1, <1>6, NewArray
  <2>3. QED BY <2>2 DEF old
<1>11. Pointing(arr, st) /\ st.where = id
  BY <1>3, <1>8, <1>9 DEF Pointing, Statement
<1>12. n = Write(m, arr, s, st)
  <2>1. m = [arr |-> m.arr, stmts |-> m.stmts]
    BY DEF Memory
  <2>2. n = [m EXCEPT !.arr = arr, !.stmts[s].where = id]
    BY <1>7 DEF ys, w, Wrap
  <2>3. QED BY <2>1, <2>2 DEF Write
<1>13. n.stmts[s] = st /\ n.arr = arr
  <2>1. Write(m, arr, s, st).stmts[s] = st /\ Write(m, arr, s, st).arr = arr
    <3> HIDE DEF st
    <3> QED BY DEF Write
  <2> HIDE DEF st, n
  <2>2. QED BY <1>12, <2>1
<1> HIDE DEF n
<1>14. Grown(m, n, s)
  <2> HIDE DEF st
  <2> QED BY <1>10, <1>11, <1>12, Written
<1>15. WhereOf(n, s) = ys
  BY <1>8, <1>9, <1>11, <1>13 DEF WhereOf, NoArray
<1>16. ASSUME NEW row PROVE Chosen(n, s, row) <=> Chosen(m, s, row)
  <2>1. Chosen(n, s, row) <=> Joined(arr, ys, row)
    BY <1>5, <1>13, <1>15 DEF Chosen
  <2>2. Joined(arr, ys, row) <=> Joined(m.arr, ys, row)
    BY <1>3, <1>5, <1>10, JoinedSame
  <2>3. Joined(m.arr, ys, row) <=> AllHold(m.arr, ys, row)
    BY <1>5, JoinedPlainly
  <2>4. Holds(m.arr, <<"and", w>>, row) = Joined(m.arr, m.arr[w], row)
    BY <1>2, <1>3, HoldsAnd
  <2>5. Chosen(m, s, row) <=> Joined(m.arr, xs, row)
    BY <1>1 DEF Chosen, xs
  <2>6. QED BY <1>2, <1>5, <2>1, <2>2, <2>3, <2>4, <2>5
<1>17. n.stmts[s] = [m.stmts[s] EXCEPT !.where = n.stmts[s].where]
  BY <1>11, <1>13
<1>18. Wraps(m, n, s)
  BY <1>5, <1>15, <1>16, <1>17 DEF Wraps
<1>19. QED BY <1>14, <1>18 DEF n

(* The clause of soft deletion refers to no array and selects the rows     *)
(* that are not deleted.                                                   *)
LEMMA LiveHolds ==
    ASSUME NEW arr
    PROVE  /\ Within(arr, << <<"live">> >>) /\ << <<"live">> >> # <<>> /\ NoOrs(<< <<"live">> >>)
           /\ \A row : AllHold(arr, << <<"live">> >>, row) <=> ~row.gone
<1> DEFINE e == <<"live">>
<1>1. e \in Expr /\ e[1] = "live"
  BY DEF Expr
<1>2. \A row : Holds(arr, e, row) <=> ~row.gone
  BY DEF Holds, Nested, Plain
<1> HIDE DEF e
<1>3. e[1] \notin Nested /\ e[1] # "or"
  BY <1>1 DEF Nested
<1>4. /\ Within(arr, <<e>>) /\ <<e>> # <<>> /\ NoOrs(<<e>>)
      /\ \A row : AllHold(arr, <<e>>, row) <=> Holds(arr, e, row)
  BY <1>1, <1>3, SingleWithin
<1>5. QED BY <1>2, <1>4 DEF e

(* SoftDeleteQueryClause, the first time: what was selected before, if it  *)
(* is not deleted.                                                         *)
SoftDeleted(m, n, s) ==
    /\ n.stmts[s] = [m.stmts[s] EXCEPT !.where = n.stmts[s].where, !.softDelete = TRUE]
    /\ NoOrs(WhereOf(n, s)) /\ WhereOf(n, s) # <<>>
    /\ Len(WhereOf(n, s)) = 1 <=> WhereOf(m, s) = <<>>
    /\ \A row : Chosen(n, s, row) <=> Chosen(m, s, row) /\ ~row.gone

(* The clause of soft deletion narrows what was selected to rows that are  *)
(* not deleted, whatever Ors there are (soft_delete.go:76).                *)
LEMMA SoftDeleteChosen ==
    ASSUME NEW m, Memory(m), NEW s \in DOMAIN m.stmts, ~m.stmts[s].softDelete, ~m.stmts[s].unscoped
    PROVE  Grown(m, SoftDeleteQuery(m, s), s) /\ SoftDeleted(m, SoftDeleteQuery(m, s), s)
<1> DEFINE live == << <<"live">> >>
           id == FreeId(m.arr)
           p  == IF Ors(m.arr, WhereOf(m, s)) = {} THEN m ELSE Wrap(m, s, id)
           q  == AddWhere(p, s, live)
           n  == [q EXCEPT !.stmts[s].softDelete = TRUE]
<1>1. SoftDeleteQuery(m, s) = n
  BY DEF SoftDeleteQuery, Wrap
<1>2. /\ Grown(m, p, s) /\ NoOrs(WhereOf(p, s))
      /\ WhereOf(p, s) = <<>> <=> WhereOf(m, s) = <<>>
      /\ p.stmts[s] = [m.stmts[s] EXCEPT !.where = p.stmts[s].where]
      /\ \A row : Chosen(p, s, row) <=> Chosen(m, s, row)
  <2>1. CASE Ors(m.arr, WhereOf(m, s)) = {}
    <3>1. p = m
      BY <2>1
    <3>2. Grown(m, m, s)
      BY GrownSame
    <3>3. NoOrs(WhereOf(m, s))
      <4>1. Ors(m.arr, WhereOf(m, s)) = {i \in DOMAIN WhereOf(m, s) : WhereOf(m, s)[i][1] = "or"}
        BY WhereWithin, OrsAre
      <4>2. QED BY <2>1, <4>1 DEF NoOrs
    <3>4. m.stmts[s] = [m.stmts[s] EXCEPT !.where = m.stmts[s].where]
      BY DEF Memory, Statement
    <3> HIDE DEF p
    <3>5. QED BY <3>1, <3>2, <3>3, <3>4
  <2>2. CASE Ors(m.arr, WhereOf(m, s)) # {}
    <3>1. p = Wrap(m, s, id)
      BY <2>2
    <3>2. Grown(m, p, s) /\ Wraps(m, p, s)
      <4> HIDE DEF p
      <4> QED BY <2>2, <3>1, Wrapping
    <3> HIDE DEF p
    <3>3. WhereOf(m, s) # <<>>
      BY <2>2 DEF Ors
    <3>4. QED BY <3>2, <3>3 DEF Wraps
  <2>3. QED BY <2>1, <2>2
<1> HIDE DEF p, id
<1>3. Memory(p) /\ s \in DOMAIN p.stmts
  BY <1>2 DEF Grown
<1>4. /\ Within(p.arr, live) /\ live # <<>> /\ NoOrs(live)
      /\ \A row : AllHold(p.arr, live, row) <=> ~row.gone
  BY LiveHolds
<1> HIDE DEF live
<1>5. /\ Grown(p, q, s) /\ Added(p, q, s, live) /\ NoOrs(WhereOf(q, s))
      /\ \A row : Chosen(q, s, row) <=> Chosen(p, s, row) /\ AllHold(p.arr, live, row)
  BY <1>2, <1>3, <1>4, AddWhereChosen
<1> HIDE DEF q
<1>6. Memory(q) /\ s \in DOMAIN q.stmts
  BY <1>3, <1>5 DEF Grown
<1> DEFINE st == [q.stmts[s] EXCEPT !.softDelete = TRUE]
<1>7. st \in Statement /\ st.where = q.stmts[s].where
  BY <1>6 DEF Memory, Statement
<1>8. n = Write(q, q.arr, s, st)
  <2> HIDE DEF q
  <2> QED BY <1>6, FieldsWritten, Zenon
<1>9. n.arr = q.arr /\ n.stmts[s] = st
  BY <1>6 DEF Memory
<1>10. Grown(q, n, s) /\ WhereOf(n, s) = WhereOf(q, s)
  <2> HIDE DEF n, st
  <2> QED BY <1>6, <1>7, <1>8, FlagsWritten
<1>11. \A row : Chosen(n, s, row) <=> Chosen(q, s, row)
  <2> HIDE DEF n
  <2> QED BY <1>9, <1>10 DEF Chosen
<1>12. Grown(m, n, s)
  <2> HIDE DEF n
  <2> QED BY <1>2, <1>5, <1>10, GrownTwice
<1>13. n.stmts[s] = [m.stmts[s] EXCEPT !.where = n.stmts[s].where, !.softDelete = TRUE]
  <2>1. q.stmts[s] = [p.stmts[s] EXCEPT !.where = q.stmts[s].where]
    BY <1>5 DEF Added
  <2>2. m.stmts[s] \in Statement
    BY DEF Memory
  <2> HIDE DEF n
  <2>3. QED BY <1>2, <1>9, <2>1, <2>2 DEF Statement
<1>14. /\ WhereOf(n, s) # <<>>
       /\ Len(WhereOf(n, s)) = 1 <=> WhereOf(m, s) = <<>>
  <2> DEFINE xs == WhereOf(p, s)
  <2>1. WhereOf(q, s) = xs \o live /\ WhereOf(q, s) # <<>>
    BY <1>5 DEF Added
  <2>2. xs \in Seq(Expr) /\ live \in Seq(Expr)
    BY <1>3, <1>4, WhereWithin DEF Within
  <2>3. Len(live) = 1
    BY DEF live
  <2> HIDE DEF xs
  <2>a. Len(xs \o live) = Len(xs) + Len(live)
    BY <2>2
  <2>4. Len(xs \o live) = Len(xs) + 1 /\ Len(xs) \in Nat /\ (xs = <<>> <=> Len(xs) = 0)
    BY <2>2, <2>3, <2>a
  <2> HIDE DEF n
  <2>5. QED BY <1>2, <1>10, <2>1, <2>4 DEF xs
<1>15. SoftDeleted(m, n, s)
  <2> HIDE DEF n
  <2> QED BY <1>2, <1>4, <1>5, <1>10, <1>11, <1>13, <1>14 DEF SoftDeleted
<1>16. QED BY <1>1, <1>12, <1>15

(* What a statement tells, and more.                                       *)
LEMMA AddWhereTells ==
    ASSUME NEW m, Memory(m), NEW s \in DOMAIN m.stmts, NEW es, Within(m.arr, es), es # <<>>,
           NEW ws \in Seq(Word), NEW us \in Seq(Word), Spoken(ws \o us),
           Tell(m, s, ws), Alike(m.arr, es, us),
           m.stmts[s].softDelete => ~HasOr(ws) /\ ~HasOr(us)
    PROVE  /\ Grown(m, AddWhere(m, s, es), s) /\ Added(m, AddWhere(m, s, es), s, es)
           /\ Tell(AddWhere(m, s, es), s, ws \o us)
<1> DEFINE n  == AddWhere(m, s, es)
           xs == WhereOf(m, s)
           d  == m.stmts[s].softDelete
<1>1. d \in BOOLEAN /\ Within(m.arr, xs) /\ Tells(m.arr, xs, d, ws)
  BY WhereWithin DEF Memory, Statement, Tell
<1>2. xs \in Seq(Expr) /\ es \in Seq(Expr)
  BY <1>1 DEF Within
<1>3. ASSUME xs = <<>> PROVE Starts(es)
  <2> HIDE DEF xs, d
  <2>1. ~d
    BY <1>1, <1>3 DEF Tells, TellsDeleted
  <2>2. Alike(m.arr, xs, ws)
    BY <1>1, <2>1 DEF Tells
  <2>3. ws = <<>>
    BY <1>2, <1>3, <2>2, AlikeOrs
  <2>4. ws \o us = us
    BY <2>3
  <2>5. us # <<>>
    BY <1>2, AlikeOrs
  <2>6. us[1][1] # "or"
    BY <2>4, <2>5 DEF Spoken
  <2>7. 1 \in DOMAIN es
    BY <1>2
  <2>8. es[1][1] # "or"
    BY <2>6, <2>7 DEF Alike, AlikeOne
  <2>9. QED BY <2>8 DEF Starts
<1>4. Grown(m, n, s) /\ Added(m, n, s, es)
  BY <1>3, AddWhereKeeps
<1>5. WhereOf(n, s) = xs \o es
  BY <1>4 DEF Added
<1>6. n.stmts[s].softDelete = d
  <2>1. n.stmts[s] = [m.stmts[s] EXCEPT !.where = n.stmts[s].where] /\ m.stmts[s] \in Statement
    BY <1>4 DEF Added, Memory
  <2> HIDE DEF n
  <2>2. QED BY <2>1 DEF Statement
<1>7. Tells(m.arr, xs \o es, d, ws \o us)
  <2> HIDE DEF xs, d
  <2>1. d => ~HasOr(ws) /\ ~HasOr(us)
    BY DEF d
  <2>2. QED BY <1>1, <2>1, TellsMore
<1>8. Within(m.arr, xs \o es)
  <2> HIDE DEF xs
  <2> QED BY <1>1, ConcatWithin
<1>9. Arrays(m.arr) /\ Arrays(n.arr) /\ Extends(m.arr, n.arr)
  BY <1>4 DEF Grown, Memory
<1>10. Tells(n.arr, xs \o es, d, ws \o us)
  <2> HIDE DEF xs, d, n
  <2> QED BY <1>7, <1>8, <1>9, TellsSame
<1>11. Tell(n, s, ws \o us)
  <2> HIDE DEF xs, d, n
  <2> QED BY <1>5, <1>6, <1>10 DEF Tell
<1>12. QED BY <1>4, <1>11

-----------------------------------------------------------------------------
(* The scopes of a statement, carried out.                                 *)

ScopeExprs(scopes) == [i \in DOMAIN scopes |-> <<"is", scopes[i]>>]
ScopeWords(scopes) == [i \in DOMAIN scopes |-> <<"where", Having(scopes[i])>>]

(* Scopes carried out are plain conditions for words without Or.           *)
LEMMA ScopesAre ==
    ASSUME NEW scopes \in Seq(Atoms), NEW arr
    PROVE  /\ Within(arr, ScopeExprs(scopes)) /\ NoOrs(ScopeExprs(scopes))
           /\ ScopeExprs(scopes) = <<>> <=> scopes = <<>>
           /\ ScopeWords(scopes) \in Seq(Word) /\ ~HasOr(ScopeWords(scopes)) /\ Spoken(ScopeWords(scopes))
           /\ ScopeWords(scopes) = <<>> <=> scopes = <<>>
           /\ Alike(arr, ScopeExprs(scopes), ScopeWords(scopes))
<1> DEFINE es == ScopeExprs(scopes)
           ws == ScopeWords(scopes)
<1>1. Len(scopes) \in Nat /\ DOMAIN scopes = 1..Len(scopes) /\ \A i \in DOMAIN scopes : scopes[i] \in Atoms
  OBVIOUS
<1>2. \A x \in Atoms : <<"is", x>> \in Expr /\ <<"where", Having(x)>> \in Word
  BY DEF Expr, Word, Condition, Having
<1>3. /\ es \in Seq(Expr) /\ Len(es) = Len(scopes) /\ DOMAIN es = DOMAIN scopes
      /\ \A i \in DOMAIN scopes : es[i] = <<"is", scopes[i]>>
  <2>1. es = [i \in 1..Len(scopes) |-> <<"is", scopes[i]>>]
    BY <1>1 DEF ScopeExprs
  <2>2. \A i \in 1..Len(scopes) : <<"is", scopes[i]>> \in Expr
    BY <1>1, <1>2
  <2>3. es \in Seq(Expr)
    BY <1>1, <2>1, <2>2
  <2>4. DOMAIN es = 1..Len(scopes) /\ \A i \in 1..Len(scopes) : es[i] = <<"is", scopes[i]>>
    BY <2>1
  <2> HIDE DEF es
  <2>5. Len(es) = Len(scopes)
    BY <1>1, <2>3, <2>4
  <2>6. QED BY <1>1, <2>3, <2>4, <2>5
<1>4. /\ ws \in Seq(Word) /\ Len(ws) = Len(scopes) /\ DOMAIN ws = DOMAIN scopes
      /\ \A i \in DOMAIN scopes : ws[i] = <<"where", Having(scopes[i])>>
  <2>1. ws = [i \in 1..Len(scopes) |-> <<"where", Having(scopes[i])>>]
    BY <1>1 DEF ScopeWords
  <2>2. \A i \in 1..Len(scopes) : <<"where", Having(scopes[i])>> \in Word
    BY <1>1, <1>2
  <2>3. ws \in Seq(Word)
    BY <1>1, <2>1, <2>2
  <2>4. DOMAIN ws = 1..Len(scopes) /\ \A i \in 1..Len(scopes) : ws[i] = <<"where", Having(scopes[i])>>
    BY <2>1
  <2> HIDE DEF ws
  <2>5. Len(ws) = Len(scopes)
    BY <1>1, <2>3, <2>4
  <2>6. QED BY <1>1, <2>3, <2>4, <2>5
<1> HIDE DEF es, ws
<1>5. \A i \in DOMAIN es : es[i][1] = "is"
  BY <1>3
<1>6. \A i \in DOMAIN ws : ws[i][1] = "where"
  BY <1>4
<1>7. NoOrs(es) /\ ~HasOr(ws) /\ Within(arr, es)
  BY <1>3, <1>5, <1>6 DEF NoOrs, HasOr, Within, Refs, Nested
<1>8. Spoken(ws)
  <2>1. ws # <<>> => 1 \in DOMAIN ws
    BY <1>4
  <2>2. QED BY <1>6, <2>1 DEF Spoken
<1>9. /\ es = <<>> <=> scopes = <<>>
      /\ ws = <<>> <=> scopes = <<>>
  BY <1>1, <1>3, <1>4
<1>10. ASSUME NEW i \in DOMAIN es PROVE AlikeOne(arr, es[i], ws[i])
  <2>1. es[i] = <<"is", scopes[i]>> /\ ws[i] = <<"where", Having(scopes[i])>>
    BY <1>3, <1>4
  <2>2. \A row : Holds(arr, es[i], row) <=> scopes[i] \in row.is
    BY <2>1 DEF Holds, Nested, Plain
  <2>3. \A is \in SUBSET Atoms : TrueOf(ws[i], is) <=> scopes[i] \in is
    BY <2>1 DEF TrueOf, Having
  <2>4. \A row \in Row : row.is \in SUBSET Atoms
    BY DEF Row
  <2>5. es[i][1] # "or" /\ ws[i][1] # "or"
    BY <1>3, <1>5, <1>4, <1>6
  <2>6. QED BY <2>2, <2>3, <2>4, <2>5 DEF AlikeOne
<1>11. Alike(arr, es, ws)
  BY <1>3, <1>4, <1>10 DEF Alike
<1>12. QED BY <1>3, <1>4, <1>7, <1>8, <1>9, <1>11 DEF es, ws

Own(h, s)       == h.clone = 0 /\ h.stmt = s
Scoped(m, n, s) == n.stmts[s] = [m.stmts[s] EXCEPT !.where = n.stmts[s].where, !.scopes = <<>>]

(* The list of scopes is emptied first.                                    *)
LEMMA Cleared ==
    ASSUME NEW m, Memory(m), NEW s \in DOMAIN m.stmts, NEW n, n = [m EXCEPT !.stmts[s].scopes = <<>>]
    PROVE  /\ Grown(m, n, s) /\ Scoped(m, n, s) /\ WhereOf(n, s) = WhereOf(m, s) /\ n.arr = m.arr
           /\ n.stmts[s].softDelete = m.stmts[s].softDelete
<1> DEFINE st == [m.stmts[s] EXCEPT !.scopes = <<>>]
<1>1. m.stmts[s] \in Statement
  BY DEF Memory
<1>2. st \in Statement /\ st.where = m.stmts[s].where /\ st.softDelete = m.stmts[s].softDelete
  <2>1. <<>> \in Seq(Atoms)
    OBVIOUS
  <2>2. QED BY <1>1, <2>1 DEF Statement
<1>3. n = Write(m, m.arr, s, st)
  BY FieldsWritten, Zenon
<1>4. Grown(m, n, s) /\ WhereOf(n, s) = WhereOf(m, s)
  <2> HIDE DEF st
  <2> QED BY <1>2, <1>3, FlagsWritten
<1>5. n.arr = m.arr /\ n.stmts[s] = st
  <2> HIDE DEF st
  <2> QED BY <1>3 DEF Write
<1>6. Scoped(m, n, s)
  BY <1>1, <1>5 DEF Scoped, Statement
<1>7. QED BY <1>2, <1>4, <1>5, <1>6

(* After executeScopes the conditions tell the words and the scopes, which *)
(* are emptied (chainable_api.go:381).                                     *)
LEMMA ExecuteScopesTells ==
    ASSUME NEW m, Memory(m), NEW s \in DOMAIN m.stmts, NEW h, Own(h, s),
           NEW ws \in Seq(Word), Spoken(ws), Tell(m, s, ws),
           m.stmts[s].softDelete => m.stmts[s].scopes = <<>> \/ ~HasOr(ws)
    PROVE  /\ Grown(m, ExecuteScopes(m, h), s) /\ Scoped(m, ExecuteScopes(m, h), s)
           /\ Tell(ExecuteScopes(m, h), s, ws \o ScopeWords(m.stmts[s].scopes))
<1> DEFINE scopes == m.stmts[s].scopes
           es == ScopeExprs(scopes)
           us == ScopeWords(scopes)
           n  == ExecuteScopes(m, h)
<1>1. PICK c : c = [m EXCEPT !.stmts[s].scopes = <<>>]
  OBVIOUS
<1>2. scopes \in Seq(Atoms)
  BY DEF Memory, Statement
<1>3. /\ Grown(m, c, s) /\ Scoped(m, c, s) /\ WhereOf(c, s) = WhereOf(m, s) /\ c.arr = m.arr
      /\ c.stmts[s].softDelete = m.stmts[s].softDelete
  BY <1>1, Cleared
<1>4. Memory(c) /\ s \in DOMAIN c.stmts /\ Tell(c, s, ws)
  BY <1>3 DEF Grown, Tell
<1>5. n = IF scopes = <<>> THEN c ELSE AddWhere(c, s, es)
  BY <1>1 DEF ExecuteScopes, Own, ScopeExprs
<1> HIDE DEF scopes
<1>6. /\ Within(c.arr, es) /\ us \in Seq(Word) /\ ~HasOr(us) /\ Spoken(us) /\ Alike(c.arr, es, us)
      /\ es = <<>> <=> scopes = <<>>
      /\ us = <<>> <=> scopes = <<>>
  BY <1>2, ScopesAre
<1> HIDE DEF n, es, us
<1>7. CASE scopes = <<>>
  <2>1. n = c
    BY <1>5, <1>7
  <2>2. ws \o us = ws
    BY <1>6, <1>7
  <2>3. QED BY <1>3, <1>4, <2>1, <2>2 DEF n, us, scopes
<1>8. CASE scopes # <<>>
  <2>1. n = AddWhere(c, s, es)
    BY <1>5, <1>8
  <2>2. Spoken(ws \o us)
    BY <1>6, WordsConcat
  <2>3. c.stmts[s].softDelete => ~HasOr(ws) /\ ~HasOr(us)
    BY <1>3, <1>6, <1>8 DEF scopes
  <2>4. Grown(c, n, s) /\ Added(c, n, s, es) /\ Tell(n, s, ws \o us)
    BY <1>4, <1>6, <1>8, <2>1, <2>2, <2>3, AddWhereTells
  <2>5. Grown(m, n, s)
    BY <1>3, <2>4, GrownTwice
  <2>6. Scoped(m, n, s)
    <3>1. n.stmts[s] = [c.stmts[s] EXCEPT !.where = n.stmts[s].where]
      BY <2>4 DEF Added
    <3>2. c.stmts[s] = [m.stmts[s] EXCEPT !.where = c.stmts[s].where, !.scopes = <<>>]
      BY <1>3 DEF Scoped
    <3>3. m.stmts[s] \in Statement
      BY DEF Memory
    <3>4. QED BY <3>1, <3>2, <3>3 DEF Scoped, Statement
  <2>7. QED BY <2>4, <2>5, <2>6 DEF n, us, scopes
<1>9. QED BY <1>7, <1>8

-----------------------------------------------------------------------------
(* Conditions that are no words: the key, and what follows the last batch. *)

Narrowed(m, n, s, k, more) ==
    /\ n.stmts[s] = [m.stmts[s] EXCEPT !.where = n.stmts[s].where]
    /\ Len(WhereOf(n, s)) = Len(WhereOf(m, s)) + k
    /\ NoOrs(WhereOf(m, s)) => NoOrs(WhereOf(n, s))
    /\ \A row \in Row : Chosen(n, s, row) <=> Chosen(m, s, row) /\ row \in more

(* A condition that is no group narrows conditions without Or.             *)
LEMMA AddPlain ==
    ASSUME NEW m, Memory(m), NEW s \in DOMAIN m.stmts, NoOrs(WhereOf(m, s)),
           NEW e \in Expr, e[1] \notin Nested
    PROVE  /\ Grown(m, AddWhere(m, s, <<e>>), s)
           /\ Narrowed(m, AddWhere(m, s, <<e>>), s, 1, {row \in Row : Plain(e, row)})
<1> DEFINE n  == AddWhere(m, s, <<e>>)
           xs == WhereOf(m, s)
           es == <<e>>
<1>1. e[1] # "or"
  BY DEF Nested
<1>2. /\ Within(m.arr, es) /\ es # <<>> /\ NoOrs(es)
      /\ \A row : AllHold(m.arr, es, row) <=> Holds(m.arr, e, row)
  BY <1>1, SingleWithin
<1>3. \A row : Holds(m.arr, e, row) <=> Plain(e, row)
  BY DEF Holds
<1>4. Len(es) = 1
  OBVIOUS
<1> HIDE DEF es
<1>5. /\ Grown(m, n, s) /\ Added(m, n, s, es) /\ NoOrs(WhereOf(n, s))
      /\ \A row : Chosen(n, s, row) <=> Chosen(m, s, row) /\ AllHold(m.arr, es, row)
  BY <1>2, AddWhereChosen DEF es
<1>6. WhereOf(n, s) = xs \o es /\ n.stmts[s] = [m.stmts[s] EXCEPT !.where = n.stmts[s].where]
  BY <1>5 DEF Added
<1>7. Len(xs \o es) = Len(xs) + 1
  <2>1. xs \in Seq(Expr) /\ es \in Seq(Expr)
    BY <1>2, WhereWithin DEF Within
  <2> HIDE DEF xs
  <2>2. Len(xs \o es) = Len(xs) + Len(es)
    BY <2>1
  <2>3. QED BY <1>4, <2>2
<1> HIDE DEF n, xs
<1>8. Narrowed(m, n, s, 1, {row \in Row : Plain(e, row)})
  <2>1. \A row \in Row : Chosen(n, s, row) <=> Chosen(m, s, row) /\ row \in {r \in Row : Plain(e, r)}
    BY <1>2, <1>3, <1>5
  <2>2. Len(WhereOf(n, s)) = Len(WhereOf(m, s)) + 1
    BY <1>6, <1>7 DEF xs
  <2>3. QED BY <1>5, <1>6, <2>1, <2>2 DEF Narrowed
<1>9. QED BY <1>5, <1>8 DEF n, es

(* The key of the model narrows conditions without Or                      *)
(* (callbacks/update.go:157).                                              *)
LEMMA WithKeyNarrows ==
    ASSUME NEW m, Memory(m), NEW s \in DOMAIN m.stmts, NEW key \in Nat, key # 0 => NoOrs(WhereOf(m, s))
    PROVE  /\ Grown(m, WithKey(m, s, key), s)
           /\ Narrowed(m, WithKey(m, s, key), s, IF key = 0 THEN 0 ELSE 1, {row \in Row : key # 0 => row.id = key})
<1>1. CASE key = 0
  <2>1. WithKey(m, s, key) = m
    BY <1>1 DEF WithKey
  <2>2. m.stmts[s] = [m.stmts[s] EXCEPT !.where = m.stmts[s].where]
    BY DEF Memory, Statement
  <2>3. Len(WhereOf(m, s)) \in Nat
    BY WhereWithin DEF Within
  <2>4. Narrowed(m, m, s, 0, {row \in Row : key # 0 => row.id = key})
    BY <1>1, <2>2, <2>3 DEF Narrowed
  <2>5. QED BY <1>1, <2>1, <2>4, GrownSame
<1>2. CASE key # 0
  <2> DEFINE e == <<"key", key>>
  <2>1. WithKey(m, s, key) = AddWhere(m, s, <<e>>)
    BY <1>2 DEF WithKey
  <2>2. e \in Expr /\ e[1] \notin Nested /\ \A row : Plain(e, row) <=> row.id = key
    BY DEF Expr, Nested, Plain
  <2> HIDE DEF e
  <2>3. /\ Grown(m, AddWhere(m, s, <<e>>), s)
        /\ Narrowed(m, AddWhere(m, s, <<e>>), s, 1, {row \in Row : Plain(e, row)})
    BY <1>2, <2>2, AddPlain
  <2>4. {row \in Row : Plain(e, row)} = {row \in Row : key # 0 => row.id = key}
    BY <1>2, <2>2
  <2>5. QED BY <1>2, <2>1, <2>3, <2>4
<1>3. QED BY <1>1, <1>2

(* The last key of the batch before narrows them (finisher_api.go:241).    *)
LEMMA AfterNarrows ==
    ASSUME NEW m, Memory(m), NEW s \in DOMAIN m.stmts, NEW last \in Nat, NoOrs(WhereOf(m, s))
    PROVE  /\ Grown(m, AddWhere(m, s, << <<"after", last>> >>), s)
           /\ Narrowed(m, AddWhere(m, s, << <<"after", last>> >>), s, 1, {row \in Row : row.id > last})
<1> DEFINE e == <<"after", last>>
<1>1. e \in Expr /\ e[1] \notin Nested /\ \A row : Plain(e, row) <=> row.id > last
  BY DEF Expr, Nested, Plain
<1> HIDE DEF e
<1>2. /\ Grown(m, AddWhere(m, s, <<e>>), s)
      /\ Narrowed(m, AddWhere(m, s, <<e>>), s, 1, {row \in Row : Plain(e, row)})
  BY <1>1, AddPlain
<1>3. {row \in Row : Plain(e, row)} = {row \in Row : row.id > last}
  BY <1>1
<1>4. QED BY <1>2, <1>3 DEF e

-----------------------------------------------------------------------------
(* Where.Build: as no array begins with Or it finds nothing to move, and   *)
(* what it opens means the same.                                           *)

Builds(m, s, b) ==
    /\ b.mem = m
    /\ \A row : b.exprs = <<>> \/ Joined(m.arr, b.exprs, row) <=> Chosen(m, s, row)

(* Build selects what the conditions select and writes to no array         *)
(* (clause/where.go:23).                                                   *)
LEMMA BuiltIs ==
    ASSUME NEW m, Memory(m), NEW s \in DOMAIN m.stmts
    PROVE  Builds(m, s, Built(m, s))
<1> DEFINE xs    == WhereOf(m, s)
           id    == IF Len(xs) = 1 /\ xs[1][1] = "and" THEN xs[1][2] ELSE m.stmts[s].where
           ys    == m.arr[id]
           plain == DOMAIN ys \ Ors(m.arr, ys)
           first == Least(plain)
           n     == IF plain = {} THEN m
                    ELSE [m EXCEPT !.arr[id] = [ys EXCEPT ![1] = ys[first], ![first] = ys[1]]]
<1>1. Built(m, s) = IF xs = <<>> THEN [mem |-> m, exprs |-> <<>>] ELSE [mem |-> n, exprs |-> n.arr[id]]
  BY DEF Built
<1>2. CASE xs = <<>>
  <2>1. Built(m, s).mem = m /\ Built(m, s).exprs = <<>>
    BY <1>1, <1>2
  <2>2. QED BY <1>2, <2>1 DEF Builds, Chosen
<1>3. CASE xs # <<>>
  <2>0. /\ Within(m.arr, xs) /\ m.stmts[s].where \in DOMAIN m.arr /\ xs = m.arr[m.stmts[s].where]
        /\ Arrays(m.arr) /\ xs \in Seq(Expr)
    BY <1>3, WhereWithin DEF Memory, Within
  <2> DEFINE opens == Len(xs) = 1 /\ xs[1][1] = "and"
  <2>1. ASSUME opens
        PROVE  id \in DOMAIN m.arr /\ \A row : Joined(m.arr, xs, row) <=> Joined(m.arr, m.arr[id], row)
    <3> HIDE DEF xs
    <3>1. 1 \in DOMAIN xs /\ DOMAIN xs = {1} /\ xs[1][1] = "and" /\ xs[1][1] \in Nested
      BY <2>0, <2>1 DEF Nested
    <3>2. id = xs[1][2]
      BY <2>1
    <3>3. xs[1][2] \in DOMAIN m.arr /\ xs[1] = <<xs[1][1], xs[1][2]>>
      BY <2>0, <3>1, WithinMember
    <3>4. xs[1] = <<"and", id>>
      BY <3>1, <3>2, <3>3
    <3>5. id \in DOMAIN m.arr
      BY <3>2, <3>3
    <3> HIDE DEF id
    <3>6. ASSUME NEW row PROVE Joined(m.arr, xs, row) <=> Joined(m.arr, m.arr[id], row)
      <4>1. NoOrs(xs)
        BY <3>1 DEF NoOrs
      <4>2. Joined(m.arr, xs, row) <=> AllHold(m.arr, xs, row)
        BY <2>0, <4>1, JoinedPlainly
      <4>3. AllHold(m.arr, xs, row) <=> Holds(m.arr, xs[1], row)
        BY <3>1 DEF AllHold
      <4>4. Holds(m.arr, <<"and", id>>, row) = Joined(m.arr, m.arr[id], row)
        BY <2>0, <3>5, HoldsAnd
      <4>5. QED BY <3>4, <4>2, <4>3, <4>4
    <3>7. QED BY <3>5, <3>6
  <2>2. ASSUME ~opens
        PROVE  id \in DOMAIN m.arr /\ \A row : Joined(m.arr, xs, row) <=> Joined(m.arr, m.arr[id], row)
    <3>1. id = m.stmts[s].where
      BY <2>2
    <3> HIDE DEF xs, id
    <3>2. QED BY <2>0, <3>1
  <2>3. id \in DOMAIN m.arr /\ \A row : Joined(m.arr, xs, row) <=> Joined(m.arr, m.arr[id], row)
    <3> HIDE DEF opens, id, xs
    <3> QED BY <2>1, <2>2
  <2> HIDE DEF id, xs
  <2>4. Within(m.arr, ys) /\ Starts(ys)
    BY <2>0, <2>3 DEF Arrays
  <2>5. 1 \in plain /\ plain \in SUBSET Nat
    <3>1. ys \in Seq(Expr)
      BY <2>4 DEF Within
    <3>2. Ors(m.arr, ys) = {i \in DOMAIN ys : ys[i][1] = "or"}
      BY <2>4, OrsAre
    <3> HIDE DEF ys
    <3>3. 1 \in DOMAIN ys /\ DOMAIN ys \subseteq Nat
      BY <2>4, <3>1 DEF Starts
    <3>4. ys[1][1] # "or"
      BY <2>4 DEF Starts
    <3>5. QED BY <3>2, <3>3, <3>4
  <2>6. first = 1
    <3> HIDE DEF plain
    <3>1. first \in plain /\ \A y \in plain : first <= y
      BY <2>5, LeastProperty
    <3> HIDE DEF first
    <3>2. first \in Nat /\ first <= 1
      BY <2>5, <3>1
    <3>3. first # 0
      <4>1. 0 \notin plain
        <5>1. ys \in Seq(Expr)
          BY <2>4 DEF Within
        <5>2. 0 \notin DOMAIN ys
          <6> HIDE DEF ys
          <6> QED BY <5>1
        <5>3. QED
          <6> HIDE DEF ys
          <6> QED BY <5>2 DEF plain
      <4>2. QED BY <3>1, <4>1
    <3>4. QED BY <3>2, <3>3
  <2>7. n = m
    <3>1. n = [m EXCEPT !.arr[id] = [ys EXCEPT ![1] = ys[first], ![first] = ys[1]]]
      BY <2>5
    <3>2. [ys EXCEPT ![1] = ys[first], ![first] = ys[1]] = ys
      <4>1. ys \in Seq(Expr)
        BY <2>4 DEF Within
      <4>2. ys = [i \in DOMAIN ys |-> ys[i]]
        <5> HIDE DEF ys
        <5> QED BY <4>1
      <4> HIDE DEF first
      <4>3. [ys EXCEPT ![1] = ys[first], ![first] = ys[1]] = [ys EXCEPT ![1] = ys[1], ![1] = ys[1]]
        BY <2>6
      <4> HIDE DEF ys
      <4>4. QED BY <4>2, <4>3
    <3>3. PICK k : k = [m EXCEPT !.arr[id] = ys]
      OBVIOUS
    <3>4. n = k
      <4> HIDE DEF ys, first, n
      <4> QED BY <3>1, <3>2, <3>3
    <3>5. k = m
      <4>1. PICK a, t : a = m.arr /\ t = m.stmts
        OBVIOUS
      <4>2. m = [arr |-> a, stmts |-> t] /\ a = [i \in DOMAIN a |-> a[i]] /\ id \in DOMAIN a /\ ys = a[id]
        BY <2>0, <2>3, <4>1 DEF Memory, Arrays
      <4> HIDE DEF ys
      <4>3. k.arr = [a EXCEPT ![id] = ys] /\ k.stmts = t
        BY <3>3, <4>2
      <4>4. k = [arr |-> k.arr, stmts |-> k.stmts]
        BY <3>3, <4>2
      <4>5. [a EXCEPT ![id] = ys] = a
        BY <4>2
      <4>6. QED BY <4>2, <4>3, <4>4, <4>5
    <3>6. QED
      <4> HIDE DEF n
      <4> QED BY <3>4, <3>5
  <2> HIDE DEF n
  <2>8. Built(m, s).mem = m /\ Built(m, s).exprs = ys
    BY <1>1, <1>3, <2>7
  <2>9. ys # <<>>
    BY <2>4 DEF Starts
  <2>10. \A row : Chosen(m, s, row) <=> Joined(m.arr, ys, row)
    BY <1>3, <2>3 DEF Chosen, xs
  <2>11. QED
    <3> HIDE DEF ys
    <3> QED BY <2>8, <2>9, <2>10 DEF Builds
<1>4. QED BY <1>2, <1>3

-----------------------------------------------------------------------------
(* What was said on a handle is what its statement s in m keeps.           *)

Saying(h) == /\ h.words \in Seq(Word) /\ Spoken(h.words) /\ h.scopes \in Seq(Atoms)
             /\ h.unscoped \in BOOLEAN /\ h.asked \in BOOLEAN /\ h.allow \in BOOLEAN
FlagsKept(m, s, h) == m.stmts[s].unscoped = h.unscoped /\ m.stmts[s].scopes = h.scopes
Says(sd, m, s, h) ==
    /\ s \in DOMAIN m.stmts /\ FlagsKept(m, s, h)
    /\ m.stmts[s].softDelete => /\ sd /\ ~h.unscoped /\ h.asked
                                /\ h.scopes = <<>> \/ ~HasOr(h.words)
    /\ Tell(m, s, h.words)
Heard(h) == [h EXCEPT !.asked = TRUE, !.scopes = <<>>, !.words = AllWords(h)]

(* The words and the scopes of a handle are words again.                   *)
LEMMA AllWordsAre ==
    ASSUME NEW h, Saying(h)
    PROVE  /\ AllWords(h) = h.words \o ScopeWords(h.scopes)
           /\ AllWords(h) \in Seq(Word) /\ Spoken(AllWords(h))
           /\ HasOr(AllWords(h)) <=> HasOr(h.words)
<1>1. AllWords(h) = h.words \o ScopeWords(h.scopes)
  BY DEF AllWords, ScopeWords
<1>2. ScopeWords(h.scopes) \in Seq(Word) /\ ~HasOr(ScopeWords(h.scopes)) /\ Spoken(ScopeWords(h.scopes))
  BY ScopesAre DEF Saying
<1> DEFINE ws == h.words
           us == ScopeWords(h.scopes)
<1>3. ws \in Seq(Word) /\ Spoken(ws)
  BY DEF Saying
<1> HIDE DEF ws, us
<1>4. us \in Seq(Word) /\ ~HasOr(us) /\ Spoken(us)
  BY <1>2 DEF us
<1>5. ws \o us \in Seq(Word) /\ Spoken(ws \o us) /\ (HasOr(ws \o us) <=> HasOr(ws))
  BY <1>3, <1>4, WordsConcat
<1>6. AllWords(h) = ws \o us
  BY <1>1 DEF ws, us
<1>7. QED BY <1>1, <1>5, <1>6 DEF ws

(* Execute carries out the scopes and adds the clause of soft deletion.    *)
Listens(sd, m, n, s, h) ==
    /\ Grown(m, n, s)
    /\ n.stmts[s].unscoped = h.unscoped /\ n.stmts[s].scopes = <<>>
    /\ Tell(n, s, AllWords(h))

(* Execute carries out what was said on the handle.                        *)
LEMMA ScopesListen ==
    ASSUME NEW m, Memory(m), NEW s, NEW h, Saying(h), Says(soft, m, s, h), NEW g, Own(g, s)
    PROVE  /\ Listens(soft, m, ExecuteScopes(m, g), s, h)
           /\ ExecuteScopes(m, g).stmts[s].softDelete = m.stmts[s].softDelete
<1> DEFINE n == ExecuteScopes(m, g)
           ws == h.words
<1>1. s \in DOMAIN m.stmts /\ m.stmts[s].scopes = h.scopes /\ m.stmts[s].unscoped = h.unscoped
      /\ m.stmts[s] \in Statement
  BY DEF Says, FlagsKept, Memory
<1>2. ws \in Seq(Word) /\ Spoken(ws) /\ Tell(m, s, ws)
  BY DEF Saying, Says
<1>3. m.stmts[s].softDelete => m.stmts[s].scopes = <<>> \/ ~HasOr(ws)
  BY <1>1 DEF Says
<1> HIDE DEF ws
<1>4. /\ Grown(m, n, s) /\ Scoped(m, n, s)
      /\ Tell(n, s, ws \o ScopeWords(m.stmts[s].scopes))
  BY <1>1, <1>2, <1>3, ExecuteScopesTells
<1>5. ws \o ScopeWords(m.stmts[s].scopes) = AllWords(h)
  BY <1>1, AllWordsAre DEF ws
<1> HIDE DEF n
<1>6. /\ n.stmts[s].unscoped = h.unscoped /\ n.stmts[s].scopes = <<>>
      /\ n.stmts[s].softDelete = m.stmts[s].softDelete
  BY <1>1, <1>4 DEF Scoped, Statement
<1>7. Listens(soft, m, n, s, h)
  BY <1>4, <1>5, <1>6 DEF Listens
<1>8. QED BY <1>6, <1>7 DEF n

(* A first clause of soft deletion on conditions that tell words.          *)
LEMMA SoftDeleteTells ==
    ASSUME NEW m, Memory(m), NEW s \in DOMAIN m.stmts, NEW n, Memory(n), s \in DOMAIN n.stmts,
           NEW ws \in Seq(Word), Spoken(ws),
           Tell(m, s, ws), ~m.stmts[s].softDelete, SoftDeleted(m, n, s)
    PROVE  Tell(n, s, ws)
<1> DEFINE xs == WhereOf(m, s)
           ys == WhereOf(n, s)
<1>1. Within(m.arr, xs) /\ Tells(m.arr, xs, FALSE, ws) /\ Alike(m.arr, xs, ws) /\ xs \in Seq(Expr)
  <2>1. Tells(m.arr, xs, m.stmts[s].softDelete, ws)
    BY DEF Tell
  <2>2. Alike(m.arr, xs, ws)
    <3> HIDE DEF xs
    <3> QED BY <2>1 DEF Tells
  <2>3. QED
    <3> HIDE DEF xs
    <3>1. Within(m.arr, xs)
      BY WhereWithin DEF xs
    <3>2. QED BY <2>2, <3>1 DEF Tells, Within
<1>2. xs = <<>> <=> ws = <<>>
  <2> HIDE DEF xs
  <2> QED BY <1>1, AlikeOrs
<1>3. Within(n.arr, ys) /\ NoOrs(ys) /\ ys # <<>> /\ (Len(ys) = 1 <=> ws = <<>>)
  BY <1>2, WhereWithin DEF SoftDeleted
<1>4. ASSUME NEW row \in Row PROVE AllHold(n.arr, ys, row) <=> row.is \in Means(ws) /\ ~row.gone
  <2>1. Chosen(n, s, row) <=> Chosen(m, s, row) /\ ~row.gone
    BY DEF SoftDeleted
  <2>2. Chosen(n, s, row) <=> AllHold(n.arr, ys, row)
    <3>1. Chosen(n, s, row) <=> Joined(n.arr, ys, row)
      BY <1>3 DEF Chosen
    <3>2. Joined(n.arr, ys, row) <=> AllHold(n.arr, ys, row)
      <4> HIDE DEF ys
      <4> QED BY <1>3, JoinedPlainly
    <3>3. QED BY <3>1, <3>2
  <2>3. Chosen(m, s, row) <=> row.is \in Means(ws)
    <3>1. xs = <<>> \/ Joined(m.arr, xs, row) <=> row.is \in Means(ws)
      <4> HIDE DEF xs
      <4> QED BY <1>1, AlikeSelects
    <3>2. QED BY <3>1 DEF Chosen
  <2>4. QED BY <2>1, <2>2, <2>3
<1>5. n.stmts[s].softDelete
  <2>1. m.stmts[s] \in Statement /\ n.stmts[s] = [m.stmts[s] EXCEPT !.where = n.stmts[s].where, !.softDelete = TRUE]
    BY DEF Memory, SoftDeleted
  <2>2. QED BY <2>1 DEF Statement
<1>6. TellsDeleted(n.arr, ys, ws)
  <2> HIDE DEF ys
  <2> QED BY <1>3, <1>4 DEF TellsDeleted
<1>7. QED
  <2> HIDE DEF ys
  <2>1. Tells(n.arr, ys, n.stmts[s].softDelete, ws)
    BY <1>5, <1>6 DEF Tells
  <2>2. QED BY <2>1 DEF Tell, ys

Sighted(sd, n, s, h) == n.stmts[s].softDelete <=> sd /\ ~h.unscoped

(* With the clause of soft deletion it is still carried out, and the rows  *)
(* are out of sight exactly if they should be.                             *)
LEMMA LiveListens ==
    ASSUME NEW m, Memory(m), NEW s \in DOMAIN m.stmts, NEW h, Saying(h), soft \in BOOLEAN,
           NEW p, Listens(soft, m, p, s, h), p.stmts[s].softDelete => soft /\ ~h.unscoped
    PROVE  /\ Listens(soft, m, Live(p, s), s, h)
           /\ Sighted(soft, Live(p, s), s, h)
<1> DEFINE n == Live(p, s)
           st == p.stmts[s]
<1>1. Grown(m, p, s) /\ Memory(p) /\ s \in DOMAIN p.stmts /\ st.unscoped = h.unscoped
  BY DEF Listens, Grown
<1>2. st \in Statement /\ st.softDelete \in BOOLEAN /\ st.unscoped \in BOOLEAN
  BY <1>1 DEF Memory, Statement
<1>3. CASE ~soft \/ st.softDelete \/ st.unscoped
  <2>1. n = p
    BY <1>3 DEF Live, SoftDeleteQuery
  <2>2. Sighted(soft, p, s, h)
    BY <1>1, <1>2, <1>3 DEF Sighted
  <2>3. QED BY <2>1, <2>2
<1>4. CASE soft /\ ~st.softDelete /\ ~st.unscoped
  <2>1. n = SoftDeleteQuery(p, s)
    BY <1>4 DEF Live
  <2> HIDE DEF n
  <2>2. Grown(p, n, s) /\ SoftDeleted(p, n, s)
    BY <1>1, <1>4, <2>1, SoftDeleteChosen
  <2>3. Grown(m, n, s) /\ Memory(n) /\ s \in DOMAIN n.stmts
    BY <1>1, <2>2, GrownTwice DEF Grown
  <2>4. Tell(n, s, AllWords(h))
    <3>1. Tell(p, s, AllWords(h)) /\ AllWords(h) \in Seq(Word) /\ Spoken(AllWords(h))
      BY AllWordsAre DEF Listens
    <3>2. QED BY <1>1, <1>4, <2>2, <2>3, <3>1, SoftDeleteTells
  <2>5. /\ n.stmts[s].unscoped = st.unscoped /\ n.stmts[s].scopes = st.scopes
        /\ n.stmts[s].softDelete
    <3>1. n.stmts[s] = [st EXCEPT !.where = n.stmts[s].where, !.softDelete = TRUE]
      BY <2>2 DEF SoftDeleted
    <3> HIDE DEF st
    <3>2. QED BY <1>2, <3>1 DEF Statement
  <2>6. st.scopes = <<>>
    BY DEF Listens
  <2>7. Listens(soft, m, n, s, h)
    BY <1>1, <2>3, <2>4, <2>5, <2>6 DEF Listens
  <2>8. Sighted(soft, n, s, h)
    BY <1>1, <1>4, <2>5 DEF Sighted
  <2>9. QED BY <2>7, <2>8 DEF n
<1>5. QED BY <1>2, <1>3, <1>4

(* What is selected once the words are carried out.                        *)
LEMMA ListensSelects ==
    ASSUME NEW sd, NEW m, NEW n, NEW s, NEW h, Saying(h), Listens(sd, m, n, s, h), s \in DOMAIN m.stmts,
           NEW row \in Row
    PROVE  Chosen(n, s, row) <=> row.is \in Means(AllWords(h)) /\ (n.stmts[s].softDelete => ~row.gone)
<1> DEFINE ys == WhereOf(n, s)
           d  == n.stmts[s].softDelete
<1>1. Memory(n) /\ s \in DOMAIN n.stmts
  BY DEF Listens, Grown
<1>2. Within(n.arr, ys) /\ d \in BOOLEAN
  BY <1>1, WhereWithin DEF Memory, Statement
<1>3. Tells(n.arr, ys, d, AllWords(h)) /\ AllWords(h) \in Seq(Word) /\ Spoken(AllWords(h))
  BY AllWordsAre DEF Listens, Tell
<1>4. Chosen(n, s, row) <=> ys = <<>> \/ Joined(n.arr, ys, row)
  BY DEF Chosen
<1> HIDE DEF ys, d
<1>5. ys = <<>> \/ Joined(n.arr, ys, row) <=> row.is \in Means(AllWords(h)) /\ (d => ~row.gone)
  BY <1>2, <1>3, TellsSelects
<1>6. QED BY <1>4, <1>5 DEF d

(* How many conditions there are then, and whether Or is among them.       *)
LEMMA ListensCounts ==
    ASSUME NEW sd, NEW m, NEW n, NEW s, NEW h, Saying(h), Listens(sd, m, n, s, h), s \in DOMAIN m.stmts
    PROVE  /\ n.stmts[s].softDelete \/ ~HasOr(h.words) => NoOrs(WhereOf(n, s))
           /\ Len(WhereOf(n, s)) \in Nat
           /\ n.stmts[s].softDelete => Len(WhereOf(n, s)) > 0 /\ (Len(WhereOf(n, s)) = 1 <=> AllWords(h) = <<>>)
           /\ ~n.stmts[s].softDelete => (Len(WhereOf(n, s)) = 0 <=> AllWords(h) = <<>>)
<1> DEFINE ys == WhereOf(n, s)
           d  == n.stmts[s].softDelete
<1>1. Memory(n) /\ s \in DOMAIN n.stmts
  BY DEF Listens, Grown
<1>2. ys \in Seq(Expr) /\ d \in BOOLEAN
  BY <1>1, WhereWithin DEF Memory, Statement, Within
<1>3. /\ Tells(n.arr, ys, d, AllWords(h)) /\ AllWords(h) \in Seq(Word)
      /\ HasOr(AllWords(h)) <=> HasOr(h.words)
  BY AllWordsAre DEF Listens, Tell
<1> HIDE DEF ys, d
<1>4. Len(ys) \in Nat /\ (ys = <<>> <=> Len(ys) = 0)
  BY <1>2
<1>5. CASE d
  <2>1. TellsDeleted(n.arr, ys, AllWords(h))
    BY <1>3, <1>5 DEF Tells
  <2>2. QED BY <1>4, <1>5, <2>1 DEF TellsDeleted, ys, d
<1>6. CASE ~d
  <2>1. Alike(n.arr, ys, AllWords(h))
    BY <1>3, <1>6 DEF Tells
  <2>2. /\ NoOrs(ys) <=> ~HasOr(AllWords(h))
        /\ ys = <<>> <=> AllWords(h) = <<>>
    BY <1>2, <1>3, <2>1, AlikeOrs
  <2>3. QED BY <1>3, <1>4, <1>6, <2>2 DEF ys, d
<1>7. QED BY <1>2, <1>5, <1>6

-----------------------------------------------------------------------------
(* The statements that finishers send.                                     *)

(* What the program asks for with the words on h, a key, and the last row  *)
(* of the batch before.                                                    *)
Suits(h, key, after, row) ==
    /\ key # 0 => row.id = key
    /\ row.id > after
    /\ soft /\ ~h.unscoped => ~row.gone
    /\ row.is \in Means(AllWords(h))
Selects(b, row) == b.exprs = <<>> \/ Joined(b.mem.arr, b.exprs, row)
Answers(m, s, h, key, after, b) ==
    /\ Grown(m, b.mem, s)
    /\ \A row \in Row : Selects(b, row) <=> Suits(h, key, after, row)
(* checkMissingWhereConditions finds conditions when there are some.       *)
Counted(s, h, key, b) ==
    MissingWhere(b.mem, s, FALSE) <=> AllWords(h) = <<>> /\ key = 0

(* What is built from conditions that select what is asked for answers the *)
(* question.                                                               *)
LEMMA BuiltAnswers ==
    ASSUME NEW m, NEW n, NEW s \in DOMAIN m.stmts, NEW h, NEW key, NEW after, Grown(m, n, s),
           \A row \in Row : Chosen(n, s, row) <=> Suits(h, key, after, row)
    PROVE  Answers(m, s, h, key, after, Built(n, s)) /\ Built(n, s).mem = n
<1> DEFINE b == Built(n, s)
<1>1. Memory(n) /\ s \in DOMAIN n.stmts
  BY DEF Grown
<1>2. Builds(n, s, b)
  BY <1>1, BuiltIs
<1> HIDE DEF b
<1>3. b.mem = n
  BY <1>2 DEF Builds
<1>4. \A row \in Row : Selects(b, row) <=> Chosen(n, s, row)
  BY <1>2, <1>3 DEF Builds, Selects
<1>5. QED BY <1>3, <1>4 DEF Answers, b

(* The two steps before the key is added.                                  *)
LEMMA Settled ==
    ASSUME NEW m, Memory(m), NEW s, NEW h, Saying(h), soft \in BOOLEAN, Says(soft, m, s, h),
           NEW n, n = Live(ExecuteScopes(m, [clone |-> 0, stmt |-> s]), s)
    PROVE  Listens(soft, m, n, s, h) /\ Sighted(soft, n, s, h)
<1> DEFINE g == [clone |-> 0, stmt |-> s]
           p == ExecuteScopes(m, g)
<1>1. Own(g, s)
  BY DEF Own
<1>2. s \in DOMAIN m.stmts /\ (m.stmts[s].softDelete => soft /\ ~h.unscoped)
  BY DEF Says
<1> HIDE DEF g
<1>3. Listens(soft, m, p, s, h) /\ p.stmts[s].softDelete = m.stmts[s].softDelete
  BY <1>1, ScopesListen
<1>4. n = Live(p, s)
  BY DEF g
<1> HIDE DEF p
<1>5. p.stmts[s].softDelete => soft /\ ~h.unscoped
  BY <1>2, <1>3
<1>6. QED BY <1>2, <1>3, <1>4, <1>5, LiveListens

(* A query selects the rows that its handle and its key ask for, and a     *)
(* statement is found to be without conditions exactly when nothing was    *)
(* said (callbacks/query.go:14).                                           *)
LEMMA QueryOnAnswers ==
    ASSUME NEW m, Memory(m), NEW s, NEW h, Saying(h), soft \in BOOLEAN, Says(soft, m, s, h),
           NEW key \in Nat, key # 0 /\ (~soft \/ h.unscoped) => ~HasOr(h.words)
    PROVE  /\ Answers(m, s, h, key, 0, QueryOn(m, s, key))
           /\ Counted(s, h, key, QueryOn(m, s, key))
           /\ key = 0 => Listens(soft, m, QueryOn(m, s, key).mem, s, h)
           /\ key = 0 => Sighted(soft, QueryOn(m, s, key).mem, s, h)
<1> DEFINE n == Live(ExecuteScopes(m, [clone |-> 0, stmt |-> s]), s)
           o == WithKey(n, s, key)
           b == Built(o, s)
           more == {row \in Row : key # 0 => row.id = key}
           d == n.stmts[s].softDelete
           k == IF key = 0 THEN 0 ELSE 1
<1>0. b = QueryOn(m, s, key)
  BY DEF QueryOn
<1>1. Listens(soft, m, n, s, h) /\ Sighted(soft, n, s, h)
  BY Settled
<1>2. s \in DOMAIN m.stmts
  BY DEF Says
<1> HIDE DEF n
<1>3. Grown(m, n, s) /\ Memory(n) /\ s \in DOMAIN n.stmts
  BY <1>1, <1>2 DEF Listens, Grown
<1>4. /\ d \/ ~HasOr(h.words) => NoOrs(WhereOf(n, s))
      /\ Len(WhereOf(n, s)) \in Nat
      /\ d => Len(WhereOf(n, s)) > 0 /\ (Len(WhereOf(n, s)) = 1 <=> AllWords(h) = <<>>)
      /\ ~d => (Len(WhereOf(n, s)) = 0 <=> AllWords(h) = <<>>)
  BY <1>1, <1>2, ListensCounts
<1>5. (d <=> soft /\ ~h.unscoped) /\ d \in BOOLEAN
  BY <1>1, <1>3 DEF Sighted, Memory, Statement
<1>6. key # 0 => NoOrs(WhereOf(n, s))
  BY <1>4, <1>5 DEF Saying
<1>7. Grown(n, o, s) /\ Narrowed(n, o, s, k, more)
  BY <1>3, <1>6, WithKeyNarrows
<1>7a. key = 0 => o = n
  BY DEF WithKey
<1> HIDE DEF o, more
<1>8. Grown(m, o, s)
  BY <1>3, <1>7, GrownTwice
<1>9. ASSUME NEW row \in Row PROVE Chosen(o, s, row) <=> Suits(h, key, 0, row)
  <2>1. Chosen(n, s, row) <=> row.is \in Means(AllWords(h)) /\ (d => ~row.gone)
    BY <1>1, <1>2, ListensSelects
  <2>2. Chosen(o, s, row) <=> Chosen(n, s, row) /\ row \in more
    BY <1>7 DEF Narrowed
  <2>3. row \in more <=> (key # 0 => row.id = key)
    BY DEF more
  <2>4. row.id > 0
    BY BoundsAssumption DEF Row, Ids
  <2>5. QED BY <1>5, <2>1, <2>2, <2>3, <2>4 DEF Suits
<1>10. Answers(m, s, h, key, 0, b) /\ b.mem = o
  BY <1>2, <1>8, <1>9, BuiltAnswers
<1> HIDE DEF b
<1>11. Counted(s, h, key, b)
  <2>1. o.stmts[s].softDelete = d
    <3>1. n.stmts[s] \in Statement /\ o.stmts[s] = [n.stmts[s] EXCEPT !.where = o.stmts[s].where]
      BY <1>3, <1>7 DEF Memory, Narrowed
    <3>2. QED BY <3>1 DEF Statement
  <2>2. Len(WhereOf(o, s)) = Len(WhereOf(n, s)) + k
    BY <1>7 DEF Narrowed
  <2> DEFINE len == Len(WhereOf(n, s))
  <2>3. /\ len \in Nat /\ (d => len > 0 /\ (len = 1 <=> AllWords(h) = <<>>))
        /\ ~d => (len = 0 <=> AllWords(h) = <<>>)
    BY <1>4
  <2> HIDE DEF len
  <2>4. MissingWhere(o, s, FALSE) <=> len + k <= (IF d THEN 1 ELSE 0)
    BY <2>1, <2>2 DEF MissingWhere, len
  <2>5. len + k <= (IF d THEN 1 ELSE 0) <=> AllWords(h) = <<>> /\ key = 0
    BY <1>5, <2>3
  <2>6. QED BY <1>10, <2>4, <2>5 DEF Counted
<1>12. key = 0 => Listens(soft, m, b.mem, s, h) /\ Sighted(soft, b.mem, s, h)
  BY <1>1, <1>7a, <1>10
<1>13. QED BY <1>0, <1>10, <1>11, <1>12

(* The same steps once a key or the last batch is among the conditions:    *)
(* they are all joined by AND then.                                        *)
Leaves(m, n, s, more) ==
    /\ Grown(m, n, s)
    /\ n.stmts[s].unscoped = m.stmts[s].unscoped
    /\ NoOrs(WhereOf(m, s)) => NoOrs(WhereOf(n, s))
    /\ \A row \in Row : Chosen(n, s, row) <=> Chosen(m, s, row) /\ row \in more

(* The clause of soft deletion after the key.                              *)
LEMMA LiveLeaves ==
    ASSUME NEW m, Memory(m), NEW s \in DOMAIN m.stmts, soft \in BOOLEAN,
           NEW more, more = {row \in Row : soft /\ ~m.stmts[s].unscoped /\ ~m.stmts[s].softDelete => ~row.gone}
    PROVE  /\ Leaves(m, Live(m, s), s, more)
           /\ soft /\ ~m.stmts[s].unscoped /\ ~m.stmts[s].softDelete =>
                 SoftDeleted(m, Live(m, s), s)
           /\ ~(soft /\ ~m.stmts[s].unscoped /\ ~m.stmts[s].softDelete) => Live(m, s) = m
<1> DEFINE n  == Live(m, s)
           st == m.stmts[s]
<1>1. st \in Statement
  BY DEF Memory
<1>2. CASE soft /\ ~st.unscoped /\ ~st.softDelete
  <2>1. n = SoftDeleteQuery(m, s)
    BY <1>2 DEF Live
  <2> HIDE DEF n
  <2>2. Grown(m, n, s) /\ SoftDeleted(m, n, s)
    BY <1>2, <2>1, SoftDeleteChosen
  <2>3. n.stmts[s].unscoped = st.unscoped
    <3>1. n.stmts[s] = [st EXCEPT !.where = n.stmts[s].where, !.softDelete = TRUE]
      BY <2>2 DEF SoftDeleted
    <3>2. QED
      <4> HIDE DEF st
      <4> QED BY <1>1, <3>1 DEF Statement
  <2>4. \A row \in Row : Chosen(n, s, row) <=> Chosen(m, s, row) /\ row \in more
    BY <1>2, <2>2 DEF SoftDeleted
  <2>5. NoOrs(WhereOf(n, s))
    BY <2>2 DEF SoftDeleted
  <2>6. Leaves(m, n, s, more)
    BY <2>2, <2>3, <2>4, <2>5 DEF Leaves
  <2>7. QED BY <1>2, <2>2, <2>6 DEF n
<1>3. CASE ~(soft /\ ~st.unscoped /\ ~st.softDelete)
  <2>1. n = m
    BY <1>1, <1>3 DEF Live, SoftDeleteQuery, Statement
  <2>2. \A row \in Row : row \in more
    BY <1>3
  <2>3. Leaves(m, m, s, more)
    BY <2>2, GrownSame DEF Leaves
  <2>4. QED BY <1>3, <2>1, <2>3
<1>4. QED BY <1>2, <1>3

(* The scopes after the key.                                               *)
LEMMA ScopesLeave ==
    ASSUME NEW m, Memory(m), NEW s \in DOMAIN m.stmts, NoOrs(WhereOf(m, s)), NEW g, Own(g, s)
    PROVE  /\ Leaves(m, ExecuteScopes(m, g), s,
                     {row \in Row : AllHold(m.arr, ScopeExprs(m.stmts[s].scopes), row)})
           /\ ExecuteScopes(m, g).stmts[s].softDelete = m.stmts[s].softDelete
<1> DEFINE scopes == m.stmts[s].scopes
           es == ScopeExprs(scopes)
           more == {row \in Row : AllHold(m.arr, es, row)}
           p  == [m EXCEPT !.stmts[s].scopes = <<>>]
           n  == ExecuteScopes(m, g)
<1>1. m.stmts[s] \in Statement /\ scopes \in Seq(Atoms)
  BY DEF Memory, Statement
<1>2. /\ Grown(m, p, s) /\ Scoped(m, p, s) /\ WhereOf(p, s) = WhereOf(m, s) /\ p.arr = m.arr
      /\ p.stmts[s].softDelete = m.stmts[s].softDelete
  BY Cleared
<1>3. /\ Within(m.arr, es) /\ NoOrs(es) /\ (es = <<>> <=> scopes = <<>>)
  BY <1>1, ScopesAre
<1>4. n = IF scopes = <<>> THEN p ELSE AddWhere(p, s, es)
  BY DEF ExecuteScopes, Own, ScopeExprs
<1>5. Memory(p) /\ s \in DOMAIN p.stmts /\ p.stmts[s] \in Statement
  BY <1>2 DEF Grown, Memory
<1>6. \A row : Chosen(p, s, row) <=> Chosen(m, s, row)
  BY <1>2 DEF Chosen
<1> HIDE DEF n, p, es, more
<1>7. p.stmts[s].unscoped = m.stmts[s].unscoped
  BY <1>1, <1>2 DEF Scoped, Statement
<1>8. CASE scopes = <<>>
  <2>1. n = p /\ es = <<>>
    BY <1>3, <1>4, <1>8
  <2>2. \A row \in Row : row \in more
    BY <2>1 DEF more, AllHold
  <2>3. Leaves(m, p, s, more)
    BY <1>2, <1>6, <1>7, <2>2 DEF Leaves
  <2>4. QED BY <1>2, <2>1, <2>3 DEF n, more, es
<1>9. CASE scopes # <<>>
  <2>1. n = AddWhere(p, s, es)
    BY <1>4, <1>9
  <2>2. Within(p.arr, es) /\ es # <<>> /\ NoOrs(es) /\ NoOrs(WhereOf(p, s))
    BY <1>2, <1>3, <1>9
  <2>3. /\ Grown(p, n, s) /\ Added(p, n, s, es) /\ NoOrs(WhereOf(n, s))
        /\ \A row : Chosen(n, s, row) <=> Chosen(p, s, row) /\ AllHold(p.arr, es, row)
    BY <1>5, <2>1, <2>2, AddWhereChosen
  <2>4. Grown(m, n, s)
    BY <1>2, <2>3, GrownTwice
  <2>5. /\ n.stmts[s].unscoped = m.stmts[s].unscoped
        /\ n.stmts[s].softDelete = m.stmts[s].softDelete
    <3>1. n.stmts[s] = [p.stmts[s] EXCEPT !.where = n.stmts[s].where]
      BY <2>3 DEF Added
    <3>2. n.stmts[s].unscoped = p.stmts[s].unscoped /\ n.stmts[s].softDelete = p.stmts[s].softDelete
      BY <1>5, <3>1 DEF Statement
    <3>3. QED BY <1>2, <1>7, <3>2
  <2>6. \A row \in Row : Chosen(n, s, row) <=> Chosen(m, s, row) /\ row \in more
    BY <1>2, <1>6, <2>3 DEF more
  <2>7. Leaves(m, n, s, more)
    BY <2>3, <2>4, <2>5, <2>6 DEF Leaves
  <2>8. QED BY <2>5, <2>7 DEF n, more, es
<1>10. QED BY <1>8, <1>9

(* The same for Delete, which adds the key first                           *)
(* (callbacks/delete.go:113).                                              *)
LEMMA DeleteOnAnswers ==
    ASSUME NEW m, Memory(m), NEW s, NEW h, Saying(h), soft \in BOOLEAN, Says(soft, m, s, h),
           NEW key \in Nat, key # 0, ~HasOr(h.words)
    PROVE  /\ Answers(m, s, h, key, 0, DeleteOn(m, s, key))
           /\ Counted(s, h, key, DeleteOn(m, s, key))
<1> DEFINE g == [clone |-> 0, stmt |-> s]
           p == ExecuteScopes(m, g)
           n == WithKey(p, s, key)
           o == Live(n, s)
           b == Built(o, s)
           keyed == {row \in Row : key # 0 => row.id = key}
           alive == {row \in Row : soft /\ ~n.stmts[s].unscoped /\ ~n.stmts[s].softDelete => ~row.gone}
<1>0. b = DeleteOn(m, s, key)
  BY DEF DeleteOn
<1>1. Own(g, s)
  BY DEF Own
<1>2. s \in DOMAIN m.stmts /\ (m.stmts[s].softDelete => soft /\ ~h.unscoped)
  BY DEF Says
<1> HIDE DEF g
<1>3. Listens(soft, m, p, s, h) /\ p.stmts[s].softDelete = m.stmts[s].softDelete
  BY <1>1, ScopesListen
<1> HIDE DEF p
<1>4. Grown(m, p, s) /\ Memory(p) /\ s \in DOMAIN p.stmts /\ p.stmts[s].unscoped = h.unscoped
      /\ p.stmts[s] \in Statement
  BY <1>2, <1>3 DEF Listens, Grown, Memory
<1>5. NoOrs(WhereOf(p, s)) /\ Len(WhereOf(p, s)) \in Nat
      /\ (p.stmts[s].softDelete => Len(WhereOf(p, s)) > 0)
  BY <1>2, <1>3, ListensCounts
<1>6. Grown(p, n, s) /\ Narrowed(p, n, s, 1, keyed)
  BY <1>4, <1>5, WithKeyNarrows
<1> HIDE DEF n, keyed
<1>7. /\ Memory(n) /\ s \in DOMAIN n.stmts /\ NoOrs(WhereOf(n, s))
      /\ n.stmts[s].unscoped = h.unscoped /\ n.stmts[s].softDelete = p.stmts[s].softDelete
      /\ Len(WhereOf(n, s)) = Len(WhereOf(p, s)) + 1
      /\ n.stmts[s] \in Statement
  <2>1. n.stmts[s] = [p.stmts[s] EXCEPT !.where = n.stmts[s].where]
    BY <1>6 DEF Narrowed
  <2>2. n.stmts[s].unscoped = p.stmts[s].unscoped /\ n.stmts[s].softDelete = p.stmts[s].softDelete
    BY <1>4, <2>1 DEF Statement
  <2>3. Memory(n) /\ s \in DOMAIN n.stmts /\ n.stmts[s] \in Statement
    BY <1>4, <1>6 DEF Grown, Memory
  <2>4. QED BY <1>4, <1>5, <1>6, <2>2, <2>3 DEF Narrowed
<1>8. /\ Leaves(n, o, s, alive)
      /\ soft /\ ~n.stmts[s].unscoped /\ ~n.stmts[s].softDelete => SoftDeleted(n, o, s)
      /\ ~(soft /\ ~n.stmts[s].unscoped /\ ~n.stmts[s].softDelete) => o = n
  BY <1>7, LiveLeaves
<1> HIDE DEF o, alive
<1>9. Grown(m, o, s)
  <2>1. Grown(m, n, s)
    BY <1>4, <1>6, GrownTwice
  <2>2. Grown(n, o, s)
    BY <1>8 DEF Leaves
  <2>3. QED BY <2>1, <2>2, GrownTwice
<1>10. ASSUME NEW row \in Row PROVE Chosen(o, s, row) <=> Suits(h, key, 0, row)
  <2>1. Chosen(p, s, row) <=> row.is \in Means(AllWords(h)) /\ (p.stmts[s].softDelete => ~row.gone)
    BY <1>2, <1>3, ListensSelects
  <2>2. Chosen(n, s, row) <=> Chosen(p, s, row) /\ row \in keyed
    BY <1>6 DEF Narrowed
  <2>3. Chosen(o, s, row) <=> Chosen(n, s, row) /\ row \in alive
    BY <1>8 DEF Leaves
  <2>4. row \in keyed <=> row.id = key
    BY DEF keyed
  <2>5. row \in alive <=> (soft /\ ~n.stmts[s].unscoped /\ ~n.stmts[s].softDelete => ~row.gone)
    BY DEF alive
  <2>6. row.id > 0
    BY DEF Row, Ids
  <2>7. QED BY <1>2, <1>3, <1>7, <2>1, <2>2, <2>3, <2>4, <2>5, <2>6 DEF Suits
<1>11. Answers(m, s, h, key, 0, b) /\ b.mem = o
  BY <1>2, <1>9, <1>10, BuiltAnswers
<1> HIDE DEF b
<1>12. ~MissingWhere(o, s, FALSE)
  <2>0. Len(WhereOf(o, s)) \in Nat
    <3>1. Memory(o) /\ s \in DOMAIN o.stmts
      BY <1>2, <1>9 DEF Grown
    <3>2. WhereOf(o, s) \in Seq(Expr)
      BY <3>1, WhereWithin DEF Within
    <3>3. QED BY <3>2
  <2>1. CASE soft /\ ~n.stmts[s].unscoped /\ ~n.stmts[s].softDelete
    <3>1. WhereOf(o, s) # <<>> /\ (Len(WhereOf(o, s)) = 1 <=> WhereOf(n, s) = <<>>)
      BY <1>8, <2>1 DEF SoftDeleted
    <3>2. WhereOf(n, s) # <<>>
      BY <1>5, <1>7
    <3>3. WhereOf(o, s) \in Seq(Expr)
      <4>1. Memory(o) /\ s \in DOMAIN o.stmts
        BY <1>2, <1>9 DEF Grown
      <4>2. QED BY <4>1, WhereWithin DEF Within
    <3>4. Len(WhereOf(o, s)) # 0
      BY <3>1, <3>3
    <3> DEFINE len == Len(WhereOf(o, s))
    <3>5. len \in Nat /\ len # 0 /\ len # 1
      BY <2>0, <3>1, <3>2, <3>4
    <3> HIDE DEF len
    <3>6. ~(len <= 1) /\ ~(len <= 0)
      BY <3>5
    <3>7. QED BY <3>6 DEF MissingWhere, len
  <2>2. CASE ~(soft /\ ~n.stmts[s].unscoped /\ ~n.stmts[s].softDelete)
    <3>1. o = n
      BY <1>8, <2>2
    <3> DEFINE len == Len(WhereOf(p, s))
               d   == p.stmts[s].softDelete
    <3>2. len \in Nat /\ (d => len > 0) /\ Len(WhereOf(o, s)) = len + 1 /\ o.stmts[s].softDelete = d
      BY <1>5, <1>7, <3>1
    <3> HIDE DEF len, d
    <3>3. ~(len + 1 <= (IF d THEN 1 ELSE 0))
      BY <3>2
    <3>4. QED BY <3>2, <3>3 DEF MissingWhere
  <2>3. QED BY <2>1, <2>2
<1>13. Counted(s, h, key, b)
  BY <1>11, <1>12 DEF Counted
<1>14. QED BY <1>0, <1>11, <1>13

(* Words without Or are told by conditions without Or.                     *)
LEMMA PlainlySaid ==
    ASSUME NEW m, Memory(m), NEW s \in DOMAIN m.stmts, NEW ws \in Seq(Word), Tell(m, s, ws), ~HasOr(ws)
    PROVE  NoOrs(WhereOf(m, s))
<1> DEFINE xs == WhereOf(m, s)
           d  == m.stmts[s].softDelete
<1>1. xs \in Seq(Expr) /\ Tells(m.arr, xs, d, ws)
  BY WhereWithin DEF Within, Tell
<1> HIDE DEF xs, d
<1>2. CASE d
  BY <1>1, <1>2 DEF Tells, TellsDeleted, xs
<1>3. CASE ~d
  <2>1. Alike(m.arr, xs, ws)
    BY <1>1, <1>3 DEF Tells
  <2>2. QED BY <1>1, <2>1, AlikeOrs DEF xs
<1>4. QED BY <1>2, <1>3

(* Whether all conditions hold does not change when there are more arrays. *)
LEMMA AllHoldSame ==
    ASSUME NEW a, NEW b, Arrays(a), Arrays(b), Extends(a, b), NEW exprs, Within(a, exprs), NEW row
    PROVE  AllHold(a, exprs, row) <=> AllHold(b, exprs, row)
<1>1. \A i \in DOMAIN exprs : Holds(a, exprs[i], row) = Holds(b, exprs[i], row)
  BY HoldsSame
<1>2. QED BY <1>1 DEF AllHold

(* A batch after the first one.                                            *)
LEMMA BatchAnswers ==
    ASSUME NEW m, Memory(m), NEW s, NEW h, Saying(h), soft \in BOOLEAN, Says(soft, m, s, h),
           ~HasOr(h.words), NEW last \in Nat,
           NEW a, a = AddWhere(m, s, << <<"after", last>> >>)
    PROVE  Answers(m, s, h, 0, last, QueryOn(a, s, 0))
<1> DEFINE g == [clone |-> 0, stmt |-> s]
           p == ExecuteScopes(m, g)
           q == ExecuteScopes(a, g)
           n == Live(q, s)
           b == Built(n, s)
           es == ScopeExprs(m.stmts[s].scopes)
           later == {row \in Row : row.id > last}
           scoped == {row \in Row : AllHold(a.arr, ScopeExprs(a.stmts[s].scopes), row)}
           plain  == {row \in Row : AllHold(m.arr, ScopeExprs(m.stmts[s].scopes), row)}
           alive == {row \in Row : soft /\ ~q.stmts[s].unscoped /\ ~q.stmts[s].softDelete => ~row.gone}
<1>0. b = QueryOn(a, s, 0)
  BY DEF QueryOn, WithKey
<1>1. Own(g, s)
  BY DEF Own
<1>2. /\ s \in DOMAIN m.stmts /\ (m.stmts[s].softDelete => soft /\ ~h.unscoped)
      /\ m.stmts[s].unscoped = h.unscoped /\ m.stmts[s] \in Statement /\ Tell(m, s, h.words)
      /\ h.words \in Seq(Word)
  BY DEF Says, FlagsKept, Memory, Saying
<1> HIDE DEF g
<1>3. NoOrs(WhereOf(m, s))
  BY <1>2, PlainlySaid
<1>4. Grown(m, a, s) /\ Narrowed(m, a, s, 1, later)
  BY <1>2, <1>3, AfterNarrows
<1>5. /\ Memory(a) /\ s \in DOMAIN a.stmts /\ NoOrs(WhereOf(a, s)) /\ Extends(m.arr, a.arr)
      /\ a.stmts[s].unscoped = h.unscoped /\ a.stmts[s].softDelete = m.stmts[s].softDelete
      /\ a.stmts[s].scopes = m.stmts[s].scopes
  <2>1. a.stmts[s] = [m.stmts[s] EXCEPT !.where = a.stmts[s].where]
    BY <1>4 DEF Narrowed
  <2>2. /\ a.stmts[s].unscoped = m.stmts[s].unscoped /\ a.stmts[s].softDelete = m.stmts[s].softDelete
        /\ a.stmts[s].scopes = m.stmts[s].scopes
    BY <1>2, <2>1 DEF Statement
  <2>3. Memory(a) /\ s \in DOMAIN a.stmts /\ Extends(m.arr, a.arr)
    BY <1>2, <1>4 DEF Grown
  <2>4. QED BY <1>2, <1>3, <1>4, <2>2, <2>3 DEF Narrowed
<1>6. Leaves(m, p, s, plain)
  BY <1>1, <1>2, <1>3, ScopesLeave
<1>7. Leaves(a, q, s, scoped) /\ q.stmts[s].softDelete = a.stmts[s].softDelete
  BY <1>1, <1>5, ScopesLeave
<1>8. Listens(soft, m, p, s, h) /\ p.stmts[s].softDelete = m.stmts[s].softDelete
  BY <1>1, ScopesListen
<1> HIDE DEF p, q
<1>9. Memory(q) /\ s \in DOMAIN q.stmts /\ q.stmts[s].unscoped = h.unscoped
  BY <1>5, <1>7 DEF Leaves, Grown
<1>10. Leaves(q, n, s, alive)
  BY <1>9, LiveLeaves
<1> HIDE DEF n, alive
<1>11. Grown(m, n, s)
  <2>1. Grown(a, q, s) /\ Grown(q, n, s)
    BY <1>7, <1>10 DEF Leaves
  <2>2. Grown(m, q, s)
    BY <1>4, <2>1, GrownTwice
  <2>3. QED BY <2>1, <2>2, GrownTwice
<1>12. ASSUME NEW row \in Row PROVE Chosen(n, s, row) <=> Suits(h, 0, last, row)
  <2>1. Chosen(p, s, row) <=> row.is \in Means(AllWords(h)) /\ (m.stmts[s].softDelete => ~row.gone)
    BY <1>2, <1>8, ListensSelects
  <2>2. Chosen(p, s, row) <=> Chosen(m, s, row) /\ row \in plain
    BY <1>6 DEF Leaves
  <2>3. Chosen(a, s, row) <=> Chosen(m, s, row) /\ row \in later
    BY <1>4 DEF Narrowed
  <2>4. Chosen(q, s, row) <=> Chosen(a, s, row) /\ row \in scoped
    BY <1>7 DEF Leaves
  <2>5. Chosen(n, s, row) <=> Chosen(q, s, row) /\ row \in alive
    BY <1>10 DEF Leaves
  <2>6. row \in scoped <=> row \in plain
    <3>1. m.stmts[s].scopes \in Seq(Atoms)
      BY <1>2 DEF Statement
    <3>2. Within(m.arr, es)
      BY <3>1, ScopesAre
    <3>3. Arrays(m.arr) /\ Arrays(a.arr)
      BY <1>5 DEF Memory
    <3> HIDE DEF es
    <3>4. AllHold(m.arr, es, row) <=> AllHold(a.arr, es, row)
      BY <1>5, <3>2, <3>3, AllHoldSame
    <3>5. QED BY <1>5, <3>4 DEF es
  <2>7. row \in later <=> row.id > last
    OBVIOUS
  <2>8. row \in alive <=> (soft /\ ~h.unscoped /\ ~m.stmts[s].softDelete => ~row.gone)
    BY <1>5, <1>7, <1>9 DEF alive
  <2> HIDE DEF scoped, plain, later
  <2>9. QED BY <1>2, <2>1, <2>2, <2>3, <2>4, <2>5, <2>6, <2>7, <2>8 DEF Suits
<1>13. Answers(m, s, h, 0, last, b)
  BY <1>2, <1>11, <1>12, BuiltAnswers
<1>14. QED
  <2> HIDE DEF b
  <2> QED BY <1>0, <1>13

-----------------------------------------------------------------------------
(* Handles and their statements.                                           *)

Handle == [clone : -1..2, stmt : Nat, allow : BOOLEAN, words : Seq(Word), scopes : Seq(Atoms),
           unscoped : BOOLEAN, asked : BOOLEAN]
Fresh(h) == h.words = <<>> /\ h.scopes = <<>> /\ h.unscoped = FALSE /\ h.asked = FALSE
(* n is m but for the statement s, which may be new, and for new arrays.   *)
Later(m, n, s) ==
    /\ Memory(n) /\ Extends(m.arr, n.arr)
    /\ DOMAIN n.stmts = DOMAIN m.stmts \cup {s}
    /\ \A t \in DOMAIN m.stmts : t # s => n.stmts[t] = m.stmts[t]

(* A new statement that then changes is a new statement.                   *)
LEMMA GrownLater ==
    ASSUME NEW m, NEW n, NEW o, NEW s, Later(m, n, s), Grown(n, o, s)
    PROVE  Later(m, o, s)
<1>1. Extends(m.arr, o.arr)
  BY DEF Later, Grown, Extends
<1>2. QED BY <1>1 DEF Later, Grown

(* A statement that says something is there.                               *)
LEMMA SaysTyped ==
    ASSUME NEW sd, NEW m, NEW s, NEW h, Says(sd, m, s, h)
    PROVE  s \in DOMAIN m.stmts
BY DEF Says

(* Who has the same statement in a memory with more arrays says the same.  *)
LEMMA SaysSame ==
    ASSUME NEW sd, NEW m, NEW n, NEW s, NEW t, NEW h, Says(sd, m, s, h), Memory(m), Memory(n),
           \/ Extends(m.arr, n.arr)
           \/ Extends(n.arr, m.arr),
           t \in DOMAIN n.stmts, n.stmts[t] = m.stmts[s]
    PROVE  Says(sd, n, t, h)
<1> DEFINE xs == WhereOf(m, s)
           d  == m.stmts[s].softDelete
           ws == h.words
<1>1. s \in DOMAIN m.stmts
  BY DEF Says
<1>2. /\ Within(m.arr, xs) /\ (xs = <<>> <=> m.stmts[s].where = NoArray)
      /\ m.stmts[s].where # NoArray => /\ m.stmts[s].where \in DOMAIN m.arr
                                       /\ xs = m.arr[m.stmts[s].where]
  BY <1>1, WhereWithin
<1>3. /\ Within(n.arr, WhereOf(n, t)) /\ (WhereOf(n, t) = <<>> <=> n.stmts[t].where = NoArray)
      /\ n.stmts[t].where # NoArray => /\ n.stmts[t].where \in DOMAIN n.arr
                                       /\ WhereOf(n, t) = n.arr[n.stmts[t].where]
  BY WhereWithin
<1>4. WhereOf(n, t) = xs
  <2>1. CASE m.stmts[s].where = NoArray
    BY <1>2, <1>3, <2>1
  <2>2. CASE m.stmts[s].where # NoArray
    <3> DEFINE w == m.stmts[s].where
    <3>1. w \in DOMAIN m.arr /\ w \in DOMAIN n.arr /\ xs = m.arr[w] /\ WhereOf(n, t) = n.arr[w]
      BY <1>2, <1>3, <2>2
    <3> HIDE DEF w, xs
    <3>2. n.arr[w] = m.arr[w]
      BY <3>1 DEF Extends
    <3>3. QED BY <3>1, <3>2
  <2>3. QED BY <2>1, <2>2
<1>5. Arrays(m.arr) /\ Arrays(n.arr)
  BY DEF Memory
<1>6. Tells(m.arr, xs, d, ws)
  BY DEF Says, Tell
<1>7. n.stmts[t].softDelete = d
  OBVIOUS
<1>8. Within(n.arr, xs)
  BY <1>3, <1>4
<1> HIDE DEF xs, d, ws
<1>9. Tells(n.arr, xs, d, ws)
  <2>1. CASE Extends(m.arr, n.arr)
    BY <1>2, <1>5, <1>6, <2>1, TellsSame
  <2>2. CASE Extends(n.arr, m.arr)
    BY <1>5, <1>6, <1>8, <2>2, TellsSame
  <2>3. QED BY <2>1, <2>2
<1>10. Tell(n, t, h.words)
  BY <1>4, <1>7, <1>9 DEF Tell, ws
<1>11. QED BY <1>10 DEF Says, FlagsKept

(* The others say what they said when there is a new statement.            *)
LEMMA SaysLater ==
    ASSUME NEW sd, NEW m, NEW n, NEW s, NEW t, NEW h, Says(sd, m, t, h), Memory(m), Later(m, n, s), t # s
    PROVE  Says(sd, n, t, h)
<1>1. t \in DOMAIN m.stmts /\ t \in DOMAIN n.stmts /\ n.stmts[t] = m.stmts[t]
  BY DEF Says, Later
<1>2. Memory(n) /\ Extends(m.arr, n.arr)
  BY DEF Later
<1>3. QED BY <1>1, <1>2, SaysSame

(* A new statement.                                                        *)
PutStmt(m, s, st) == [m EXCEPT !.stmts = Put(@, s, st)]
Opened(m, n, s, st) ==
    /\ Later(m, n, s) /\ s \notin DOMAIN m.stmts /\ s \in Nat
    /\ n.stmts[s] = st
(* A number that was free gets a statement (gorm.go:432).                  *)
LEMMA NewStatement ==
    ASSUME NEW m, Memory(m), NEW s, s = FreeId(m.stmts), NEW st, Pointing(m.arr, st)
    PROVE  Opened(m, PutStmt(m, s, st), s, st)
<1> DEFINE n == PutStmt(m, s, st)
           stmts == m.stmts
           new   == Put(stmts, s, st)
<1>1. s \in Nat \ {0} /\ s \notin DOMAIN stmts
  BY FreeIdProperty DEF Memory
<1>2. n.arr = m.arr /\ n.stmts = new /\ n = [arr |-> n.arr, stmts |-> n.stmts]
  BY DEF Memory, PutStmt
<1> HIDE DEF n
<1>3. stmts \in [DOMAIN stmts -> Statement] /\ st \in Statement /\ IsFiniteSet(DOMAIN stmts)
      /\ DOMAIN stmts \subseteq Nat \ {0}
  BY DEF Memory, Pointing
<1> HIDE DEF stmts
<1>4. /\ DOMAIN new = DOMAIN stmts \cup {s} /\ new[s] = st
      /\ \A x \in DOMAIN stmts : x # s => new[x] = stmts[x]
  BY DEF Put
<1>5. new \in [DOMAIN stmts \cup {s} -> Statement]
  BY <1>3, PutType
<1>6. IsFiniteSet(DOMAIN stmts \cup {s})
  BY <1>3, FS_AddElement
<1> HIDE DEF new
<1>7. \A t \in DOMAIN new : {new[t].where} \ {NoArray} \subseteq DOMAIN m.arr
  <2> SUFFICES ASSUME NEW t \in DOMAIN new PROVE {new[t].where} \ {NoArray} \subseteq DOMAIN m.arr
    OBVIOUS
  <2>1. CASE t = s
    BY <1>4, <2>1 DEF Pointing
  <2>2. CASE t # s
    <3>1. t \in DOMAIN stmts /\ new[t] = stmts[t]
      BY <1>4, <2>2
    <3>2. QED BY <3>1 DEF Memory, WhereIn, stmts
  <2>3. QED BY <2>1, <2>2
<1>8. Memory(n)
  <2>1. Arrays(n.arr)
    BY <1>2 DEF Memory
  <2>2. DOMAIN n.stmts \subseteq Nat \ {0}
    BY <1>1, <1>2, <1>3, <1>4
  <2>3. \A t \in DOMAIN n.stmts : WhereIn(n, t) \subseteq DOMAIN n.arr
    BY <1>2, <1>7 DEF WhereIn
  <2>4. QED BY <1>2, <1>4, <1>5, <1>6, <2>1, <2>2, <2>3 DEF Memory
<1>9. Extends(m.arr, n.arr)
  BY <1>2 DEF Extends
<1>10. QED BY <1>1, <1>2, <1>4, <1>8, <1>9 DEF Later, stmts, Opened, n

Instanced(sd, m, h, i) ==
    /\ Later(m, i.mem, i.stmt)
    /\ Says(sd, i.mem, i.stmt, h)
    /\ h.clone # 0 => i.stmt \notin DOMAIN m.stmts
    /\ h.clone = 0 => i.mem = m /\ i.stmt = h.stmt
    /\ i.stmt \in Nat

(* A new statement says nothing.                                           *)
LEMMA NewSays ==
    ASSUME NEW sd, NEW n, NEW s \in DOMAIN n.stmts, n.stmts[s] = NewStmt, NEW h, Fresh(h)
    PROVE  Says(sd, n, s, h)
<1>1. WhereOf(n, s) = <<>> /\ ~n.stmts[s].softDelete /\ h.words = <<>>
  BY DEF WhereOf, NewStmt, Fresh
<1>2. Tell(n, s, h.words)
  BY <1>1, AlikeNothing DEF Tell, Tells
<1>3. n.stmts[s].unscoped = FALSE /\ n.stmts[s].scopes = <<>> /\ n.stmts[s].softDelete = FALSE
  BY DEF NewStmt
<1>4. FlagsKept(n, s, h)
  BY <1>3 DEF FlagsKept, Fresh
<1>5. QED BY <1>2, <1>3, <1>4 DEF Says

(* Nothing new at all.                                                     *)
LEMMA LaterSame ==
    ASSUME NEW m, Memory(m), NEW s \in DOMAIN m.stmts
    PROVE  Later(m, m, s)
BY DEF Later, Extends

(* getInstance leaves all other statements alone, and what it returns says *)
(* what the handle says (gorm.go:432).                                     *)
LEMMA GetInstanceSays ==
    ASSUME NEW m, Memory(m), NEW h \in Handle, h.clone # -1,
           h.clone = 1 => Fresh(h), NEW sd, h.clone # 1 => Says(sd, m, h.stmt, h)
    PROVE  Instanced(sd, m, h, GetInstance(m, h))
<1> DEFINE i == GetInstance(m, h)
           s == FreeId(m.stmts)
           st == IF h.clone = 1 THEN NewStmt ELSE m.stmts[h.stmt]
           n  == PutStmt(m, s, st)
<1>1. CASE h.clone = 0
  <2>1. i.mem = m /\ i.stmt = h.stmt /\ Says(sd, m, h.stmt, h) /\ h.stmt \in Nat
    BY <1>1 DEF GetInstance, Handle
  <2>2. Later(m, m, h.stmt)
    BY <2>1, SaysTyped, LaterSame
  <2>3. QED BY <1>1, <2>1, <2>2 DEF Instanced
<1>2. CASE h.clone # 0
  <2>1. i.mem = n /\ i.stmt = s
    BY <1>2 DEF GetInstance, PutStmt
  <2>2. Pointing(m.arr, st)
    <3>1. CASE h.clone = 1
      BY <3>1 DEF Pointing, NewStmt, Statement, NoArray
    <3>2. CASE h.clone # 1
      <4>1. h.stmt \in DOMAIN m.stmts
        BY <3>2, SaysTyped
      <4>2. m.stmts[h.stmt] \in Statement /\ WhereIn(m, h.stmt) \subseteq DOMAIN m.arr
        BY <4>1 DEF Memory
      <4>3. QED BY <3>2, <4>2 DEF Pointing, WhereIn
    <3>3. QED BY <3>1, <3>2
  <2> HIDE DEF st, s
  <2>2a. s = FreeId(m.stmts)
    BY DEF s
  <2>2b. Opened(m, n, s, st)
    BY <2>2, <2>2a, NewStatement
  <2> HIDE DEF n
  <2>3. /\ Later(m, n, s) /\ s \notin DOMAIN m.stmts /\ s \in Nat
        /\ n.stmts[s] = st
    BY <2>2b DEF Opened
  <2>4. Memory(n) /\ s \in DOMAIN n.stmts /\ Extends(m.arr, n.arr)
    BY <2>3 DEF Later
  <2>5. Says(sd, n, s, h)
    <3>1. CASE h.clone = 1
      BY <2>3, <2>4, <3>1, NewSays DEF st
    <3>2. CASE h.clone # 1
      <4>1. n.stmts[s] = m.stmts[h.stmt]
        BY <2>3, <3>2 DEF st
      <4>2. QED BY <2>4, <3>2, <4>1, SaysSame
    <3>3. QED BY <3>1, <3>2
  <2>6. QED BY <1>2, <2>1, <2>3, <2>5 DEF Instanced
<1>3. QED BY <1>1, <1>2

(* The collector takes nothing that is reached.                            *)
LEMMA SweptKeeps ==
    ASSUME NEW m, Memory(m), NEW roots \in SUBSET DOMAIN m.stmts
    PROVE  /\ Memory(Swept(m, roots)) /\ DOMAIN Swept(m, roots).stmts = roots
           /\ \A sd, t, h : t \in roots /\ Says(sd, m, t, h) => Says(sd, Swept(m, roots), t, h)
<1> DEFINE S    == UNION {WhereIn(m, s) : s \in roots}
           C    == Reached(m.arr, Nested, S)
           left == [i \in C |-> m.arr[i]]
           n    == Swept(m, roots)
<1>1. n.arr = left /\ n.stmts = [s \in roots |-> m.stmts[s]] /\ n = [arr |-> n.arr, stmts |-> n.stmts]
  BY DEF Swept
<1>2. Arrays(m.arr) /\ \A i \in DOMAIN m.arr : Refs(m.arr[i], Nested) \subseteq DOMAIN m.arr
  BY DEF Memory, Arrays, Within
<1>3. S \in SUBSET DOMAIN m.arr
  BY DEF Memory
<1> HIDE DEF S, n
<1>4. C \subseteq DOMAIN m.arr /\ S \subseteq C /\ \A i \in C : Refs(m.arr[i], Nested) \subseteq C
  BY <1>2, <1>3, ReachedClosed
<1> HIDE DEF C
<1>5. Arrays(left) /\ Extends(left, m.arr)
  BY <1>2, <1>4, FewerArrays
<1>6. DOMAIN left = C
  OBVIOUS
<1> HIDE DEF left
<1>7. Memory(n)
  <2>1. IsFiniteSet(roots)
    BY FS_Subset DEF Memory
  <2>2. DOMAIN n.stmts = roots /\ roots \subseteq Nat \ {0}
    BY <1>1 DEF Memory
  <2>3. n.stmts \in [roots -> Statement]
    BY <1>1 DEF Memory
  <2>4. \A t \in roots : WhereIn(n, t) \subseteq C
    <3> SUFFICES ASSUME NEW t \in roots PROVE WhereIn(n, t) \subseteq C
      OBVIOUS
    <3>1. WhereIn(n, t) = WhereIn(m, t)
      BY <1>1 DEF WhereIn
    <3>2. WhereIn(m, t) \subseteq S
      BY DEF S
    <3>3. QED BY <1>4, <3>1, <3>2
  <2>5. QED BY <1>1, <1>5, <1>6, <2>1, <2>2, <2>3, <2>4 DEF Memory
<1>8. ASSUME NEW sd, NEW t \in roots, NEW h, Says(sd, m, t, h)
      PROVE  Says(sd, n, t, h)
  <2>1. t \in DOMAIN n.stmts /\ n.stmts[t] = m.stmts[t]
    BY <1>1
  <2>2. Extends(n.arr, m.arr)
    BY <1>1, <1>5
  <2>3. QED BY <1>7, <1>8, <2>1, <2>2, SaysSame
<1>9. DOMAIN n.stmts = roots
  BY <1>1
<1>10. QED BY <1>7, <1>8, <1>9 DEF n

-----------------------------------------------------------------------------
(* All the handles: each says what was said on it, and the statement of a  *)
(* handle of clone 0 is its own.                                           *)

HandleOk(sd, m, h) ==
    /\ h \in Handle /\ Spoken(h.words)
    /\ h.clone = 1 => Fresh(h)
    /\ h.clone \in {0, 2} => Says(sd, m, h.stmt, h)
Apart(h, k) == h.clone = 0 /\ k.clone \in {0, 2} => h.stmt # k.stmt
Handles(sd, m, hs) ==
    /\ hs \in [1..MaxHandles -> Handle]
    /\ \A h \in 1..MaxHandles : HandleOk(sd, m, hs[h])
    /\ \A h, k \in 1..MaxHandles : h # k => Apart(hs[h], hs[k])
(* The statements that are not in S are as they were.                      *)
Untouched(m, n, S) ==
    /\ Memory(n) /\ Extends(m.arr, n.arr)
    /\ \A t \in DOMAIN m.stmts \ S : t \in DOMAIN n.stmts /\ n.stmts[t] = m.stmts[t]

(* Who is not the new statement is untouched.                              *)
LEMMA LaterUntouched ==
    ASSUME NEW m, NEW n, NEW s, Later(m, n, s)
    PROVE  Untouched(m, n, {s})
BY DEF Later, Untouched

(* A handle that is not in use says nothing.                               *)
LEMMA UnusedOk ==
    ASSUME NEW sd, NEW m
    PROVE  HandleOk(sd, m, Unused) /\ Unused \in Handle
<1>1. <<>> \in Seq(Word) /\ <<>> \in Seq(Atoms) /\ 0 \in Nat /\ -1 \in -1..2
  OBVIOUS
<1>2. Unused \in Handle
  BY <1>1 DEF Unused, Handle
<1>3. QED BY <1>2 DEF HandleOk, Unused, Spoken

(* Every handle says words.                                                *)
LEMMA HandleSaying ==
    ASSUME NEW h \in Handle, Spoken(h.words)
    PROVE  Saying(h)
BY DEF Handle, Saying

(* A statement that is untouched says what it said.                        *)
LEMMA SaysUntouched ==
    ASSUME NEW sd, NEW m, NEW n, NEW S, NEW t, NEW h, Says(sd, m, t, h), Memory(m),
           Untouched(m, n, S), t \notin S
    PROVE  Says(sd, n, t, h)
<1>1. t \in DOMAIN m.stmts /\ t \in DOMAIN n.stmts /\ n.stmts[t] = m.stmts[t]
  BY DEF Says, Untouched
<1>2. Memory(n) /\ Extends(m.arr, n.arr)
  BY DEF Untouched
<1>3. QED BY <1>1, <1>2, SaysSame

(* One handle changes, some others may be given up.                        *)
Spared(hs, new, t, S) ==
    \A k \in 1..MaxHandles : k # t =>
        \/ new[k] = hs[k] /\ (hs[k].clone \in {0, 2} => hs[k].stmt \notin S)
        \/ new[k] = Unused
Alone(new, t) ==
    \A k \in 1..MaxHandles : t \in 1..MaxHandles /\ k # t => Apart(new[k], new[t]) /\ Apart(new[t], new[k])
(* All handles still say what was said on them when one of them changes    *)
(* with its statement.                                                     *)
LEMMA HandlesBut ==
    ASSUME NEW sd, NEW m, Memory(m), NEW hs, Handles(sd, m, hs), NEW n, NEW S, Untouched(m, n, S),
           NEW new \in [1..MaxHandles -> Handle], NEW t,
           Spared(hs, new, t, S),
           t \in 1..MaxHandles => HandleOk(sd, n, new[t]),
           Alone(new, t)
    PROVE  Handles(sd, n, new)
<1>1. ASSUME NEW k \in 1..MaxHandles, k # t PROVE HandleOk(sd, n, new[k])
  <2>1. CASE new[k] = Unused
    BY <2>1, UnusedOk
  <2>2. CASE new[k] = hs[k] /\ (hs[k].clone \in {0, 2} => hs[k].stmt \notin S)
    <3>1. HandleOk(sd, m, hs[k])
      BY DEF Handles
    <3> DEFINE h == hs[k]
    <3>2. new[k] = h /\ (h.clone \in {0, 2} => h.stmt \notin S)
      BY <2>2
    <3>3. HandleOk(sd, m, h)
      BY <3>1
    <3> HIDE DEF h
    <3>4. h.clone \in {0, 2} => Says(sd, n, h.stmt, h)
      BY <3>2, <3>3, SaysUntouched DEF HandleOk
    <3>5. HandleOk(sd, n, h)
      BY <3>3, <3>4 DEF HandleOk
    <3>6. QED BY <3>2, <3>5
  <2>3. QED BY <1>1, <2>1, <2>2 DEF Spared
<1>2. ASSUME NEW h \in 1..MaxHandles, NEW k \in 1..MaxHandles, h # k PROVE Apart(new[h], new[k])
  <2>1. CASE h = t \/ k = t
    BY <1>2, <2>1 DEF Alone
  <2>2. CASE h # t /\ k # t
    <3>1. CASE new[h] = Unused \/ new[k] = Unused
      BY <3>1 DEF Apart, Unused
    <3>2. CASE new[h] = hs[h] /\ new[k] = hs[k]
      BY <1>2, <3>2 DEF Handles
    <3>3. QED BY <2>2, <3>1, <3>2 DEF Spared
  <2>3. QED BY <2>1, <2>2
<1>3. QED BY <1>1, <1>2 DEF Handles

(* The collector changes nothing for the handles.                          *)
LEMMA KeptKeeps ==
    ASSUME NEW sd, NEW m, Memory(m), NEW hs, Handles(sd, m, hs)
    PROVE  Memory(Kept(m, hs)) /\ Handles(sd, Kept(m, hs), hs)
<1> DEFINE roots == {hs[h].stmt : h \in {k \in 1..MaxHandles : hs[k].clone \in {0, 2}}}
           n == Swept(m, roots)
<1>1. \A h \in 1..MaxHandles : hs[h].clone \in {0, 2} => Says(sd, m, hs[h].stmt, hs[h])
  BY DEF Handles, HandleOk
<1>2. roots \in SUBSET DOMAIN m.stmts
  <2>1. \A h \in 1..MaxHandles : hs[h].clone \in {0, 2} => hs[h].stmt \in DOMAIN m.stmts
    BY <1>1, SaysTyped
  <2>2. QED BY <2>1
<1>3. Kept(m, hs) = n
  BY DEF Kept
<1>4. \A h \in 1..MaxHandles : hs[h].clone \in {0, 2} => hs[h].stmt \in roots
  OBVIOUS
<1> HIDE DEF roots
<1>5. Memory(n) /\ \A s, t, h : t \in roots /\ Says(s, m, t, h) => Says(s, n, t, h)
  BY <1>2, SweptKeeps
<1> HIDE DEF n
<1>6. \A h \in 1..MaxHandles : HandleOk(sd, n, hs[h])
  BY <1>1, <1>4, <1>5 DEF Handles, HandleOk
<1>7. QED BY <1>3, <1>5, <1>6 DEF Handles

(* There is a handle to give out.                                          *)
LEMMA LeastFree ==
    ASSUME Free # {}
    PROVE  Least(Free) \in 1..MaxHandles /\ handles[Least(Free)].clone = -1
<1>1. Free \in SUBSET Nat
  BY DEF Free
<1>2. Least(Free) \in Free
  BY <1>1, LeastProperty
<1>3. QED BY <1>2 DEF Free

(* Chain methods: what the statement says in the end is what said says.    *)
Drops(d) == IF handles[d].clone = 0 THEN {handles[d].stmt} ELSE {}
(* A chain method keeps what holds of the handles.                         *)
LEMMA ChainedKeeps ==
    ASSUME Memory(mem), soft \in BOOLEAN, Handles(soft, mem, handles),
           NEW h \in 1..MaxHandles, handles[h].clone # -1, NEW i, Instanced(soft, mem, handles[h], i),
           NEW drop \in 1..MaxHandles, NEW m, Untouched(mem, m, {i.stmt} \cup Drops(drop)),
           NEW said \in Handle, Spoken(said.words),
           Says(soft, m, i.stmt, said),
           Chained(h, m, i.stmt, said, drop)
    PROVE  Memory(mem') /\ Handles(soft', mem', handles')
<1> DEFINE s == i.stmt
           dropped == [handles EXCEPT ![drop] = IF @.clone = 0 THEN Unused ELSE @]
           t == IF handles[h].clone = 0 THEN h ELSE Least(Free)
           new == [said EXCEPT !.clone = 0, !.stmt = s]
           S == {s} \cup Drops(drop)
<1>1. /\ handles[h].clone = 0 \/ Free # {}
      /\ handles' = [dropped EXCEPT ![t] = new]
      /\ mem' = Kept(m, handles') /\ soft' = soft
  BY DEF Chained
<1>2. handles \in [1..MaxHandles -> Handle]
  BY DEF Handles
<1>3. t \in 1..MaxHandles /\ (handles[h].clone = 0 => t = h)
  BY <1>1, LeastFree
<1>4. s \in Nat
  BY DEF Instanced
<1>5. new \in Handle /\ new.clone = 0 /\ new.stmt = s /\ Says(soft, m, s, new) /\ Spoken(new.words)
  <2>1. PICK u : u = new
    OBVIOUS
  <2> HIDE DEF s
  <2>1a. /\ u.clone = 0 /\ u.stmt = s /\ u.words = said.words /\ u.scopes = said.scopes
         /\ u.unscoped = said.unscoped /\ u.asked = said.asked /\ u.allow = said.allow
    BY <2>1 DEF Handle
  <2>1b. 0 \in -1..2
    OBVIOUS
  <2>1c. u \in Handle
    BY <1>4, <2>1, <2>1b DEF Handle
  <2>2. /\ u.clone = 0 /\ u.stmt = s /\ u.words = said.words /\ u.scopes = said.scopes
        /\ u.unscoped = said.unscoped /\ u.asked = said.asked /\ u.allow = said.allow /\ u \in Handle
    BY <2>1a, <2>1c
  <2> HIDE DEF new
  <2>3. Says(soft, m, s, u)
    BY <2>2 DEF Says, FlagsKept, s
  <2>4. QED BY <2>1, <2>2, <2>3
<1> HIDE DEF new, t, S
<1>6. ASSUME NEW k \in 1..MaxHandles, k # t
      PROVE  \/ handles'[k] = handles[k] /\ (handles[k].clone \in {0, 2} => handles[k].stmt \notin S)
             \/ handles'[k] = Unused
  <2>1. handles'[k] = dropped[k]
    BY <1>1, <1>2, <1>6
  <2>2. CASE k = drop /\ handles[drop].clone = 0
    BY <1>2, <2>1, <2>2
  <2>3. CASE k # drop \/ handles[drop].clone # 0
    <3>1. handles'[k] = handles[k]
      BY <1>2, <2>1, <2>3
    <3>2. ASSUME handles[k].clone \in {0, 2} PROVE handles[k].stmt \notin S
      <4>1. handles[k].stmt # s
        <5>1. CASE handles[h].clone = 0
          <6>1. t = h /\ s = handles[h].stmt
            BY <1>3, <5>1 DEF Instanced, t
          <6>2. Apart(handles[h], handles[k])
            BY <1>6, <6>1 DEF Handles
          <6>3. QED BY <3>2, <5>1, <6>1, <6>2 DEF Apart
        <5>2. CASE handles[h].clone # 0
          <6>1. s \notin DOMAIN mem.stmts
            BY <5>2 DEF Instanced
          <6>2. Says(soft, mem, handles[k].stmt, handles[k])
            BY <3>2 DEF Handles, HandleOk
          <6>3. handles[k].stmt \in DOMAIN mem.stmts
            BY <6>2, SaysTyped
          <6>4. QED BY <6>1, <6>3
        <5>3. QED BY <5>1, <5>2
      <4>2. handles[k].stmt \notin Drops(drop)
        <5>1. CASE handles[drop].clone = 0
          <6>1. Apart(handles[drop], handles[k])
            BY <2>3, <5>1 DEF Handles
          <6>2. QED BY <3>2, <5>1, <6>1 DEF Apart, Drops
        <5>2. CASE handles[drop].clone # 0
          BY <5>2 DEF Drops
        <5>3. QED BY <5>1, <5>2
      <4>3. QED BY <4>1, <4>2 DEF S
    <3>3. QED BY <3>1, <3>2
  <2>4. QED BY <2>2, <2>3
<1>7. handles'[t] = new /\ handles' \in [1..MaxHandles -> Handle]
  <2>1. dropped \in [1..MaxHandles -> Handle]
    BY <1>2, UnusedOk
  <2>2. QED BY <1>1, <1>3, <1>5, <2>1
<1>8. HandleOk(soft, m, handles'[t])
  BY <1>5, <1>7 DEF HandleOk
<1>9. ASSUME NEW k \in 1..MaxHandles, k # t
      PROVE  Apart(handles'[k], handles'[t]) /\ Apart(handles'[t], handles'[k])
  <2>1. CASE handles'[k] = Unused
    BY <1>5, <1>7, <2>1 DEF Apart, Unused
  <2>2. CASE handles'[k] = handles[k] /\ (handles[k].clone \in {0, 2} => handles[k].stmt \notin S)
    <3>1. s \in S
      BY DEF S
    <3>2. QED BY <1>5, <1>7, <2>2, <3>1 DEF Apart
  <2>3. QED BY <1>6, <1>9, <2>1, <2>2
<1>10. Untouched(mem, m, S) /\ Memory(m)
  BY DEF S, Untouched
<1> DEFINE hs == handles'
<1>11. Handles(soft, m, hs)
  <2>1. hs \in [1..MaxHandles -> Handle] /\ HandleOk(soft, m, hs[t])
    BY <1>7, <1>8
  <2>1a. Spared(handles, hs, t, S)
    BY <1>6 DEF Spared
  <2>1b. Alone(hs, t)
    BY <1>9 DEF Alone
  <2> HIDE DEF hs
  <2>2. QED BY <1>10, <2>1, <2>1a, <2>1b, HandlesBut
<1>12. Memory(Kept(m, hs)) /\ Handles(soft, Kept(m, hs), hs)
  <2> HIDE DEF hs
  <2> QED BY <1>10, <1>11, KeptKeeps
<1>13. QED BY <1>1, <1>12

-----------------------------------------------------------------------------
(* Where, Or and Not: one more word, and an expression that says it.       *)

Said1(arr, e, w) == \A row \in Row : Holds(arr, e, row) <=> TrueOf(w, row.is)
More(h, w)       == [h EXCEPT !.words = Append(@, w)]
Joins(w)         == IF w[1] = "or" THEN "or" ELSE "where"

(* Appending is putting a sequence of one behind.                          *)
LEMMA AppendIs ==
    ASSUME NEW S, NEW s \in Seq(S), NEW x \in S
    PROVE  Append(s, x) = s \o <<x>> /\ <<x>> \in Seq(S)
<1>1. <<x>> \in Seq(S) /\ Len(<<x>>) = 1 /\ <<x>>[1] = x
  OBVIOUS
<1> DEFINE u == <<x>>
<1> HIDE DEF u
<1>2. /\ s \o u \in Seq(S) /\ Len(s \o u) = Len(s) + Len(u)
      /\ \A i \in 1..Len(s) : (s \o u)[i] = s[i]
      /\ \A i \in 1..Len(u) : (s \o u)[Len(s) + i] = u[i]
  BY <1>1, Concat DEF u
<1>3. /\ Append(s, x) \in Seq(S) /\ Len(Append(s, x)) = Len(s) + 1
      /\ \A i \in 1..Len(s) : Append(s, x)[i] = s[i]
      /\ Append(s, x)[Len(s) + 1] = x
  OBVIOUS
<1>4. Len(u) = 1 /\ u[1] = x
  BY <1>1 DEF u
<1>5. s \o u = Append(s, x)
  BY <1>2, <1>3, <1>4, SeqEqual
<1>6. QED BY <1>1, <1>5 DEF u

(* What is said then is again something that can be said.                  *)
LEMMA OneMore ==
    ASSUME NEW h, Saying(h), NEW w \in Word, w[1] = "or" => h.words # <<>>
    PROVE  /\ Append(h.words, w) = h.words \o <<w>> /\ h.words \o <<w>> \in Seq(Word)
           /\ Spoken(h.words \o <<w>>) /\ <<w>> \in Seq(Word)
           /\ HasOr(<<w>>) <=> w[1] = "or"
           /\ HasOr(h.words \o <<w>>) <=> HasOr(h.words) \/ w[1] = "or"
<1> DEFINE ws == h.words
           us == <<w>>
<1>1. ws \in Seq(Word) /\ Spoken(ws)
  BY DEF Saying
<1>2. us \in Seq(Word) /\ (HasOr(us) <=> w[1] = "or") /\ (Spoken(us) <=> w[1] # "or") /\ us # <<>>
  BY DEF HasOr, Spoken
<1>3. Append(ws, w) = ws \o us
  BY <1>1, AppendIs
<1> HIDE DEF ws, us
<1>4. ws \o us \in Seq(Word) /\ (HasOr(ws \o us) <=> HasOr(ws) \/ HasOr(us))
      /\ (Spoken(ws) /\ Spoken(us) => Spoken(ws \o us))
      /\ (ws # <<>> /\ Spoken(ws) => Spoken(ws \o us))
  BY <1>1, <1>2, WordsConcat
<1>5. Spoken(ws \o us)
  <2>1. CASE w[1] = "or"
    BY <1>1, <1>4, <2>1 DEF ws
  <2>2. CASE w[1] # "or"
    BY <1>1, <1>2, <1>4, <2>2
  <2>3. QED BY <2>1, <2>2
<1>6. QED BY <1>2, <1>3, <1>4, <1>5 DEF ws, us

(* With the word among the conditions the statement says what h does then. *)
LEMMA WordAdded ==
    ASSUME NEW m, Memory(m), NEW sd, NEW s, NEW h, Saying(h), Says(sd, m, s, h),
           NEW w \in Word, w[1] = "or" => h.words # <<>>,
           sd /\ h.asked => w[1] # "or" /\ ~HasOr(h.words),
           NEW e, Within(m.arr, <<e>>), AlikeOne(m.arr, e, w)
    PROVE  /\ Grown(m, AddWhere(m, s, <<e>>), s)
           /\ Says(sd, AddWhere(m, s, <<e>>), s, More(h, w))
<1> DEFINE es == <<e>>
           us == <<w>>
           ws == h.words
           n  == AddWhere(m, s, es)
<1>1. s \in DOMAIN m.stmts /\ m.stmts[s] \in Statement
  BY DEF Says, Memory
<1>2. /\ Append(ws, w) = ws \o us /\ ws \o us \in Seq(Word)
      /\ Spoken(ws \o us) /\ us \in Seq(Word)
      /\ HasOr(us) <=> w[1] = "or"
      /\ HasOr(ws \o us) <=> HasOr(ws) \/ w[1] = "or"
  BY OneMore
<1>3. Alike(m.arr, es, us)
  BY AlikeSingle
<1>4. es # <<>> /\ Within(m.arr, es)
  OBVIOUS
<1>5. ws \in Seq(Word) /\ Tell(m, s, ws)
  BY DEF Saying, Says
<1>6. m.stmts[s].softDelete => ~HasOr(ws) /\ ~HasOr(us)
  BY <1>2 DEF Says
<1> HIDE DEF es, us, ws
<1>7. Grown(m, n, s) /\ Added(m, n, s, es) /\ Tell(n, s, ws \o us)
  BY <1>1, <1>2, <1>3, <1>4, <1>5, <1>6, AddWhereTells
<1> HIDE DEF n
<1>8. /\ n.stmts[s].unscoped = m.stmts[s].unscoped /\ n.stmts[s].scopes = m.stmts[s].scopes
      /\ n.stmts[s].softDelete = m.stmts[s].softDelete
  <2>1. n.stmts[s] = [m.stmts[s] EXCEPT !.where = n.stmts[s].where]
    BY <1>7 DEF Added
  <2>2. QED BY <1>1, <2>1 DEF Statement
<1>9. s \in DOMAIN n.stmts
  BY <1>1, <1>7 DEF Grown
<1>10. PICK k : k = More(h, w)
  OBVIOUS
<1>11. k.unscoped = h.unscoped /\ k.scopes = h.scopes /\ k.asked = h.asked /\ k.words = ws \o us
  <2>1. k.unscoped = h.unscoped /\ k.scopes = h.scopes /\ k.asked = h.asked
    BY <1>10 DEF More
  <2>2. k.words = Append(h.words, w)
    BY <1>10 DEF More, Saying
  <2>3. QED BY <1>2, <2>1, <2>2 DEF ws
<1>12. m.stmts[s].softDelete => ~HasOr(ws \o us)
  BY <1>2, <1>6
<1>13. Says(sd, n, s, k)
  <2>1. FlagsKept(n, s, k)
    BY <1>8, <1>11 DEF Says, FlagsKept
  <2>2. n.stmts[s].softDelete => sd /\ ~k.unscoped /\ k.asked /\ (k.scopes = <<>> \/ ~HasOr(k.words))
    BY <1>8, <1>11, <1>12 DEF Says
  <2>3. Tell(n, s, k.words)
    BY <1>7, <1>11
  <2>4. QED BY <1>9, <2>1, <2>2, <2>3 DEF Says
<1>14. QED BY <1>7, <1>10, <1>13 DEF n, es

(* DB.Where and DB.Or add an expression to the conditions that says the    *)
(* word (change_func.go:213, chainable_api.go:221-240).                    *)
LEMMA AddCondsSays ==
    ASSUME NEW m, Memory(m), NEW sd, NEW s, NEW h, Saying(h), Says(sd, m, s, h),
           NEW w \in Word, w[1] = "or" => h.words # <<>>,
           sd /\ h.asked => w[1] # "or" /\ ~HasOr(h.words),
           NEW e \in Expr, Within(m.arr, <<e>>), e[1] # "or", Said1(m.arr, e, w)
    PROVE  /\ Grown(m, AddConds(m, s, Joins(w), <<e>>), s)
           /\ Says(sd, AddConds(m, s, Joins(w), <<e>>), s, More(h, w))
<1> DEFINE es == <<e>>
           n  == AddConds(m, s, Joins(w), es)
<1>1. s \in DOMAIN m.stmts /\ m.stmts[s] \in Statement /\ Arrays(m.arr)
  BY DEF Says, Memory
<1>2. CASE w[1] # "or"
  <2>1. n = AddWhere(m, s, <<e>>)
    BY <1>2 DEF AddConds, Joins
  <2>2. AlikeOne(m.arr, e, w)
    BY <1>2 DEF AlikeOne, Said1
  <2> HIDE DEF n
  <2>3. QED BY <2>1, <2>2, WordAdded DEF n
<1>3. CASE w[1] = "or"
  <2> DEFINE id  == FreeId(m.arr)
             arr == Put(m.arr, id, es)
             m1  == [m EXCEPT !.arr = Put(@, id, es)]
             o   == <<"or", id>>
  <2>1. n = AddWhere(m1, s, <<o>>)
    BY <1>3 DEF AddConds, Joins
  <2>2. Starts(es) /\ Within(m.arr, es)
    BY DEF Starts
  <2> HIDE DEF es, id
  <2>3. /\ Arrays(arr) /\ Extends(m.arr, arr) /\ arr[id] = es
        /\ id \in Nat \ {0} /\ id \notin DOMAIN m.arr /\ DOMAIN arr = DOMAIN m.arr \cup {id}
    <3> DEFINE old == m.arr
    <3>1. id = FreeId(old) /\ arr = Put(old, id, es) /\ Arrays(old) /\ Within(old, es)
      BY <1>1, <2>2 DEF id
    <3>2. arr[id] = es /\ DOMAIN arr = DOMAIN old \cup {id}
      BY DEF Put
    <3> HIDE DEF old, arr
    <3>3. Arrays(arr) /\ Extends(old, arr)
      BY <2>2, <3>1, NewArray
    <3>4. IsFiniteSet(DOMAIN old)
      BY <3>1 DEF Arrays
    <3>5. FreeId(old) \in Nat \ {0} /\ FreeId(old) \notin DOMAIN old
      BY <3>4, FreeIdProperty
    <3>6. QED BY <3>1, <3>2, <3>3, <3>5 DEF old
  <2>4. m1.arr = arr /\ m1.stmts = m.stmts /\ m1 = [arr |-> m1.arr, stmts |-> m1.stmts]
    BY DEF Memory
  <2> HIDE DEF arr
  <2>5. Pointing(arr, m.stmts[s])
    <3>1. WhereIn(m, s) \subseteq DOMAIN m.arr
      BY <1>1 DEF Memory
    <3>2. QED BY <1>1, <2>3, <3>1 DEF Pointing, WhereIn
  <2>6. Grown(m, Write(m, arr, s, m.stmts[s]), s)
    BY <1>1, <2>3, <2>5, Written
  <2>7. m1 = Write(m, arr, s, m.stmts[s])
    <3>1. [m.stmts EXCEPT ![s] = m.stmts[s]] = m.stmts
      BY DEF Memory
    <3>2. QED BY <2>4, <3>1 DEF Write
  <2> HIDE DEF m1, o
  <2>8. Grown(m, m1, s) /\ Memory(m1) /\ s \in DOMAIN m1.stmts /\ m1.stmts[s] = m.stmts[s]
    BY <1>1, <2>4, <2>6, <2>7 DEF Grown
  <2>9. Extends(m.arr, m1.arr)
    BY <2>3, <2>4
  <2>10. Says(sd, m1, s, h)
    BY <2>8, <2>9, SaysSame
  <2>11. Len(es) = 1 /\ es[1] = e /\ DOMAIN es = {1}
    BY DEF es
  <2>12. Within(arr, <<o>>)
    <3>1. o \in Expr /\ o[1] = "or" /\ o[2] = id
      BY <2>3 DEF o, Expr, Nested, NoArray
    <3>2. QED BY <2>3, <2>11, <3>1, SingleWithin
  <2>13. AlikeOne(arr, o, w)
    <3>1. o[1] = "or" /\ o = <<"or", id>>
      BY DEF o
    <3>2. ASSUME NEW row \in Row PROVE Holds(arr, o, row) <=> TrueOf(w, row.is)
      <4>1. Holds(arr, <<"or", id>>, row) <=> Holds(arr, arr[id][1], row)
        BY <2>3, <2>11, HoldsOr
      <4>2. Holds(m.arr, es[1], row) = Holds(arr, es[1], row)
        <5>1. \A i \in DOMAIN es : Holds(m.arr, es[i], row) = Holds(arr, es[i], row)
          BY <1>1, <2>2, <2>3, HoldsSame
        <5>2. QED BY <2>11, <5>1
      <4>3. Holds(m.arr, e, row) <=> TrueOf(w, row.is)
        BY DEF Said1
      <4>4. QED BY <2>3, <2>11, <3>1, <4>1, <4>2, <4>3
    <3>3. QED BY <1>3, <3>1, <3>2 DEF AlikeOne
  <2> HIDE DEF n
  <2>14. /\ Grown(m1, n, s) /\ Says(sd, n, s, More(h, w))
    <3>1. Within(m1.arr, <<o>>) /\ AlikeOne(m1.arr, o, w)
      BY <2>4, <2>12, <2>13
    <3>2. QED BY <2>1, <2>8, <2>10, <3>1, WordAdded
  <2>15. Grown(m, n, s)
    BY <2>8, <2>14, GrownTwice
  <2>16. QED BY <2>14, <2>15 DEF n, es
<1>4. QED BY <1>2, <1>3

(* The handle with one more word is a handle.                              *)
LEMMA MoreIs ==
    ASSUME NEW h \in Handle, Spoken(h.words), NEW w \in Word, w[1] = "or" => h.words # <<>>
    PROVE  More(h, w) \in Handle /\ Spoken(More(h, w).words)
<1>1. Saying(h)
  BY HandleSaying
<1>2. /\ Append(h.words, w) = h.words \o <<w>> /\ h.words \o <<w>> \in Seq(Word)
      /\ Spoken(h.words \o <<w>>)
  BY <1>1, OneMore
<1>3. PICK k : k = More(h, w)
  OBVIOUS
<1>4. k.words = Append(h.words, w)
  BY <1>3 DEF More, Handle
<1>5. k \in Handle
  BY <1>2, <1>3 DEF More, Handle
<1>6. QED BY <1>2, <1>3, <1>4, <1>5

(* A condition on a column.                                                *)
AtomExpr(op, x) == <<IF op = "not" THEN "not" ELSE "is", x>>
(* The expression for a condition on a column says it (statement.go:285).  *)
LEMMA AtomIs ==
    ASSUME NEW op \in {"where", "or", "not"}, NEW x \in Atoms, NEW arr
    PROVE  /\ AtomExpr(op, x) \in Expr /\ Within(arr, <<AtomExpr(op, x)>>) /\ AtomExpr(op, x)[1] # "or"
           /\ <<op, Having(x)>> \in Word
           /\ Said1(arr, AtomExpr(op, x), <<op, Having(x)>>)
<1> DEFINE e == AtomExpr(op, x)
<1>1. e \in Expr /\ e[1] \notin Nested /\ e[2] = x /\ e[1] # "or" /\ e[1] = IF op = "not" THEN "not" ELSE "is"
  BY DEF AtomExpr, Expr, Nested
<1>2. Having(x) \in Condition
  BY DEF Having, Condition
<1>3. <<op, Having(x)>> \in Word
  BY <1>2 DEF Word
<1> HIDE DEF e
<1>4. Within(arr, <<e>>)
  BY <1>1, SingleWithin
<1>5. ASSUME NEW row \in Row PROVE Holds(arr, e, row) <=> TrueOf(<<op, Having(x)>>, row.is)
  <2>1. row.is \in SUBSET Atoms
    BY DEF Row
  <2>2. Holds(arr, e, row) <=> Plain(e, row)
    BY <1>1 DEF Holds
  <2>3. row.is \in Having(x) <=> x \in row.is
    BY <2>1 DEF Having
  <2>4. TrueOf(<<op, Having(x)>>, row.is) <=> (row.is \in Having(x) <=> op # "not")
    BY DEF TrueOf
  <2>5. Plain(e, row) <=> (x \in row.is <=> op # "not")
    BY <1>1 DEF Plain
  <2>6. QED BY <2>2, <2>3, <2>4, <2>5
<1>6. QED BY <1>1, <1>3, <1>4, <1>5 DEF Said1, e

-----------------------------------------------------------------------------
(* The chain methods keep all that.                                        *)

Good == soft \in BOOLEAN /\ Memory(mem) /\ Handles(soft, mem, handles)
KeepsGood == soft' = soft /\ Memory(mem') /\ Handles(soft', mem', handles')

(* Uses that the code answers wrongly are left out.                        *)
LEMMA FitMeans ==
    ASSUME Habits = {}, NEW habit, NEW bad \in BOOLEAN, Fit(habit, bad)
    PROVE  ~bad
BY DEF Fit

(* Who is untouched in a larger set is so in a smaller one.                *)
LEMMA UntouchedMore ==
    ASSUME NEW m, NEW n, NEW S, NEW T, Untouched(m, n, S), S \subseteq T
    PROVE  Untouched(m, n, T)
BY DEF Untouched

(* What is known of a handle in use.                                       *)
LEMMA UsedHandle ==
    ASSUME Good, NEW h \in Used
    PROVE  /\ h \in 1..MaxHandles /\ handles[h].clone # -1 /\ handles[h] \in Handle
           /\ handles[h].clone \in {0, 1, 2}
           /\ Saying(handles[h]) /\ Spoken(handles[h].words)
           /\ Instanced(soft, mem, handles[h], GetInstance(mem, handles[h]))
           /\ handles[h].clone = 1 => Fresh(handles[h])
           /\ handles[h].clone # 1 => Says(soft, mem, handles[h].stmt, handles[h])
<1> DEFINE k == handles[h]
<1>1. h \in 1..MaxHandles /\ k.clone # -1
  BY DEF Used
<1>2. HandleOk(soft, mem, k)
  BY <1>1 DEF Good, Handles
<1> HIDE DEF k
<1>3. k \in Handle /\ Spoken(k.words) /\ k.clone \in {0, 1, 2}
  BY <1>1, <1>2 DEF HandleOk, Handle
<1>4. (k.clone = 1 => Fresh(k)) /\ (k.clone # 1 => Says(soft, mem, k.stmt, k))
  BY <1>2, <1>3 DEF HandleOk
<1>5. Saying(k)
  BY <1>3, HandleSaying
<1>6. Instanced(soft, mem, k, GetInstance(mem, k))
  BY <1>1, <1>3, <1>4, GetInstanceSays DEF Good
<1>7. QED BY <1>1, <1>3, <1>4, <1>5, <1>6 DEF k

(* A chain method that only adds to the statement of its instance keeps    *)
(* what holds.                                                             *)
LEMMA ChainsOn ==
    ASSUME Good, NEW h \in Used, NEW i, i = GetInstance(mem, handles[h]),
           NEW m, Grown(i.mem, m, i.stmt), NEW said \in Handle, Spoken(said.words),
           Says(soft, m, i.stmt, said), Chained(h, m, i.stmt, said, h)
    PROVE  KeepsGood
<1>1. /\ h \in 1..MaxHandles /\ handles[h].clone # -1
      /\ Instanced(soft, mem, handles[h], i)
  BY UsedHandle
<1>2. Later(mem, m, i.stmt)
  <2>1. Later(mem, i.mem, i.stmt)
    BY <1>1 DEF Instanced
  <2>2. QED BY <2>1, GrownLater
<1>3. Untouched(mem, m, {i.stmt} \cup Drops(h))
  <2> DEFINE S == {i.stmt}
             T == {i.stmt} \cup Drops(h)
  <2>1. Untouched(mem, m, S)
    BY <1>2, LaterUntouched
  <2>2. S \subseteq T
    OBVIOUS
  <2> HIDE DEF S, T
  <2>3. Untouched(mem, m, T)
    BY <2>1, <2>2, UntouchedMore
  <2>4. QED BY <2>3 DEF T
<1>4. Memory(mem') /\ Handles(soft', mem', handles')
  BY <1>1, <1>3, ChainedKeeps DEF Good
<1>5. QED BY <1>4 DEF KeepsGood, Chained

(* No chain begins with Or, and after a query none is said.                *)
LEMMA WordFitsMeans ==
    ASSUME Habits = {}, Good, NEW h \in Used, NEW op, WordFits(h, op), NEW x
    PROVE  /\ <<op, x>>[1] = "or" => handles[h].words # <<>>
           /\ soft /\ handles[h].asked => <<op, x>>[1] # "or" /\ ~HasOr(handles[h].words)
<1>1. handles[h].asked \in BOOLEAN
  BY UsedHandle DEF Saying
<1>2. ~(op = "or" /\ handles[h].words = <<>>)
  BY FitMeans DEF WordFits
<1>3. ~(soft /\ handles[h].asked /\ (op = "or" \/ HasOr(handles[h].words)))
  <2> DEFINE bad == soft /\ handles[h].asked /\ (op = "or" \/ HasOr(handles[h].words))
  <2>1. bad \in BOOLEAN
    BY <1>1 DEF Good
  <2>2. Fit("or_after_query", bad)
    BY DEF WordFits
  <2> HIDE DEF bad
  <2>3. ~bad
    BY <2>1, <2>2, FitMeans
  <2>4. QED BY <2>3 DEF bad
<1>4. QED BY <1>2, <1>3

(* Where, Or and Not with a condition on a column keep what holds of all   *)
(* handles.                                                                *)
LEMMA WhereKeeps ==
    ASSUME Habits = {}, Good, NEW h \in Used, NEW op \in {"where", "or", "not"}, NEW x \in Atoms, Where(h, op, x)
    PROVE  KeepsGood
<1> DEFINE i == GetInstance(mem, handles[h])
           k == handles[h]
           w == <<op, Having(x)>>
           e == AtomExpr(op, x)
           m == AddConds(i.mem, i.stmt, Joins(w), <<e>>)
<1>1. Saying(k) /\ k \in Handle /\ Spoken(k.words) /\ Instanced(soft, mem, k, i)
  BY UsedHandle
<1>2. WordFits(h, op) /\ Chained(h, m, i.stmt, More(k, w), h)
  BY DEF Where, More, AtomExpr, Joins
<1>3. /\ w[1] = "or" => k.words # <<>>
      /\ soft /\ k.asked => w[1] # "or" /\ ~HasOr(k.words)
  BY <1>2, WordFitsMeans
<1> HIDE DEF i, k
<1>4. /\ e \in Expr /\ Within(i.mem.arr, <<e>>) /\ e[1] # "or"
      /\ w \in Word
      /\ Said1(i.mem.arr, e, w)
  BY AtomIs
<1> HIDE DEF w, e
<1>5. Memory(i.mem) /\ Says(soft, i.mem, i.stmt, k)
  BY <1>1 DEF Instanced, Later
<1>6. Grown(i.mem, m, i.stmt) /\ Says(soft, m, i.stmt, More(k, w))
  BY <1>1, <1>3, <1>4, <1>5, AddCondsSays
<1>7. More(k, w) \in Handle /\ Spoken(More(k, w).words)
  BY <1>1, <1>3, <1>4, MoreIs
<1> HIDE DEF m
<1>8. i = GetInstance(mem, handles[h])
  BY DEF i
<1>9. QED BY <1>2, <1>6, <1>7, <1>8, ChainsOn

(* Other fields of the statement and of the handle are set.                *)
Asks(sd, st, k) == st.softDelete => sd /\ ~k.unscoped /\ k.asked /\ (k.scopes = <<>> \/ ~HasOr(k.words))
Agree(st, k)    == st.unscoped = k.unscoped /\ st.scopes = k.scopes
(* A field of the statement is set together with that of the handle.       *)
LEMMA FlagsSay ==
    ASSUME NEW m, Memory(m), NEW sd, NEW s, NEW h, Says(sd, m, s, h), NEW k, k.words = h.words,
           NEW st \in Statement, st.where = m.stmts[s].where, st.softDelete = m.stmts[s].softDelete,
           Agree(st, k), Asks(sd, st, k)
    PROVE  Grown(m, Write(m, m.arr, s, st), s) /\ Says(sd, Write(m, m.arr, s, st), s, k)
<1> DEFINE n == Write(m, m.arr, s, st)
<1>1. s \in DOMAIN m.stmts
  BY DEF Says
<1>2. Grown(m, n, s) /\ WhereOf(n, s) = WhereOf(m, s)
  BY <1>1, FlagsWritten
<1>3. n.stmts[s] = st /\ n.arr = m.arr
  BY <1>1 DEF Write
<1> HIDE DEF n
<1>4. Tell(n, s, k.words)
  BY <1>2, <1>3 DEF Says, Tell
<1>5. s \in DOMAIN n.stmts
  BY <1>1, <1>2 DEF Grown
<1>6. Says(sd, n, s, k)
  BY <1>3, <1>4, <1>5 DEF Says, FlagsKept, Agree, Asks
<1>7. QED BY <1>2, <1>6 DEF n

(* Scopes keeps what holds of all handles.                                 *)
LEMMA ScopesKeeps ==
    ASSUME Habits = {}, Good, NEW h \in Used, NEW x \in Atoms, Scopes(h, x)
    PROVE  KeepsGood
<1> DEFINE i  == GetInstance(mem, handles[h])
           m0 == i.mem
           s  == i.stmt
           k  == handles[h]
           said == [k EXCEPT !.scopes = Append(@, x)]
           st == MoreScopes(m0.stmts[s], x)
           m  == WithScope(m0, s, x)
<1>1. Saying(k) /\ k \in Handle /\ Spoken(k.words) /\ Instanced(soft, mem, k, i)
  BY UsedHandle
<1>2. WordFits(h, "where") /\ Chained(h, m, s, said, h)
  BY DEF Scopes, WithScope
<1>3. soft /\ k.asked => ~HasOr(k.words)
  BY <1>2, WordFitsMeans
<1>4. i = GetInstance(mem, handles[h])
  OBVIOUS
<1> HIDE DEF i
<1>5. Memory(m0) /\ Says(soft, m0, s, k) /\ s \in DOMAIN m0.stmts
  BY <1>1, SaysTyped DEF Instanced, Later
<1>6. m = Write(m0, m0.arr, s, st)
  BY <1>5, ScopeWritten
<1>7. m0.stmts[s] \in Statement
  BY <1>5 DEF Memory
<1> DEFINE old == m0.stmts[s]
<1>8. st = [old EXCEPT !.scopes = Append(@, x)] /\ old \in Statement
  BY <1>7 DEF MoreScopes
<1> HIDE DEF old, st, k
<1>9. /\ st \in Statement /\ st.where = old.where /\ st.softDelete = old.softDelete
      /\ st.unscoped = old.unscoped /\ st.scopes = Append(old.scopes, x)
  BY <1>8 DEF Statement
<1>10. PICK u : u = said
  OBVIOUS
<1>11. u \in Handle /\ u.words = k.words /\ u.unscoped = k.unscoped /\ u.asked = k.asked
       /\ u.scopes = Append(k.scopes, x)
  <2>1. Append(k.scopes, x) \in Seq(Atoms)
    BY <1>1 DEF Handle
  <2>2. /\ u.words = k.words /\ u.unscoped = k.unscoped /\ u.asked = k.asked
        /\ u.scopes = Append(k.scopes, x)
    BY <1>1, <1>10 DEF Handle
  <2>3. u \in Handle
    BY <1>1, <1>10, <2>1 DEF Handle
  <2>4. QED BY <2>2, <2>3
<1>12. Agree(st, u) /\ Asks(soft, st, u)
  <2>1. old.unscoped = k.unscoped /\ old.scopes = k.scopes
        /\ (old.softDelete => soft /\ ~k.unscoped /\ k.asked)
    BY <1>5 DEF Says, FlagsKept, old
  <2>2. QED BY <1>3, <1>9, <1>11, <2>1 DEF Agree, Asks
<1> HIDE DEF m, said
<1>13. Grown(m0, m, s) /\ Says(soft, m, s, u)
  <2>1. st.where = m0.stmts[s].where /\ st.softDelete = m0.stmts[s].softDelete
    BY <1>9 DEF old
  <2>2. Grown(m0, Write(m0, m0.arr, s, st), s) /\ Says(soft, Write(m0, m0.arr, s, st), s, u)
    BY <1>5, <1>9, <1>11, <1>12, <2>1, FlagsSay
  <2>3. QED BY <1>6, <2>2
<1>14. Spoken(u.words)
  BY <1>1, <1>11
<1>15. QED BY <1>2, <1>4, <1>10, <1>11, <1>13, <1>14, ChainsOn

(* Unscoped keeps what holds of all handles.                               *)
LEMMA UnscopedKeeps ==
    ASSUME Habits = {}, Good, NEW h \in Used, Unscoped(h)
    PROVE  KeepsGood
<1> DEFINE i  == GetInstance(mem, handles[h])
           m0 == i.mem
           s  == i.stmt
           k  == handles[h]
           said == [k EXCEPT !.unscoped = TRUE]
           st == [m0.stmts[s] EXCEPT !.unscoped = TRUE]
           m  == [m0 EXCEPT !.stmts[s].unscoped = TRUE]
<1>1. Saying(k) /\ k \in Handle /\ Spoken(k.words) /\ Instanced(soft, mem, k, i)
  BY UsedHandle
<1>2. Fit("or_after_query", k.asked) /\ Chained(h, m, s, said, h)
  BY DEF Unscoped
<1>3. ~k.asked
  <2>1. k.asked \in BOOLEAN
    BY <1>1 DEF Saying
  <2> HIDE DEF k
  <2>2. QED BY <1>2, <2>1, FitMeans
<1>4. i = GetInstance(mem, handles[h])
  OBVIOUS
<1> HIDE DEF i
<1>5. Memory(m0) /\ Says(soft, m0, s, k) /\ s \in DOMAIN m0.stmts
  BY <1>1, SaysTyped DEF Instanced, Later
<1>6. m = Write(m0, m0.arr, s, st)
  BY <1>5, FieldsWritten
<1>7. m0.stmts[s] \in Statement
  BY <1>5 DEF Memory
<1> DEFINE old == m0.stmts[s]
<1>8. st = [old EXCEPT !.unscoped = TRUE] /\ old \in Statement
  BY <1>7
<1> HIDE DEF old, st, k
<1>9. /\ st \in Statement /\ st.where = old.where /\ st.softDelete = old.softDelete
      /\ st.unscoped = TRUE /\ st.scopes = old.scopes
  BY <1>8 DEF Statement
<1>10. PICK u : u = said
  OBVIOUS
<1>11. u \in Handle /\ u.words = k.words /\ u.unscoped = TRUE /\ u.scopes = k.scopes
  BY <1>1, <1>10 DEF Handle
<1>12. Agree(st, u) /\ Asks(soft, st, u)
  <2>1. old.scopes = k.scopes /\ ~old.softDelete
    BY <1>3, <1>5 DEF Says, FlagsKept, old
  <2>2. QED BY <1>9, <1>11, <2>1 DEF Agree, Asks
<1> HIDE DEF m, said
<1>13. Grown(m0, m, s) /\ Says(soft, m, s, u)
  <2>1. st.where = m0.stmts[s].where /\ st.softDelete = m0.stmts[s].softDelete
    BY <1>9 DEF old
  <2>2. Grown(m0, Write(m0, m0.arr, s, st), s) /\ Says(soft, Write(m0, m0.arr, s, st), s, u)
    BY <1>5, <1>9, <1>11, <1>12, <2>1, FlagsSay
  <2>3. QED BY <1>6, <2>2
<1>14. Spoken(u.words)
  BY <1>1, <1>11
<1>15. QED BY <1>2, <1>4, <1>10, <1>11, <1>13, <1>14, ChainsOn

(* A handle that is a group of conditions.                                 *)
LEMMA ClearedSame ==
    ASSUME NEW m, Memory(m), NEW s \in DOMAIN m.stmts, m.stmts[s].scopes = <<>>
    PROVE  [m EXCEPT !.stmts[s].scopes = <<>>] = m
<1>1. [m EXCEPT !.stmts[s].scopes = <<>>] = Write(m, m.arr, s, [m.stmts[s] EXCEPT !.scopes = <<>>])
  BY FieldsWritten, Zenon
<1>2. [m.stmts[s] EXCEPT !.scopes = <<>>] = m.stmts[s]
  <2>1. PICK st : st = m.stmts[s]
    OBVIOUS
  <2>2. st \in Statement /\ st.scopes = <<>>
    BY <2>1 DEF Memory
  <2>3. [st EXCEPT !.scopes = <<>>] = st
    BY <2>2 DEF Statement
  <2>4. QED BY <2>1, <2>3
<1>3. Write(m, m.arr, s, m.stmts[s]) = m
  <2>1. [m.stmts EXCEPT ![s] = m.stmts[s]] = m.stmts
    BY DEF Memory
  <2>2. QED BY <2>1 DEF Write, Memory
<1>4. QED BY <1>1, <1>2, <1>3

GroupBuilt(m, g, b, e) ==
    /\ Grown(m, b.mem, g.stmt) /\ (g.clone # 0 => b.mem = m)
    /\ b.exprs = <<e>>
    /\ e \in Expr /\ Within(b.mem.arr, <<e>>) /\ e[1] # "or"
    /\ \A row \in Row : Holds(b.mem.arr, e, row) <=> row.is \in Means(AllWords(g))

(* The scopes of a group are carried out on its own statement only.        *)
LEMMA GroupScopes ==
    ASSUME NEW m, Memory(m), NEW g, Saying(g), soft \in BOOLEAN, Says(soft, m, g.stmt, g),
           g.clone # 0 => g.scopes = <<>>, ~(soft /\ g.asked),
           NEW n, n = ExecuteScopes(m, g)
    PROVE  /\ Grown(m, n, g.stmt) /\ (g.clone # 0 => n = m)
           /\ Alike(n.arr, WhereOf(n, g.stmt), AllWords(g))
<1> DEFINE s == g.stmt
           xs == WhereOf(n, s)
<1>1. /\ s \in DOMAIN m.stmts /\ m.stmts[s] \in Statement /\ ~m.stmts[s].softDelete
      /\ m.stmts[s].scopes = g.scopes
  BY DEF Says, FlagsKept, Memory
<1>2. CASE g.clone = 0
  <2>1. Own(g, s)
    BY <1>2 DEF Own
  <2>2. Listens(soft, m, n, s, g) /\ n.stmts[s].softDelete = m.stmts[s].softDelete
    BY <2>1, ScopesListen
  <2>3. Tells(n.arr, xs, FALSE, AllWords(g))
    <3>1. n.stmts[s].softDelete = FALSE
      BY <1>1, <2>2 DEF Statement
    <3>2. QED BY <2>2, <3>1 DEF Listens, Tell
  <2> HIDE DEF xs
  <2>4. Alike(n.arr, xs, AllWords(g))
    BY <2>3 DEF Tells
  <2>5. QED BY <1>2, <2>2, <2>4 DEF Listens, xs
<1>3. CASE g.clone # 0
  <2>1. g.scopes = <<>> /\ m.stmts[s].scopes = <<>>
    BY <1>1, <1>3
  <2>2. n = [m EXCEPT !.stmts[s].scopes = <<>>]
    BY <1>3 DEF ExecuteScopes
  <2>3. n = m
    BY <1>1, <2>1, <2>2, ClearedSame
  <2>4. AllWords(g) = g.words
    <3>1. ScopeWords(g.scopes) = <<>>
      BY <2>1 DEF ScopeWords
    <3>2. AllWords(g) = g.words \o ScopeWords(g.scopes)
      BY AllWordsAre
    <3>3. g.words \in Seq(Word)
      BY DEF Saying
    <3>4. QED BY <3>1, <3>2, <3>3
  <2>5. Tells(m.arr, xs, FALSE, g.words)
    <3>1. m.stmts[s].softDelete = FALSE
      BY <1>1 DEF Statement
    <3>2. QED BY <2>3, <3>1 DEF Says, Tell
  <2> HIDE DEF xs
  <2>6. Alike(m.arr, xs, g.words)
    BY <2>5 DEF Tells
  <2>7. Grown(m, m, s)
    BY GrownSame
  <2>8. QED BY <2>3, <2>4, <2>6, <2>7 DEF xs
<1>4. QED BY <1>2, <1>3

(* BuildCondition makes an expression that selects what was said on the    *)
(* other handle (statement.go:324).                                        *)
LEMMA BuildGroupSays ==
    ASSUME NEW m, Memory(m), NEW g, Saying(g), soft \in BOOLEAN, Says(soft, m, g.stmt, g),
           g.clone # 0 => g.scopes = <<>>, ~(soft /\ g.asked), AllWords(g) # <<>>
    PROVE  \E e : GroupBuilt(m, g, BuildGroup(m, g), e)
<1> DEFINE s  == g.stmt
           n  == ExecuteScopes(m, g)
           xs == WhereOf(n, s)
           id == n.stmts[s].where
           b  == BuildGroup(m, g)
           ws == AllWords(g)
           e  == IF Len(xs) = 1 THEN xs[1] ELSE <<"and", id>>
<1>1. Grown(m, n, s) /\ (g.clone # 0 => n = m) /\ Alike(n.arr, xs, ws)
  BY GroupScopes
<1>2. s \in DOMAIN m.stmts /\ ws \in Seq(Word) /\ Spoken(ws)
  BY AllWordsAre DEF Says
<1>2a. b = IF xs = <<>> THEN [mem |-> n, exprs |-> <<>>]
           ELSE LET m2 == IF Len(xs) = 1 /\ xs[1][1] = "or" THEN [n EXCEPT !.arr[id][1][1] = "and"] ELSE n
                IN  [mem |-> m2, exprs |-> <<IF Len(xs) = 1 THEN m2.arr[id][1] ELSE <<"and", id>> >>]
  BY DEF BuildGroup
<1> HIDE DEF n
<1>3. Memory(n) /\ s \in DOMAIN n.stmts
  BY <1>1, <1>2 DEF Grown
<1>4. /\ Within(n.arr, xs) /\ (xs = <<>> \/ Starts(xs)) /\ (xs = <<>> <=> id = NoArray)
      /\ id # NoArray => id \in DOMAIN n.arr /\ xs = n.arr[id]
  BY <1>3, WhereWithin
<1> HIDE DEF id, ws, xs
<1>5. xs \in Seq(Expr)
  BY <1>4 DEF Within
<1>6. xs # <<>>
  <2>1. ws # <<>>
    BY DEF ws
  <2>2. QED BY <1>1, <1>2, <1>5, <2>1, AlikeOrs
<1>7. Starts(xs) /\ id \in DOMAIN n.arr /\ xs = n.arr[id] /\ xs[1][1] # "or"
  BY <1>4, <1>6 DEF Starts
<1>8. b.mem = n /\ b.exprs = <<e>>
  BY <1>2a, <1>6, <1>7
<1>9. Arrays(n.arr)
  BY <1>3 DEF Memory
<1>10. ASSUME NEW row \in Row PROVE Joined(n.arr, xs, row) <=> row.is \in Means(ws)
  <2>1. xs = <<>> \/ Joined(n.arr, xs, row) <=> row.is \in Means(ws)
    BY <1>1, <1>2, <1>4, AlikeSelects
  <2>2. QED BY <1>6, <2>1
<1>11. e \in Expr /\ Within(n.arr, <<e>>) /\ e[1] # "or"
       /\ \A row \in Row : Holds(n.arr, e, row) <=> Joined(n.arr, xs, row)
  <2>1. CASE Len(xs) = 1
    <3>1. e = xs[1] /\ DOMAIN xs = {1} /\ xs = <<xs[1]>> /\ xs[1] \in Expr
      <4>1. e = xs[1]
        BY <2>1
      <4> HIDE DEF e
      <4>2. DOMAIN xs = {1} /\ xs[1] \in Expr
        BY <1>5, <2>1
      <4>3. xs = <<xs[1]>>
        BY <1>5, <2>1
      <4>4. QED BY <4>1, <4>2, <4>3
    <3> HIDE DEF e
    <3>2. NoOrs(xs)
      BY <1>7, <3>1 DEF NoOrs
    <3>3. Within(n.arr, <<e>>)
      BY <1>4, <3>1
    <3>4. ASSUME NEW row \in Row PROVE Holds(n.arr, e, row) <=> Joined(n.arr, xs, row)
      <4>1. Joined(n.arr, xs, row) <=> AllHold(n.arr, xs, row)
        BY <1>4, <3>2, JoinedPlainly
      <4>2. AllHold(n.arr, xs, row) <=> Holds(n.arr, xs[1], row)
        BY <3>1 DEF AllHold
      <4>3. QED BY <3>1, <4>1, <4>2
    <3>5. QED BY <1>7, <3>1, <3>3, <3>4
  <2>2. CASE Len(xs) # 1
    <3>1. e = <<"and", id>>
      BY <2>2
    <3>2. id \in Nat \ {NoArray}
      BY <1>7, <1>9 DEF Arrays, NoArray
    <3>3. e \in Expr /\ e[1] = "and" /\ e[2] = id
      BY <3>1, <3>2 DEF Expr, Nested
    <3> HIDE DEF e
    <3>4. Within(n.arr, <<e>>)
      BY <1>7, <3>3, SingleWithin
    <3>5. ASSUME NEW row \in Row PROVE Holds(n.arr, e, row) <=> Joined(n.arr, xs, row)
      <4>1. Holds(n.arr, <<"and", id>>, row) = Joined(n.arr, n.arr[id], row)
        BY <1>7, <1>9, HoldsAnd
      <4>2. QED BY <1>7, <3>1, <4>1
    <3>6. QED BY <3>3, <3>4, <3>5
  <2>3. QED BY <2>1, <2>2
<1> HIDE DEF e, b
<1>12. GroupBuilt(m, g, b, e)
  BY <1>1, <1>8, <1>10, <1>11 DEF GroupBuilt, s, ws
<1>13. QED BY <1>12 DEF b

(* Who is untouched by two steps.                                          *)
LEMMA UntouchedTwice ==
    ASSUME NEW m, NEW n, NEW o, NEW S, NEW T, Untouched(m, n, S), Untouched(n, o, T)
    PROVE  Untouched(m, o, S \cup T)
<1>1. Extends(m.arr, o.arr)
  BY DEF Untouched, Extends
<1>2. QED BY <1>1 DEF Untouched

(* A step on one statement leaves the others alone.                        *)
LEMMA GrownUntouched ==
    ASSUME NEW m, NEW n, NEW s, Grown(m, n, s)
    PROVE  Untouched(m, n, {s})
BY DEF Grown, Untouched

(* No step leaves all alone.                                               *)
LEMMA SameUntouched ==
    ASSUME NEW m, Memory(m)
    PROVE  Untouched(m, m, {})
BY DEF Untouched, Extends

(* The two handles of a group: the one that gets the conditions says what  *)
(* it did on its instance i, and the other one has a statement of its own. *)
Separate(i, k) ==
    /\ Saying(k) /\ k \in Handle /\ Spoken(k.words) /\ k.clone # -1
    /\ Instanced(soft, mem, k, i)
    /\ Memory(i.mem) /\ Later(mem, i.mem, i.stmt) /\ Says(soft, i.mem, i.stmt, k) /\ Memory(mem)
Grouped(i, q) ==
    /\ Saying(q) /\ q \in Handle
    /\ ~(soft /\ q.asked) /\ (q.clone # 0 => q.scopes = <<>>)
    /\ q.clone \in {0, 2} /\ AllWords(q) # <<>>
    /\ q.stmt # i.stmt /\ Says(soft, i.mem, q.stmt, q)
LEMMA GroupInstance ==
    ASSUME Habits = {}, Good, NEW h \in Used, NEW g \in Used, NEW op \in {"where", "or"}, WhereGroup(h, op, g),
           NEW i, i = GetInstance(mem, handles[h])
    PROVE  Separate(i, handles[h]) /\ Grouped(i, handles[g])
<1> DEFINE k == handles[h]
           q == handles[g]
<1>1. /\ Saying(k) /\ k \in Handle /\ Spoken(k.words) /\ Instanced(soft, mem, k, i)
      /\ h \in 1..MaxHandles /\ k.clone # -1
  BY UsedHandle
<1>2. /\ Saying(q) /\ q \in Handle /\ g \in 1..MaxHandles /\ q.clone \in {0, 1, 2}
      /\ q.clone = 1 => Fresh(q)
      /\ q.clone # 1 => Says(soft, mem, q.stmt, q)
  BY UsedHandle
<1>3. /\ g # h /\ q.words \o q.scopes # <<>> /\ WordFits(h, op)
      /\ Fit("or_after_query", soft /\ q.asked)
      /\ Fit("scoped_group", q.clone # 0 /\ q.scopes # <<>>)
  BY DEF WhereGroup
<1>5. Apart(k, q) /\ Apart(q, k)
  BY <1>1, <1>2, <1>3 DEF Good, Handles
<1> HIDE DEF k, q
<1>6. ~(soft /\ q.asked) /\ (q.clone # 0 => q.scopes = <<>>)
  <2>1. q.asked \in BOOLEAN /\ soft \in BOOLEAN
    BY <1>2 DEF Saying, Good
  <2>2. ~(soft /\ q.asked)
    BY <1>3, <2>1, FitMeans
  <2>3. ~(q.clone # 0 /\ q.scopes # <<>>)
    BY <1>3, FitMeans
  <2>4. QED BY <2>2, <2>3
<1>7. q.clone \in {0, 2} /\ AllWords(q) # <<>>
  <2>1. AllWords(q) = q.words \o ScopeWords(q.scopes)
    BY <1>2, AllWordsAre
  <2>2. q.words \in Seq(Word) /\ q.scopes \in Seq(Atoms)
    BY <1>2 DEF Saying
  <2>3. /\ ScopeWords(q.scopes) \in Seq(Word)
        /\ ScopeWords(q.scopes) = <<>> <=> q.scopes = <<>>
    BY <2>2, ScopesAre
  <2> DEFINE us == ScopeWords(q.scopes)
             ws == q.words
  <2>4. us \in Seq(Word) /\ ws \in Seq(Word) /\ (us = <<>> <=> q.scopes = <<>>)
    BY <2>2, <2>3
  <2>5. q.words # <<>> \/ q.scopes # <<>>
    BY <1>3
  <2>6. AllWords(q) # <<>>
    <3> HIDE DEF us, ws
    <3>1. ws \o us = <<>> <=> ws = <<>> /\ us = <<>>
      BY <2>4, WordsConcat
    <3>2. QED BY <2>1, <2>4, <2>5, <3>1 DEF us, ws
  <2>7. q.clone # 1
    BY <1>2, <2>5 DEF Fresh
  <2>8. QED BY <1>2, <2>6, <2>7
<1>8. Says(soft, mem, q.stmt, q)
  BY <1>2, <1>7
<1>9. Memory(i.mem) /\ Later(mem, i.mem, i.stmt) /\ Says(soft, i.mem, i.stmt, k) /\ Memory(mem)
  BY <1>1 DEF Instanced, Later, Good
<1>10. q.stmt # i.stmt
  <2>1. CASE k.clone = 0
    <3>1. i.stmt = k.stmt
      BY <1>1, <2>1 DEF Instanced
    <3>2. QED BY <1>5, <1>7, <2>1, <3>1 DEF Apart
  <2>2. CASE k.clone # 0
    <3>1. i.stmt \notin DOMAIN mem.stmts
      BY <1>1, <2>2 DEF Instanced
    <3>2. q.stmt \in DOMAIN mem.stmts
      BY <1>8, SaysTyped
    <3>3. QED BY <3>1, <3>2
  <2>3. QED BY <2>1, <2>2
<1>11. Says(soft, i.mem, q.stmt, q)
  BY <1>8, <1>9, <1>10, SaysLater
<1>12. QED
  BY <1>1, <1>2, <1>6, <1>7, <1>9, <1>10, <1>11 DEF Separate, Grouped, k, q

(* Where and Or with another handle keep what holds of all handles.        *)
LEMMA WhereGroupKeeps ==
    ASSUME Habits = {}, Good, NEW h \in Used, NEW g \in Used, NEW op \in {"where", "or"}, WhereGroup(h, op, g)
    PROVE  KeepsGood
<1> DEFINE i == GetInstance(mem, handles[h])
           k == handles[h]
           q == handles[g]
           w == <<op, Means(AllWords(q))>>
           b == BuildGroup(i.mem, q)
           m == AddConds(b.mem, i.stmt, op, b.exprs)
<1>1. Separate(i, k) /\ Grouped(i, q)
  BY GroupInstance
<1>2. h \in 1..MaxHandles /\ g \in 1..MaxHandles
  BY UsedHandle
<1>3. /\ WordFits(h, op) /\ soft' = soft
      /\ Chained(h, m, i.stmt, More(k, w), g)
  BY DEF WhereGroup, More, Chained
<1>4. /\ w[1] = "or" => k.words # <<>>
      /\ soft /\ k.asked => w[1] # "or" /\ ~HasOr(k.words)
  BY <1>3, WordFitsMeans
<1> HIDE DEF i, k, q
<1>5. /\ Saying(k) /\ k \in Handle /\ Spoken(k.words) /\ k.clone # -1
      /\ Instanced(soft, mem, k, i)
      /\ Memory(i.mem) /\ Later(mem, i.mem, i.stmt) /\ Says(soft, i.mem, i.stmt, k) /\ Memory(mem)
  BY <1>1 DEF Separate
<1>6. /\ Saying(q) /\ q \in Handle
      /\ ~(soft /\ q.asked) /\ (q.clone # 0 => q.scopes = <<>>)
      /\ q.clone \in {0, 2} /\ AllWords(q) # <<>>
      /\ q.stmt # i.stmt /\ Says(soft, i.mem, q.stmt, q)
  BY <1>1 DEF Grouped
<1>7. PICK e : GroupBuilt(i.mem, q, b, e)
  <2>1. soft \in BOOLEAN
    BY DEF Good
  <2>2. QED BY <1>5, <1>6, <2>1, BuildGroupSays
<1>8. /\ Grown(i.mem, b.mem, q.stmt) /\ (q.clone # 0 => b.mem = i.mem)
       /\ b.exprs = <<e>>
       /\ e \in Expr /\ Within(b.mem.arr, <<e>>) /\ e[1] # "or"
       /\ \A row \in Row : Holds(b.mem.arr, e, row) <=> row.is \in Means(AllWords(q))
  BY <1>7 DEF GroupBuilt
<1> HIDE DEF b
<1>9. m = AddConds(b.mem, i.stmt, Joins(w), <<e>>)
  BY <1>8 DEF Joins
<1>10. w \in Word
  <2>1. Means(AllWords(q)) \in Condition
    BY DEF Means, Condition
  <2>2. QED BY <2>1 DEF Word
<1>11. Said1(b.mem.arr, e, w)
  <2>1. \A row \in Row : TrueOf(w, row.is) <=> row.is \in Means(AllWords(q))
    BY DEF TrueOf
  <2>2. QED BY <1>8, <2>1 DEF Said1
<1> HIDE DEF w
<1>12. Says(soft, b.mem, i.stmt, k) /\ Memory(b.mem)
  <2>1. Untouched(i.mem, b.mem, {q.stmt})
    BY <1>8, GrownUntouched
  <2>2. i.stmt \notin {q.stmt}
    BY <1>6
  <2>3. Says(soft, b.mem, i.stmt, k)
    BY <1>5, <2>1, <2>2, SaysUntouched
  <2>4. QED BY <1>8, <2>3 DEF Grown
<1>13. Grown(b.mem, m, i.stmt) /\ Says(soft, m, i.stmt, More(k, w))
  BY <1>5, <1>4, <1>8, <1>9, <1>10, <1>11, <1>12, AddCondsSays
<1>14. More(k, w) \in Handle /\ Spoken(More(k, w).words)
  BY <1>5, <1>4, <1>10, MoreIs
<1> HIDE DEF m
<1>15. Untouched(mem, m, {i.stmt} \cup Drops(g))
  <2> DEFINE S == {i.stmt}
             T == Drops(g)
  <2>1. Untouched(mem, i.mem, S)
    BY <1>5, LaterUntouched
  <2>2. Untouched(b.mem, m, S)
    BY <1>13, GrownUntouched
  <2>3. Untouched(i.mem, b.mem, T)
    <3>1. CASE q.clone = 0
      <4>1. Drops(g) = {q.stmt}
        BY <3>1 DEF Drops, q
      <4>2. QED BY <1>8, <4>1, GrownUntouched
    <3>2. CASE q.clone # 0
      <4>1. b.mem = i.mem /\ {} \subseteq Drops(g)
        BY <1>8, <3>2
      <4>2. Untouched(i.mem, i.mem, {})
        BY <1>5, SameUntouched
      <4>3. Untouched(i.mem, i.mem, Drops(g))
        BY <4>1, <4>2, UntouchedMore
      <4>4. QED BY <4>1, <4>3
    <3>3. QED BY <3>1, <3>2
  <2> HIDE DEF S, T
  <2>4. Untouched(mem, b.mem, S \cup T)
    BY <2>1, <2>3, UntouchedTwice
  <2>5. Untouched(mem, m, (S \cup T) \cup S)
    BY <2>2, <2>4, UntouchedTwice
  <2>6. (S \cup T) \cup S = S \cup T
    OBVIOUS
  <2>7. QED BY <2>5, <2>6 DEF S, T
<1>16. /\ soft \in BOOLEAN /\ Handles(soft, mem, handles)
       /\ Instanced(soft, mem, handles[h], i) /\ handles[h].clone # -1
  BY <1>5 DEF Good, k
<1>17. Memory(mem') /\ Handles(soft', mem', handles')
  BY <1>2, <1>3, <1>5, <1>13, <1>14, <1>15, <1>16, ChainedKeeps
<1>18. QED BY <1>3, <1>17 DEF KeepsGood

(* Session: a new handle, one that starts anew, one with the same          *)
(* statement, or one with a copy of it.                                    *)
LEMMA SessionKeeps ==
    ASSUME Good, NEW h \in Used, NEW kind \in {"plain", "context", "newdb"}, NEW allow \in BOOLEAN,
           Session(h, kind, allow)
    PROVE  KeepsGood
<1> DEFINE t   == Least(Free)
           s   == FreeId(mem.stmts)
           k   == handles[h]
           own == kind = "context" /\ k.clone # 1
           anew == kind = "newdb" \/ k.clone = 1
           new == IF anew
                  THEN [Root EXCEPT !.allow = allow \/ k.allow]
                  ELSE [k EXCEPT !.clone = 2, !.stmt = IF own THEN s ELSE @,
                                 !.allow = @ \/ allow]
           m   == IF own THEN PutStmt(mem, s, mem.stmts[k.stmt]) ELSE mem
           S   == IF own THEN {s} ELSE {}
           hs  == handles'
<1>1. /\ Saying(k) /\ k \in Handle /\ Spoken(k.words) /\ h \in 1..MaxHandles /\ k.clone # -1
      /\ k.clone \in {0, 1, 2}
      /\ k.clone # 1 => Says(soft, mem, k.stmt, k)
  BY UsedHandle
<1>2. /\ Free # {} /\ (kind # "plain" => k.clone # 1)
      /\ hs = [handles EXCEPT ![t] = new, ![h] = IF @.clone = 0 /\ kind = "plain" THEN Unused ELSE @]
      /\ mem' = Kept(m, hs) /\ soft' = soft
  BY DEF Session, PutStmt
<1>3. t \in 1..MaxHandles /\ handles[t].clone = -1 /\ t # h
  BY <1>1, <1>2, LeastFree
<1>4. handles \in [1..MaxHandles -> Handle] /\ Memory(mem) /\ Handles(soft, mem, handles) /\ soft \in BOOLEAN
  BY DEF Good, Handles
<1>5. hs = [j \in 1..MaxHandles |-> IF j = h THEN (IF k.clone = 0 /\ kind = "plain" THEN Unused ELSE k)
                                    ELSE IF j = t THEN new ELSE handles[j]]
  <2> HIDE DEF t, new
  <2>1. PICK a : a = handles
    OBVIOUS
  <2>2. a \in [1..MaxHandles -> Handle] /\ k = a[h]
    BY <1>4, <2>1
  <2>3. hs = [a EXCEPT ![t] = new, ![h] = IF @.clone = 0 /\ kind = "plain" THEN Unused ELSE @]
    BY <1>2, <2>1
  <2> HIDE DEF hs, k
  <2>4. hs = [j \in 1..MaxHandles |-> IF j = h THEN (IF k.clone = 0 /\ kind = "plain" THEN Unused ELSE k)
                                      ELSE IF j = t THEN new ELSE a[j]]
    BY <1>1, <1>3, <2>2, <2>3
  <2>5. QED BY <2>1, <2>4
<1> HIDE DEF hs, t
<1>6. Untouched(mem, m, S) /\ (own => Opened(mem, m, s, mem.stmts[k.stmt]) /\ s \in Nat /\ s \notin DOMAIN mem.stmts)
  <2>1. CASE own
    <3>1. k.stmt \in DOMAIN mem.stmts
      BY <1>1, <2>1, SaysTyped
    <3>2. Pointing(mem.arr, mem.stmts[k.stmt])
      BY <1>4, <3>1 DEF Memory, Pointing, WhereIn
    <3> DEFINE st == mem.stmts[k.stmt]
    <3>3. s = FreeId(mem.stmts)
      OBVIOUS
    <3> HIDE DEF s, st
    <3>4. Opened(mem, PutStmt(mem, s, st), s, st)
      BY <1>4, <3>2, <3>3, NewStatement DEF st
    <3>5. m = PutStmt(mem, s, st) /\ S = {s}
      BY <2>1 DEF st
    <3>6. Later(mem, m, s) /\ s \in Nat /\ s \notin DOMAIN mem.stmts
      BY <3>4, <3>5 DEF Opened
    <3>7. Untouched(mem, m, {s})
      BY <3>6, LaterUntouched
    <3>8. QED BY <3>4, <3>5, <3>6, <3>7 DEF st
  <2>2. CASE ~own
    BY <1>4, <2>2, SameUntouched
  <2>3. QED BY <2>1, <2>2
<1>7. new \in Handle /\ HandleOk(soft, m, new) /\ new.clone \in {1, 2}
      /\ (new.clone = 2 => ~anew /\ new.stmt = IF own THEN s ELSE k.stmt)
  <2>1. CASE anew
    <3>1. PICK u : u = new
      OBVIOUS
    <3>2. u = [clone |-> 1, stmt |-> 0, allow |-> allow \/ k.allow, words |-> <<>>, scopes |-> <<>>,
               unscoped |-> FALSE, asked |-> FALSE]
      BY <2>1, <3>1 DEF Root, Unused
    <3>3. <<>> \in Seq(Word) /\ <<>> \in Seq(Atoms) /\ 1 \in -1..2
      OBVIOUS
    <3>4. (allow \/ k.allow) \in BOOLEAN
      OBVIOUS
    <3>5. u \in Handle /\ u.clone = 1 /\ Fresh(u) /\ Spoken(u.words)
      BY <3>2, <3>3, <3>4 DEF Handle, Fresh, Spoken
    <3>6. HandleOk(soft, m, u)
      BY <3>5 DEF HandleOk
    <3> HIDE DEF new
    <3>7. QED BY <3>1, <3>5, <3>6
  <2>2. CASE ~anew
    <3>1. PICK u : u = new
      OBVIOUS
    <3>2. PICK r : r = IF own THEN s ELSE k.stmt
      OBVIOUS
    <3>3. u = [k EXCEPT !.clone = 2, !.stmt = r, !.allow = @ \/ allow]
      BY <1>1, <2>2, <3>1, <3>2 DEF Handle
    <3>4. r \in Nat /\ k.clone # 1 /\ 2 \in -1..2
      BY <1>1, <1>6, <2>2, <3>2 DEF Handle
    <3>5. (k.allow \/ allow) \in BOOLEAN
      OBVIOUS
    <3>5a. /\ u.clone = 2 /\ u.stmt = r /\ u.words = k.words /\ u.scopes = k.scopes
           /\ u.unscoped = k.unscoped /\ u.asked = k.asked
      BY <1>1, <3>3 DEF Handle
    <3>5b. u = [clone |-> 2, stmt |-> r, allow |-> k.allow \/ allow, words |-> k.words, scopes |-> k.scopes,
                unscoped |-> k.unscoped, asked |-> k.asked]
      BY <1>1, <3>3 DEF Handle
    <3>6. u \in Handle
      BY <1>1, <3>4, <3>5, <3>5b DEF Handle
    <3>7. Says(soft, m, r, k)
      <4>1. Says(soft, mem, k.stmt, k)
        BY <1>1, <3>4
      <4>2. CASE own
        <5>1. Opened(mem, m, s, mem.stmts[k.stmt])
          BY <1>6, <4>2
        <5>2. Memory(m) /\ Extends(mem.arr, m.arr) /\ s \in DOMAIN m.stmts /\ m.stmts[s] = mem.stmts[k.stmt]
          BY <5>1 DEF Opened, Later
        <5> HIDE DEF m, s, k
        <5>3. Says(soft, m, s, k)
          BY <1>4, <4>1, <5>2, SaysSame
        <5>4. QED BY <3>2, <4>2, <5>3
      <4>3. CASE ~own
        <5>1. m = mem /\ r = k.stmt
          BY <3>2, <4>3
        <5>2. QED BY <4>1, <5>1
      <4>4. QED BY <4>2, <4>3
    <3> HIDE DEF new, m
    <3>8. Says(soft, m, r, u)
      BY <3>5a, <3>7 DEF Says, FlagsKept
    <3>9. HandleOk(soft, m, u)
      BY <1>1, <3>5a, <3>6, <3>8 DEF HandleOk
    <3>10. QED BY <2>2, <3>1, <3>2, <3>5a, <3>6, <3>9
  <2>3. QED BY <2>1, <2>2
<1>8. \A j \in 1..MaxHandles : handles[j].clone \in {0, 2} => handles[j].stmt \in DOMAIN mem.stmts
  <2>1. \A j \in 1..MaxHandles : handles[j].clone \in {0, 2} => Says(soft, mem, handles[j].stmt, handles[j])
    BY <1>4 DEF Handles, HandleOk
  <2>2. QED BY <2>1, SaysTyped
<1>9. S \cap DOMAIN mem.stmts = {}
  BY <1>6
<1> DEFINE left == IF k.clone = 0 /\ kind = "plain" THEN Unused ELSE k
<1>10. hs[t] = new /\ hs[h] = left /\ \A j \in 1..MaxHandles : j # t /\ j # h => hs[j] = handles[j]
  <2> HIDE DEF new, left
  <2> QED BY <1>1, <1>3, <1>5 DEF left
<1>10a. left = k \/ left = Unused
  OBVIOUS
<1>11. hs \in [1..MaxHandles -> Handle]
  <2>1. left \in Handle
    BY <1>1, <1>10a, UnusedOk
  <2> HIDE DEF new, left
  <2>2. QED BY <1>4, <1>5, <1>7, <2>1 DEF left
<1>12. Spared(handles, hs, t, S)
  <2>1. \A j \in 1..MaxHandles : j # t => hs[j] = handles[j] \/ hs[j] = Unused
    BY <1>10, <1>10a
  <2> HIDE DEF S, new
  <2>2. QED BY <1>8, <1>9, <2>1 DEF Spared
<1>13. Alone(hs, t)
  <2> SUFFICES ASSUME NEW j \in 1..MaxHandles, j # t
               PROVE  Apart(hs[j], hs[t]) /\ Apart(hs[t], hs[j])
    BY DEF Alone
  <2>1. hs[t] = new /\ new.clone # 0
    BY <1>7, <1>10
  <2>2. Apart(hs[t], hs[j])
    <3> HIDE DEF new
    <3> QED BY <2>1 DEF Apart
  <2>3. Apart(hs[j], hs[t])
    <3>1. CASE hs[j].clone # 0 \/ new.clone # 2
      BY <1>7, <2>1, <3>1 DEF Apart
    <3>2. CASE hs[j].clone = 0 /\ new.clone = 2
      <4>1. hs[j] = handles[j] /\ handles[j].clone = 0
        <5>1. Unused.clone # 0
          BY DEF Unused
        <5>2. hs[j] = handles[j] \/ hs[j] = Unused
          BY <1>10, <1>10a
        <5>3. QED BY <3>2, <5>1, <5>2
      <4>2. new.stmt = IF own THEN s ELSE k.stmt
        BY <1>7, <3>2
      <4>3. CASE own
        <5>1. handles[j].stmt \in DOMAIN mem.stmts /\ s \notin DOMAIN mem.stmts
          BY <1>6, <1>8, <4>1, <4>3
        <5> HIDE DEF new
        <5>2. QED BY <2>1, <4>1, <4>2, <4>3, <5>1 DEF Apart
      <4>4. CASE ~own
        <5>1. new.stmt = k.stmt /\ ~anew
          BY <1>7, <3>2, <4>2, <4>4
        <5>2. kind = "plain" /\ k.clone \in {0, 2}
          BY <1>1, <4>4, <5>1
        <5>3. j # h
          <6>1. CASE k.clone = 0
            BY <1>10, <4>1, <5>2, <6>1 DEF Unused
          <6>2. CASE k.clone # 0
            BY <4>1, <6>2
          <6>3. QED BY <6>1, <6>2
        <5>4. Apart(handles[j], k)
          BY <1>1, <1>4, <5>3 DEF Handles
        <5>5. handles[j].stmt # k.stmt
          BY <4>1, <5>2, <5>4 DEF Apart
        <5> HIDE DEF new
        <5>6. QED BY <2>1, <4>1, <5>1, <5>5 DEF Apart
      <4>5. QED BY <4>3, <4>4
    <3>3. QED BY <1>7, <3>1, <3>2
  <2>4. QED BY <2>2, <2>3
<1>14. HandleOk(soft, m, hs[t])
  BY <1>7, <1>10
<1> HIDE DEF m, S, new
<1>15. Handles(soft, m, hs)
  BY <1>4, <1>6, <1>11, <1>12, <1>13, <1>14, HandlesBut
<1>16. Memory(m)
  BY <1>6 DEF Untouched
<1>17. Memory(Kept(m, hs)) /\ Handles(soft, Kept(m, hs), hs)
  BY <1>15, <1>16, KeptKeeps
<1>18. QED BY <1>2, <1>17 DEF KeepsGood, hs

-----------------------------------------------------------------------------
(* Finishers: what they send, and that they keep the handles.              *)

(* A statement that has carried out its scopes says the words and scopes.  *)
LEMMA ListensSays ==
    ASSUME NEW m, NEW n, NEW s \in DOMAIN m.stmts, NEW h \in Handle,
           Listens(soft, m, n, s, h), Sighted(soft, n, s, h)
    PROVE  Says(soft, n, s, Heard(h))
<1>1. PICK u : u = Heard(h)
  OBVIOUS
<1>2. u.words = AllWords(h) /\ u.scopes = <<>> /\ u.asked = TRUE /\ u.unscoped = h.unscoped
  BY <1>1 DEF Heard, Handle
<1>3. s \in DOMAIN n.stmts
  BY DEF Listens, Grown
<1>4. n.stmts[s].softDelete => soft /\ ~u.unscoped
  BY <1>2 DEF Sighted
<1>5. Says(soft, n, s, u)
  BY <1>2, <1>3, <1>4 DEF Says, FlagsKept, Listens
<1>6. QED BY <1>1, <1>5

(* The handle that has asked is a handle.                                  *)
LEMMA HeardIs ==
    ASSUME NEW h \in Handle, Spoken(h.words)
    PROVE  Heard(h) \in Handle /\ Spoken(Heard(h).words) /\ Heard(h).stmt = h.stmt /\ Heard(h).clone = h.clone
<1>1. AllWords(h) \in Seq(Word) /\ Spoken(AllWords(h))
  BY HandleSaying, AllWordsAre
<1>2. PICK u : u = Heard(h)
  OBVIOUS
<1>3. u.words = AllWords(h) /\ u.stmt = h.stmt /\ u.clone = h.clone
  BY <1>2 DEF Heard, Handle
<1>4. u \in Handle
  <2>1. <<>> \in Seq(Atoms)
    OBVIOUS
  <2>2. u = [clone |-> h.clone, stmt |-> h.stmt, allow |-> h.allow, words |-> AllWords(h),
             scopes |-> <<>>, unscoped |-> h.unscoped, asked |-> TRUE]
    BY <1>2 DEF Heard, Handle
  <2>3. QED BY <1>1, <2>1, <2>2 DEF Handle
<1>5. QED BY <1>1, <1>2, <1>3, <1>4

(* Handles are given up, or are as they were.                              *)
LEMMA HandlesKept ==
    ASSUME NEW sd, NEW m, Memory(m), NEW hs, Handles(sd, m, hs), NEW n, NEW S, Untouched(m, n, S),
           NEW new \in [1..MaxHandles -> Handle],
           \A k \in 1..MaxHandles :
               \/ new[k] = hs[k] /\ (hs[k].clone \in {0, 2} => hs[k].stmt \notin S)
               \/ new[k] = Unused
    PROVE  Handles(sd, n, new)
<1>1. PICK t : t = 0
  OBVIOUS
<1>2. t \notin 1..MaxHandles
  BY <1>1
<1>3. Spared(hs, new, t, S) /\ Alone(new, t)
  BY <1>2 DEF Spared, Alone
<1>4. QED BY <1>2, <1>3, HandlesBut

(* The kinds of the expressions there are.                                 *)
Has(exprs, kinds)  == \A k \in DOMAIN exprs : exprs[k][1] \in kinds
MadeOf(arr, kinds) == \A i \in DOMAIN arr : Has(arr[i], kinds)

(* What statements that are as they were lead to has always been there.    *)
LEMMA SweptOld ==
    ASSUME NEW m, Memory(m), NEW n, Extends(m.arr, n.arr), NEW roots \in SUBSET DOMAIN m.stmts,
           \A t \in roots : n.stmts[t] = m.stmts[t], NEW kinds, MadeOf(m.arr, kinds)
    PROVE  MadeOf(Swept(n, roots).arr, kinds)
<1> DEFINE S      == UNION {WhereIn(n, t) : t \in roots}
           led    == UNION {Refs(n.arr[j], Nested) : j \in DOMAIN n.arr}
           closed == {C \in {S \cup T : T \in SUBSET led} : \A j \in C : Refs(n.arr[j], Nested) \subseteq C}
           C      == Reached(n.arr, Nested, S)
           D      == S \cup (DOMAIN m.arr \cap led)
<1>1. Swept(n, roots).arr = [i \in C |-> n.arr[i]]
  BY DEF Swept
<1>2. C = {i \in DOMAIN n.arr : \A E \in closed : i \in E}
  BY DEF Reached
<1>3. S \subseteq DOMAIN m.arr
  <2>1. ASSUME NEW t \in roots PROVE WhereIn(n, t) \subseteq DOMAIN m.arr
    <3>1. WhereIn(n, t) = WhereIn(m, t)
      BY DEF WhereIn
    <3>2. QED BY <3>1 DEF Memory
  <2>2. QED BY <2>1
<1> HIDE DEF S
<1>4. D \in closed
  <2>1. ASSUME NEW j \in D PROVE Refs(n.arr[j], Nested) \subseteq D
    <3>1. j \in DOMAIN m.arr /\ j \in DOMAIN n.arr /\ n.arr[j] = m.arr[j]
      BY <1>3 DEF Extends
    <3>2. Refs(m.arr[j], Nested) \subseteq DOMAIN m.arr
      BY <3>1 DEF Memory, Arrays, Within
    <3>3. Refs(n.arr[j], Nested) \subseteq led
      BY <3>1
    <3>4. QED BY <3>1, <3>2, <3>3
  <2>2. D \in {S \cup T : T \in SUBSET led}
    OBVIOUS
  <2>3. QED BY <2>1, <2>2
<1> HIDE DEF led, closed
<1>5. C \subseteq DOMAIN m.arr
  BY <1>2, <1>3, <1>4
<1> HIDE DEF C
<1>6. \A i \in C : n.arr[i] = m.arr[i]
  BY <1>5 DEF Extends
<1>7. QED BY <1>1, <1>5, <1>6 DEF MadeOf

KeepsKinds == \A kinds : MadeOf(mem.arr, kinds) => MadeOf(mem'.arr, kinds)
(* A finisher keeps what holds of the handles, and of its own if that may  *)
(* be used again.  If not, no array is left that was not there before.     *)
LEMMA FinishKeeps ==
    ASSUME Good, NEW h \in Used, NEW i, i = GetInstance(mem, handles[h]),
           NEW b, Grown(i.mem, b.mem, i.stmt), NEW keep \in BOOLEAN,
           keep => Says(soft, b.mem, i.stmt, Heard(handles[h])),
           NEW q, NEW rows, Finish(h, q, b, rows, keep)
    PROVE  KeepsGood /\ (~keep => KeepsKinds)
<1> DEFINE k   == handles[h]
           s   == i.stmt
           new == IF k.clone # 0 THEN k ELSE IF ~keep THEN Unused ELSE Heard(k)
           m   == b.mem
           hs  == handles'
           S   == {s}
<1>1. /\ k \in Handle /\ Spoken(k.words) /\ h \in 1..MaxHandles /\ k.clone \in {0, 1, 2}
      /\ Instanced(soft, mem, k, i)
  BY UsedHandle
<1>2. /\ hs = [handles EXCEPT ![h] =
               IF @.clone # 0 THEN @ ELSE IF ~keep THEN Unused
               ELSE [@ EXCEPT !.asked = TRUE, !.scopes = <<>>, !.words = AllWords(handles[h])]]
      /\ mem' = Kept(m, hs) /\ soft' = soft
  BY DEF Finish
<1>3. handles \in [1..MaxHandles -> Handle] /\ Memory(mem) /\ Handles(soft, mem, handles) /\ soft \in BOOLEAN
  BY DEF Good, Handles
<1>4. hs[h] = new /\ \A j \in 1..MaxHandles : j # h => hs[j] = handles[j]
  <2>1. hs = [handles EXCEPT ![h] = new]
    BY <1>1, <1>2, <1>3 DEF Heard
  <2> HIDE DEF hs, new
  <2>2. QED BY <1>1, <1>3, <2>1
<1>5. hs \in [1..MaxHandles -> Handle]
  <2>1. new \in Handle
    BY <1>1, UnusedOk, HeardIs
  <2>2. hs = [handles EXCEPT ![h] = new]
    BY <1>1, <1>2, <1>3 DEF Heard
  <2> HIDE DEF hs, new
  <2>3. QED BY <1>1, <1>3, <2>1, <2>2
<1> HIDE DEF hs, m
<1>6. Untouched(mem, m, S)
  <2>1. Later(mem, i.mem, s)
    BY <1>1 DEF Instanced
  <2>2. Later(mem, m, s)
    BY <2>1, GrownLater DEF m
  <2>3. QED BY <2>2, LaterUntouched
<1>7. \A j \in 1..MaxHandles : j # h \/ k.clone # 0 => (handles[j].clone \in {0, 2} => handles[j].stmt \notin S)
  <2> SUFFICES ASSUME NEW j \in 1..MaxHandles, j # h \/ k.clone # 0, handles[j].clone \in {0, 2}
               PROVE  handles[j].stmt # s
    OBVIOUS
  <2>1. CASE k.clone = 0
    <3>1. j # h /\ s = k.stmt
      BY <1>1, <2>1 DEF Instanced
    <3>2. Apart(k, handles[j])
      BY <1>1, <1>3, <3>1 DEF Handles
    <3>3. QED BY <2>1, <3>1, <3>2 DEF Apart
  <2>2. CASE k.clone # 0
    <3>1. s \notin DOMAIN mem.stmts
      BY <1>1, <2>2 DEF Instanced
    <3>2. Says(soft, mem, handles[j].stmt, handles[j])
      BY <1>3 DEF Handles, HandleOk
    <3>3. handles[j].stmt \in DOMAIN mem.stmts
      BY <3>2, SaysTyped
    <3>4. QED BY <3>1, <3>3
  <2>3. QED BY <2>1, <2>2
<1>8. Handles(soft, m, hs)
  <2>1. CASE k.clone # 0 \/ ~keep
    <3>1. \A j \in 1..MaxHandles :
              \/ hs[j] = handles[j] /\ (handles[j].clone \in {0, 2} => handles[j].stmt \notin S)
              \/ hs[j] = Unused
      BY <1>4, <1>7, <2>1
    <3>2. QED
      <4> HIDE DEF S
      <4> QED BY <1>3, <1>5, <1>6, <3>1, HandlesKept
  <2>2. CASE k.clone = 0 /\ keep
    <3>1. hs[h] = Heard(k) /\ s = k.stmt
      BY <1>1, <1>4, <2>2 DEF Instanced
    <3>2. Says(soft, m, s, Heard(k))
      BY <2>2 DEF m
    <3> HIDE DEF k, s
    <3>3. Heard(k) \in Handle /\ Spoken(Heard(k).words) /\ Heard(k).stmt = s /\ Heard(k).clone = 0
      BY <1>1, <2>2, <3>1, HeardIs
    <3>4. HandleOk(soft, m, hs[h])
      BY <3>1, <3>2, <3>3 DEF HandleOk
    <3>5. Spared(handles, hs, h, S)
      <4> HIDE DEF S, new
      <4> QED BY <1>4, <1>7 DEF Spared
    <3>6. Alone(hs, h)
      <4> SUFFICES ASSUME NEW j \in 1..MaxHandles, j # h
                   PROVE  Apart(hs[j], hs[h]) /\ Apart(hs[h], hs[j])
        BY DEF Alone
      <4>1. hs[h].stmt = k.stmt /\ hs[h].clone = 0 /\ hs[j] = handles[j]
        BY <1>4, <3>1, <3>3
      <4>2. Apart(handles[j], k) /\ Apart(k, handles[j])
        BY <1>1, <1>3 DEF Handles, k
      <4>3. QED
        <5> HIDE DEF new
        <5> QED BY <2>2, <4>1, <4>2 DEF Apart
    <3>7. QED
      <4> HIDE DEF S, new
      <4> QED BY <1>1, <1>3, <1>5, <1>6, <3>4, <3>5, <3>6, HandlesBut
  <2>3. QED BY <2>1, <2>2
<1>9. Memory(m)
  BY <1>6 DEF Untouched
<1>10. Memory(Kept(m, hs)) /\ Handles(soft, Kept(m, hs), hs)
  BY <1>8, <1>9, KeptKeeps
<1>11. Extends(mem.arr, m.arr)
  BY <1>6 DEF Untouched
<1>12. ASSUME ~keep PROVE KeepsKinds
  <2> DEFINE roots == {hs[j].stmt : j \in {x \in 1..MaxHandles : hs[x].clone \in {0, 2}}}
  <2>1. ASSUME NEW j \in 1..MaxHandles, hs[j].clone \in {0, 2}
        PROVE  hs[j].stmt \in DOMAIN mem.stmts /\ hs[j].stmt # s
    <3>1. hs[j] = handles[j] /\ (j # h \/ k.clone # 0)
      BY <1>4, <1>12, <2>1 DEF Unused
    <3>2. Says(soft, mem, handles[j].stmt, handles[j])
      BY <1>3, <2>1, <3>1 DEF Handles, HandleOk
    <3>3. handles[j].stmt \in DOMAIN mem.stmts
      BY <3>2, SaysTyped
    <3>4. QED BY <1>7, <2>1, <3>1, <3>3
  <2>2. mem' = Swept(m, roots)
    BY <1>2 DEF Kept
  <2>3. roots \subseteq DOMAIN mem.stmts /\ s \notin roots
    <3> HIDE DEF s, hs
    <3> QED BY <2>1
  <2> HIDE DEF roots
  <2>4. \A t \in roots : m.stmts[t] = mem.stmts[t]
    BY <1>6, <2>3 DEF Untouched
  <2>5. ASSUME NEW kinds, MadeOf(mem.arr, kinds) PROVE MadeOf(mem'.arr, kinds)
    BY <1>3, <1>11, <2>2, <2>3, <2>4, <2>5, SweptOld
  <2>6. QED BY <2>5 DEF KeepsKinds
<1>13. QED BY <1>2, <1>10, <1>12 DEF KeepsGood, hs

-----------------------------------------------------------------------------
(* What statements hit is what the program may expect of them.             *)

TableOk(rows) ==
    /\ rows \subseteq Row /\ IsFiniteSet(rows)
    /\ \A r, q \in rows : r.id = q.id => r = q
Told(q, h) == q.words = h.words /\ q.scopes = h.scopes /\ q.unscoped = h.unscoped /\ q.allow = h.allow
Rest(skip, rows) == rows \ FirstOf(skip, rows)
Chooses(b, h, key, after) == \A row \in Row : Selects(b, row) <=> Suits(h, key, after, row)
Expected(h, writes, key, limit, skip, rows) ==
    IF writes /\ AllWords(h) = <<>> /\ key = 0 /\ ~h.allow THEN {}
    ELSE IF limit = 0 THEN Rest(skip, rows) ELSE FirstOf(limit, Rest(skip, rows))

(* The first none of the rows, and the rest.                               *)
LEMMA FirstOfNothing ==
    ASSUME NEW rows, IsFiniteSet(rows)
    PROVE  FirstOf(0, rows) = {} /\ Rest(0, rows) = rows
<1>1. FirstOf(0, rows) = {}
  <2> SUFFICES ASSUME NEW r \in rows, Cardinality({q \in rows : q.id < r.id}) < 0 PROVE FALSE
    BY DEF FirstOf
  <2>1. IsFiniteSet({q \in rows : q.id < r.id})
    BY FS_Subset
  <2>2. Cardinality({q \in rows : q.id < r.id}) \in Nat
    BY <2>1, FS_CardinalityType
  <2> DEFINE n == Cardinality({q \in rows : q.id < r.id})
  <2>3. n \in Nat /\ n < 0
    BY <2>2
  <2> HIDE DEF n
  <2>4. QED BY <2>3
<1>2. QED BY <1>1 DEF Rest

(* What may be expected, when the statement selects what is asked for.     *)
LEMMA WantedIs ==
    ASSUME NEW rows \in SUBSET Row, NEW h, NEW q, Told(q, h), NEW b, Chooses(b, h, q.key, q.after)
    PROVE  Wanted(q, rows) = Expected(h, q.writes, q.key, q.limit, q.skip, Picked(b, rows))
<1> DEFINE all == {r \in rows : /\ q.key # 0 => r.id = q.key
                                /\ r.id > q.after
                                /\ soft /\ ~q.unscoped => ~r.gone
                                /\ r.is \in Means(AllWords(q))}
<1>1. AllWords(q) = AllWords(h)
  BY DEF Told, AllWords
<1>2. Picked(b, rows) = {r \in rows : Selects(b, r)}
  BY DEF Picked, Selects
<1>3. all = Picked(b, rows)
  <2>1. \A r \in rows : r \in all <=> Suits(h, q.key, q.after, r)
    BY <1>1 DEF Suits, Told
  <2>2. \A r \in rows : r \in Picked(b, rows) <=> Suits(h, q.key, q.after, r)
    BY <1>2 DEF Chooses
  <2>3. all \subseteq rows /\ Picked(b, rows) \subseteq rows
    BY <1>2
  <2> HIDE DEF all
  <2>4. QED BY <2>1, <2>2, <2>3
<1>4. Wanted(q, rows) =
          IF q.writes /\ AllWords(q) = <<>> /\ q.key = 0 /\ ~q.allow THEN {}
          ELSE IF q.limit = 0 THEN Rest(q.skip, all)
          ELSE FirstOf(q.limit, Rest(q.skip, all))
  BY DEF Wanted, Rest
<1> HIDE DEF all
<1>5. QED BY <1>1, <1>3, <1>4 DEF Told, Expected

(* The same for what a finisher says of a handle.                          *)
Hit(h, writes, key, limit, rows) ==
    IF writes /\ AllWords(h) = <<>> /\ key = 0 /\ ~h.allow THEN {}
    ELSE IF limit = 0 THEN rows ELSE FirstOf(limit, rows)
(* The same without Offset.                                                *)
LEMMA SaidIs ==
    ASSUME TableOk(table), NEW h, NEW writes \in BOOLEAN, NEW key, NEW limit, NEW b, Chooses(b, h, key, 0)
    PROVE  Wanted(Said(h, writes, key, limit), table) = Hit(h, writes, key, limit, Picked(b, table))
<1>0. PICK q : q = Said(h, writes, key, limit)
  OBVIOUS
<1>1. /\ Told(q, h) /\ q.key = key /\ q.after = 0 /\ q.skip = 0 /\ q.limit = limit /\ q.writes = writes
  BY <1>0 DEF Said, Told
<1>2. Rest(0, Picked(b, table)) = Picked(b, table)
  <2>1. Picked(b, table) \subseteq table
    BY DEF Picked
  <2>2. IsFiniteSet(Picked(b, table))
    BY <2>1, FS_Subset DEF TableOk
  <2>3. QED BY <2>2, FirstOfNothing
<1>3. table \in SUBSET Row
  BY DEF TableOk
<1>4. Chooses(b, h, q.key, q.after)
  BY <1>1
<1>5. Wanted(q, table) = Expected(h, q.writes, q.key, q.limit, q.skip, Picked(b, table))
  BY <1>1, <1>3, <1>4, WantedIs
<1>6. QED BY <1>0, <1>1, <1>2, <1>5 DEF Expected, Hit

Sends == sent'.n # sent.n => sent'.rows = Wanted(sent'.q, table)

(* A statement that hits what may be expected is answered well.            *)
LEMMA SendIs ==
    ASSUME NEW q, NEW rows, Send(q, rows), rows = Wanted(q, table)
    PROVE  Sends
BY DEF Send, Sends

(* A step without a statement hits nothing.                                *)
LEMMA QuietSends ==
    ASSUME Quiet PROVE Sends
BY DEF Quiet, Sends

(* The statement of a handle, before it is sent.                           *)
LEMMA Instance ==
    ASSUME Good, NEW h \in Used, NEW i, i = GetInstance(mem, handles[h])
    PROVE  /\ Memory(i.mem) /\ Saying(handles[h]) /\ soft \in BOOLEAN
           /\ Says(soft, i.mem, i.stmt, handles[h]) /\ handles[h] \in Handle
<1>1. Instanced(soft, mem, handles[h], i) /\ Saying(handles[h]) /\ handles[h] \in Handle
  BY UsedHandle
<1>2. QED BY <1>1 DEF Instanced, Later, Good

(* Where a key is added late there is no Or.                               *)
LEMMA KeyFitsMeans ==
    ASSUME Habits = {}, NEW h, Saying(h), NEW key \in Nat, NEW late \in BOOLEAN, KeyFits(h, key, late)
    PROVE  key # 0 /\ late => ~HasOr(h.words)
<1> DEFINE bad == key # 0 /\ late /\ HasOr(h.words)
<1>1. bad \in BOOLEAN /\ Fit("or_with_key", bad)
  BY DEF KeyFits, HasOr
<1> HIDE DEF bad
<1>2. ~bad
  BY <1>1, FitMeans
<1>3. QED BY <1>2 DEF bad

(* Find hits exactly the rows asked for.                                   *)
LEMMA FindSends ==
    ASSUME Habits = {}, Good, TableOk(table), NEW h \in Used, Find(h)
    PROVE  Sends /\ KeepsGood /\ table' = table
<1> DEFINE k == handles[h]
<1>1. PICK i \in {GetInstance(mem, k)} : \E b \in {QueryOn(i.mem, i.stmt, 0)} :
          /\ Finish(h, Said(k, FALSE, 0, 0), b, Picked(b, table), TRUE)
          /\ UNCHANGED table
  BY DEF Find
<1>2. PICK b \in {QueryOn(i.mem, i.stmt, 0)} :
          /\ Finish(h, Said(k, FALSE, 0, 0), b, Picked(b, table), TRUE)
          /\ UNCHANGED table
  BY <1>1
<1>3. i = GetInstance(mem, k) /\ b = QueryOn(i.mem, i.stmt, 0) /\ table' = table
  BY <1>2
<1>4. Memory(i.mem) /\ Saying(k) /\ soft \in BOOLEAN /\ Says(soft, i.mem, i.stmt, k) /\ k \in Handle
  BY <1>3, Instance
<1>5. /\ Answers(i.mem, i.stmt, k, 0, 0, b)
      /\ Listens(soft, i.mem, b.mem, i.stmt, k) /\ Sighted(soft, b.mem, i.stmt, k)
  <2>1. 0 \in Nat
    OBVIOUS
  <2> DEFINE z == 0
  <2> HIDE DEF z, k
  <2>2. z \in Nat /\ (z # 0 /\ (~soft \/ k.unscoped) => ~HasOr(k.words)) /\ z = 0
    BY DEF z
  <2>3. /\ Answers(i.mem, i.stmt, k, z, 0, QueryOn(i.mem, i.stmt, z))
        /\ z = 0 => Listens(soft, i.mem, QueryOn(i.mem, i.stmt, z).mem, i.stmt, k)
        /\ z = 0 => Sighted(soft, QueryOn(i.mem, i.stmt, z).mem, i.stmt, k)
    BY <1>4, <2>2, QueryOnAnswers
  <2>4. QED BY <1>3, <2>2, <2>3
<1>6. Grown(i.mem, b.mem, i.stmt) /\ Chooses(b, k, 0, 0)
  BY <1>5 DEF Answers, Chooses
<1>7. Says(soft, b.mem, i.stmt, Heard(k))
  <2>1. i.stmt \in DOMAIN i.mem.stmts
    BY <1>4, SaysTyped
  <2>2. QED BY <1>4, <1>5, <2>1, ListensSays
<1>8. KeepsGood
  BY <1>2, <1>3, <1>6, <1>7, FinishKeeps
<1>9. Sends
  <2>1. Send(Said(k, FALSE, 0, 0), Picked(b, table))
    BY <1>2 DEF Finish
  <2>2. Wanted(Said(k, FALSE, 0, 0), table) = Picked(b, table)
    <3>1. Wanted(Said(k, FALSE, 0, 0), table) = Hit(k, FALSE, 0, 0, Picked(b, table))
      BY <1>6, SaidIs
    <3>2. QED BY <3>1 DEF Hit
  <2>3. QED BY <2>1, <2>2, SendIs
<1>10. QED BY <1>3, <1>8, <1>9

-----------------------------------------------------------------------------
(* The table: rows with different identifiers, none past the last one.     *)

Distinct(rows) == \A r, q \in rows : r.id = q.id => r = q
TableInv(rows, last) ==
    /\ rows \subseteq Row /\ Distinct(rows)
    /\ last \in Nat /\ \A r \in rows : r.id <= last

(* There are only so many identifiers.                                     *)
LEMMA RowsFinite ==
    ASSUME NEW rows \in SUBSET Row, Distinct(rows)
    PROVE  TableOk(rows)
<1> DEFINE f == [r \in rows |-> r.id]
<1>1. MaxId \in Nat
  BY BoundsAssumption
<1>2. IsFiniteSet(1..MaxId)
  BY <1>1, FS_Interval
<1>3. f \in Injection(rows, 1..MaxId)
  <2>1. f \in [rows -> 1..MaxId]
    BY DEF Row, Ids
  <2>2. \A r, q \in rows : f[r] = f[q] => r = q
    BY DEF Distinct
  <2> HIDE DEF f
  <2>3. QED BY <2>1, <2>2, Fun_IsInj
<1> HIDE DEF f
<1>4. IsFiniteSet(rows)
  BY <1>2, <1>3, FS_Injection
<1>5. QED BY <1>4 DEF TableOk, Distinct

(* Rows change, their identifiers do not.                                  *)
LEMMA TableImage ==
    ASSUME NEW rows, NEW last, TableInv(rows, last), NEW f \in [rows -> Row],
           \A r \in rows : f[r].id = r.id
    PROVE  TableInv({f[r] : r \in rows}, last)
<1>1. ASSUME NEW a \in rows, NEW b \in rows, f[a].id = f[b].id PROVE f[a] = f[b]
  <2>1. a.id = b.id
    BY <1>1
  <2>2. a = b
    BY <2>1 DEF TableInv, Distinct
  <2>3. QED BY <2>2
<1>2. Distinct({f[r] : r \in rows})
  BY <1>1 DEF Distinct
<1>3. QED BY <1>2 DEF TableInv

(* Rows go.                                                                *)
LEMMA TableFewer ==
    ASSUME NEW rows, NEW last, TableInv(rows, last), NEW left \in SUBSET rows
    PROVE  TableInv(left, last)
BY DEF TableInv, Distinct

(* A row comes with a new identifier.                                      *)
LEMMA TableMore ==
    ASSUME NEW rows, NEW last, TableInv(rows, last), NEW row \in Row, NEW next \in Nat, last <= next,
           row.id <= next, \A r \in rows : r.id # row.id
    PROVE  TableInv(rows \cup {row}, next)
<1>1. \A r \in rows : r.id \in Nat /\ r.id <= next
  BY DEF TableInv, Row, Ids
<1>2. Distinct(rows \cup {row})
  BY DEF TableInv, Distinct
<1>3. QED BY <1>1, <1>2 DEF TableInv

(* An update leaves the identifiers alone.                                 *)
LEMMA SetTable ==
    ASSUME NEW rows, NEW last, TableInv(rows, last), NEW hit, NEW is \in SUBSET Atoms
    PROVE  TableInv(Set(rows, hit, is), last)
<1> DEFINE f == [r \in rows |-> IF r \in hit THEN [r EXCEPT !.is = @ \cup is] ELSE r]
<1>1. ASSUME NEW r \in rows PROVE f[r] \in Row /\ f[r].id = r.id
  <2>1. r \in Row
    BY DEF TableInv
  <2>2. PICK u : u = [r EXCEPT !.is = @ \cup is]
    OBVIOUS
  <2>3. u.id = r.id /\ u = [id |-> r.id, is |-> r.is \cup is, gone |-> r.gone]
    BY <2>1, <2>2 DEF Row
  <2>4. u \in Row
    BY <2>1, <2>3 DEF Row
  <2>5. f[r] = u \/ f[r] = r
    BY <2>2
  <2>6. QED
    <3> HIDE DEF f
    <3> QED BY <2>1, <2>3, <2>4, <2>5
<1>2. Set(rows, hit, is) = {f[r] : r \in rows}
  BY DEF Set
<1>3. f \in [rows -> Row]
  <2>1. f = [r \in rows |-> f[r]]
    OBVIOUS
  <2> HIDE DEF f
  <2>2. QED BY <1>1, <2>1
<1> HIDE DEF f
<1>4. QED BY <1>1, <1>2, <1>3, TableImage

(* So does a soft deletion.                                                *)
LEMMA GoneTable ==
    ASSUME NEW rows, NEW last, TableInv(rows, last), NEW hit
    PROVE  TableInv({IF r \in hit THEN [r EXCEPT !.gone = TRUE] ELSE r : r \in rows}, last)
<1> DEFINE f == [r \in rows |-> IF r \in hit THEN [r EXCEPT !.gone = TRUE] ELSE r]
<1>1. ASSUME NEW r \in rows PROVE f[r] \in Row /\ f[r].id = r.id
  <2>1. r \in Row
    BY DEF TableInv
  <2>2. PICK u : u = [r EXCEPT !.gone = TRUE]
    OBVIOUS
  <2>3. u.id = r.id /\ u = [id |-> r.id, is |-> r.is, gone |-> TRUE]
    BY <2>1, <2>2 DEF Row
  <2>4. u \in Row
    BY <2>1, <2>3 DEF Row
  <2>5. f[r] = u \/ f[r] = r
    BY <2>2
  <2>6. QED
    <3> HIDE DEF f
    <3> QED BY <2>1, <2>3, <2>4, <2>5
<1>2. {IF r \in hit THEN [r EXCEPT !.gone = TRUE] ELSE r : r \in rows} = {f[r] : r \in rows}
  OBVIOUS
<1>3. f \in [rows -> Row]
  <2>1. f = [r \in rows |-> f[r]]
    OBVIOUS
  <2> HIDE DEF f
  <2>2. QED BY <1>1, <2>1
<1> HIDE DEF f
<1>4. QED BY <1>1, <1>2, <1>3, TableImage

-----------------------------------------------------------------------------
(* First, Update and Delete.                                               *)

(* A finisher that hits what its statement selects hits what may be        *)
(* expected.                                                               *)
LEMMA FinishSends ==
    ASSUME Good, TableOk(table), NEW h \in Used, NEW i, i = GetInstance(mem, handles[h]),
           NEW key, NEW b, Answers(i.mem, i.stmt, handles[h], key, 0, b),
           NEW writes \in BOOLEAN, NEW limit, NEW rows,
           rows = Hit(handles[h], writes, key, limit, Picked(b, table)),
           Finish(h, Said(handles[h], writes, key, limit), b, rows, FALSE)
    PROVE  Sends /\ KeepsGood /\ KeepsKinds
<1> DEFINE k == handles[h]
<1>1. Grown(i.mem, b.mem, i.stmt) /\ Chooses(b, k, key, 0)
  BY DEF Answers, Chooses
<1>2. KeepsGood /\ KeepsKinds
  BY <1>1, FinishKeeps
<1>3. Send(Said(k, writes, key, limit), rows)
  BY DEF Finish
<1>4. Wanted(Said(k, writes, key, limit), table) = Hit(k, writes, key, limit, Picked(b, table))
  BY <1>1, SaidIs
<1>5. QED BY <1>2, <1>3, <1>4, SendIs

Missed(b, s, h, rows) == IF MissingWhere(b.mem, s, h.allow) THEN {} ELSE rows
WriteHit(h, key, rows) == Hit(h, TRUE, key, 0, rows)
(* An update or delete without conditions hits nothing                     *)
(* (callbacks/helper.go:109).                                              *)
LEMMA MissingIs ==
    ASSUME NEW s, NEW h, Saying(h), NEW key, NEW b, Counted(s, h, key, b), NEW rows
    PROVE  Missed(b, s, h, rows) = WriteHit(h, key, rows)
<1>1. MissingWhere(b.mem, s, h.allow) <=> ~h.allow /\ MissingWhere(b.mem, s, FALSE)
  BY DEF MissingWhere
<1>2. QED BY <1>1 DEF Counted, Hit, Missed, WriteHit

(* First hits the first row asked for.                                     *)
LEMMA FirstSends ==
    ASSUME Habits = {}, Good, TableOk(table), NEW h \in Used, NEW key \in Nat, First(h, key)
    PROVE  Sends /\ KeepsGood /\ KeepsKinds /\ table' = table
<1> DEFINE k == handles[h]
<1>0. PICK i \in {GetInstance(mem, k)} : \E b \in {QueryOn(i.mem, i.stmt, key)} :
          /\ KeyFits(k, key, ~soft \/ k.unscoped)
          /\ Finish(h, Said(k, FALSE, key, 1), b, FirstOf(1, Picked(b, table)), FALSE)
          /\ UNCHANGED table
  BY DEF First
<1>1. PICK b \in {QueryOn(i.mem, i.stmt, key)} :
          /\ KeyFits(k, key, ~soft \/ k.unscoped)
          /\ Finish(h, Said(k, FALSE, key, 1), b, FirstOf(1, Picked(b, table)), FALSE)
          /\ UNCHANGED table
  BY <1>0
<1>2. i = GetInstance(mem, k) /\ b = QueryOn(i.mem, i.stmt, key)
  OBVIOUS
<1>3. Memory(i.mem) /\ Saying(k) /\ soft \in BOOLEAN /\ Says(soft, i.mem, i.stmt, k)
  BY <1>2, Instance
<1>4. key # 0 /\ (~soft \/ k.unscoped) => ~HasOr(k.words)
  <2>1. (~soft \/ k.unscoped) \in BOOLEAN
    OBVIOUS
  <2>2. QED BY <1>1, <1>3, <2>1, KeyFitsMeans
<1>5. Answers(i.mem, i.stmt, k, key, 0, b)
  <2> HIDE DEF k
  <2> QED BY <1>2, <1>3, <1>4, QueryOnAnswers
<1>6. FirstOf(1, Picked(b, table)) = Hit(k, FALSE, key, 1, Picked(b, table))
  BY DEF Hit
<1>7. QED BY <1>1, <1>2, <1>5, <1>6, FinishSends

(* Update hits exactly the rows asked for, and none without conditions.    *)
LEMMA UpdateSends ==
    ASSUME Habits = {}, Good, TableInv(table, lastId), NEW h \in Used, NEW key \in Nat, NEW x \in Atoms,
           Update(h, key, x)
    PROVE  Sends /\ KeepsGood /\ KeepsKinds /\ TableInv(table', lastId)
<1> DEFINE k == handles[h]
           Hits(i, b) == IF MissingWhere(b.mem, i.stmt, k.allow) THEN {} ELSE Picked(b, table)
<1>0. PICK i \in {GetInstance(mem, k)} : \E b \in {QueryOn(i.mem, i.stmt, key)} :
          /\ KeyFits(k, key, ~soft \/ k.unscoped)
          /\ Finish(h, Said(k, TRUE, key, 0), b, Hits(i, b), FALSE)
          /\ table' = Set(table, Hits(i, b), {x})
  BY DEF Update
<1>1. PICK b \in {QueryOn(i.mem, i.stmt, key)} :
          /\ KeyFits(k, key, ~soft \/ k.unscoped)
          /\ Finish(h, Said(k, TRUE, key, 0), b, Hits(i, b), FALSE)
          /\ table' = Set(table, Hits(i, b), {x})
  BY <1>0
<1>2. i = GetInstance(mem, k) /\ b = QueryOn(i.mem, i.stmt, key)
  OBVIOUS
<1>3. Memory(i.mem) /\ Saying(k) /\ soft \in BOOLEAN /\ Says(soft, i.mem, i.stmt, k)
  BY <1>2, Instance
<1>4. key # 0 /\ (~soft \/ k.unscoped) => ~HasOr(k.words)
  <2>1. (~soft \/ k.unscoped) \in BOOLEAN
    OBVIOUS
  <2>2. QED BY <1>1, <1>3, <2>1, KeyFitsMeans
<1>5. Answers(i.mem, i.stmt, k, key, 0, b) /\ Counted(i.stmt, k, key, b)
  <2> HIDE DEF k
  <2> QED BY <1>2, <1>3, <1>4, QueryOnAnswers
<1>6. Hits(i, b) = Hit(k, TRUE, key, 0, Picked(b, table))
  <2>1. Hits(i, b) = Missed(b, i.stmt, k, Picked(b, table))
    BY DEF Missed
  <2>2. Missed(b, i.stmt, k, Picked(b, table)) = WriteHit(k, key, Picked(b, table))
    <3> HIDE DEF k, Hits
    <3> QED BY <1>3, <1>5, MissingIs
  <2>3. QED BY <2>1, <2>2 DEF WriteHit
<1>7. TableOk(table)
  BY RowsFinite DEF TableInv
<1> DEFINE rows == Hits(i, b)
<1>8. /\ rows = Hit(k, TRUE, key, 0, Picked(b, table))
      /\ Finish(h, Said(k, TRUE, key, 0), b, rows, FALSE)
      /\ table' = Set(table, rows, {x})
  BY <1>1, <1>6
<1> HIDE DEF rows, Hits
<1>9. Sends /\ KeepsGood /\ KeepsKinds
  BY <1>2, <1>5, <1>7, <1>8, FinishSends
<1>10. TableInv(table', lastId)
  BY <1>8, SetTable
<1>11. QED BY <1>9, <1>10

(* Delete hits exactly the rows asked for, and none without conditions.    *)
LEMMA DeleteSends ==
    ASSUME Habits = {}, Good, TableInv(table, lastId), NEW h \in Used, NEW key \in Nat, Delete(h, key)
    PROVE  Sends /\ KeepsGood /\ KeepsKinds /\ TableInv(table', lastId)
<1> DEFINE k == handles[h]
           Hits(i, b) == IF MissingWhere(b.mem, i.stmt, k.allow) THEN {} ELSE Picked(b, table)
           After(rows) == IF soft /\ ~k.unscoped
                          THEN {IF r \in rows THEN [r EXCEPT !.gone = TRUE] ELSE r : r \in table}
                          ELSE table \ rows
<1>0. PICK i \in {GetInstance(mem, k)} : \E b \in {DeleteOn(i.mem, i.stmt, key)} :
          /\ KeyFits(k, key, TRUE)
          /\ Finish(h, Said(k, TRUE, key, 0), b, Hits(i, b), FALSE)
          /\ table' = After(Hits(i, b))
  BY DEF Delete
<1>1. PICK b \in {DeleteOn(i.mem, i.stmt, key)} :
          /\ KeyFits(k, key, TRUE)
          /\ Finish(h, Said(k, TRUE, key, 0), b, Hits(i, b), FALSE)
          /\ table' = After(Hits(i, b))
  BY <1>0
<1>2. i = GetInstance(mem, k) /\ b = DeleteOn(i.mem, i.stmt, key)
  OBVIOUS
<1>3. Memory(i.mem) /\ Saying(k) /\ soft \in BOOLEAN /\ Says(soft, i.mem, i.stmt, k)
  BY <1>2, Instance
<1>4. key # 0 => ~HasOr(k.words)
  BY <1>1, <1>3, KeyFitsMeans
<1>5. Answers(i.mem, i.stmt, k, key, 0, b) /\ Counted(i.stmt, k, key, b)
  <2>1. CASE key # 0
    <3> HIDE DEF k
    <3> QED BY <1>2, <1>3, <1>4, <2>1, DeleteOnAnswers
  <2>2. CASE key = 0
    <3>1. b = QueryOn(i.mem, i.stmt, key)
      BY <1>2, <2>2 DEF DeleteOn, QueryOn, WithKey
    <3>2. key # 0 /\ (~soft \/ k.unscoped) => ~HasOr(k.words)
      BY <2>2
    <3> HIDE DEF k
    <3>3. QED BY <1>3, <3>1, <3>2, QueryOnAnswers
  <2>3. QED BY <2>1, <2>2
<1>6. Hits(i, b) = Hit(k, TRUE, key, 0, Picked(b, table))
  <2>1. Hits(i, b) = Missed(b, i.stmt, k, Picked(b, table))
    BY DEF Missed
  <2>2. Missed(b, i.stmt, k, Picked(b, table)) = WriteHit(k, key, Picked(b, table))
    <3> HIDE DEF k, Hits
    <3> QED BY <1>3, <1>5, MissingIs
  <2>3. QED BY <2>1, <2>2 DEF WriteHit
<1>7. TableOk(table)
  BY RowsFinite DEF TableInv
<1> DEFINE rows == Hits(i, b)
<1>8. /\ rows = Hit(k, TRUE, key, 0, Picked(b, table))
      /\ Finish(h, Said(k, TRUE, key, 0), b, rows, FALSE)
      /\ table' = After(rows)
  BY <1>1, <1>6
<1> HIDE DEF rows, Hits
<1>9. Sends /\ KeepsGood /\ KeepsKinds
  BY <1>2, <1>5, <1>7, <1>8, FinishSends
<1>10. TableInv(table', lastId)
  <2>1. TableInv({IF r \in rows THEN [r EXCEPT !.gone = TRUE] ELSE r : r \in table}, lastId)
    BY GoneTable
  <2>2. TableInv(table \ rows, lastId)
    BY TableFewer
  <2>3. QED BY <1>8, <2>1, <2>2
<1>11. QED BY <1>9, <1>10

-----------------------------------------------------------------------------
(* The last call.  The program has no handle any more, and the statement   *)
(* that the call keeps says what was said on its handle as long as the     *)
(* call sends statements for that.                                         *)

States    == {"run", "ok", "failed"}
BatchJob  == [kind : {"batches"}, state : States, base : Handle, touched : SUBSET Ids, total : Nat,
              offset : Nat, batch : Nat, last : Nat, size : 1..MaxBatch, got : Seq(Ids), due : SUBSET Ids]
SaveJob   == [kind : {"save"}, state : States, base : Handle, touched : SUBSET Ids, key : Nat,
              is : SUBSET Atoms, selected : BOOLEAN, affected : Nat, step : {"create", "update", "done"}]
CreateJob == [kind : {"create"}, state : States, base : Handle, touched : SUBSET Ids, left : Nat, n : Nat,
              size : 1..MaxBatch, made : SUBSET Ids, reported : Nat, tx : BOOLEAN]
FirstJob  == [kind : {"first"}, state : States, base : Handle, touched : SUBSET Ids, assign : SUBSET Atoms,
              step : {"find", "create", "update", "done"}, key : Nat, is : SUBSET Atoms]
Call      == BatchJob \cup SaveJob \cup CreateJob \cup FirstJob

Sending(j) ==
    j.state = "run" /\ \/ j.kind = "batches"
                       \/ j.kind = "save" /\ j.step = "update"
                       \/ j.kind = "first" /\ j.step \in {"find", "update"}
BaseOk(sd, m, j) ==
    /\ j.base \in Handle /\ Spoken(j.base.words) /\ j.base.stmt \in DOMAIN m.stmts
    /\ Sending(j) => Says(sd, m, j.base.stmt, j.base)
Idle(hs) == hs = [k \in 1..MaxHandles |-> Unused]

(* Handles that are not in use are as they should be.                      *)
LEMMA IdleHandles ==
    ASSUME NEW sd, NEW m, NEW hs, Idle(hs)
    PROVE  Handles(sd, m, hs)
<1>1. hs \in [1..MaxHandles -> Handle]
  BY UnusedOk DEF Idle
<1>2. \A h \in 1..MaxHandles : hs[h] = Unused
  BY DEF Idle
<1>3. ASSUME NEW h \in 1..MaxHandles PROVE HandleOk(sd, m, hs[h])
  BY <1>2, UnusedOk
<1>4. Apart(Unused, Unused)
  BY DEF Apart, Unused
<1>5. QED BY <1>1, <1>2, <1>3, <1>4 DEF Handles

(* The handle of the call is the one it was made on, with the new          *)
(* statement.                                                              *)
LEMMA BeganSays ==
    ASSUME NEW sd, NEW m, NEW s \in Nat, NEW h, handles[h] \in Handle, Says(sd, m, s, handles[h])
    PROVE  Began(h, s) \in Handle /\ Says(sd, m, s, Began(h, s))
           /\ Began(h, s).words = handles[h].words /\ Began(h, s).stmt = s
           /\ AllWords(Began(h, s)) = AllWords(handles[h])
<1>1. PICK k : k = handles[h]
  OBVIOUS
<1>2. PICK u : u = [k EXCEPT !.stmt = s]
  OBVIOUS
<1>3. u = [clone |-> k.clone, stmt |-> s, allow |-> k.allow, words |-> k.words, scopes |-> k.scopes,
           unscoped |-> k.unscoped, asked |-> k.asked]
  BY <1>1, <1>2 DEF Handle
<1>4. u \in Handle
  BY <1>1, <1>3 DEF Handle
<1>5. Says(sd, m, s, u)
  BY <1>1, <1>3 DEF Says, FlagsKept
<1>6. u = Began(h, s)
  BY <1>1, <1>2 DEF Began
<1>7. AllWords(u) = AllWords(k)
  BY <1>3 DEF AllWords
<1>8. QED BY <1>1, <1>3, <1>4, <1>5, <1>6, <1>7

(* When a call begins its statement says what was said on its handle.      *)
LEMMA BeginKeeps ==
    ASSUME Good, NEW h \in Used, NEW i, i = GetInstance(mem, handles[h]),
           NEW j, j.base = Began(h, i.stmt), Begin(i.mem, i.stmt, j)
    PROVE  /\ soft' = soft /\ table' = table /\ lastId' = lastId /\ Sends
           /\ Memory(mem') /\ Idle(handles') /\ BaseOk(soft, mem', j) /\ job' = j
<1>1. Memory(i.mem) /\ Says(soft, i.mem, i.stmt, handles[h]) /\ handles[h] \in Handle /\ Spoken(handles[h].words)
  BY Instance DEF Saying
<1>2. i.stmt \in DOMAIN i.mem.stmts /\ i.stmt \in Nat
  BY <1>1, SaysTyped DEF Memory
<1>3. /\ Began(h, i.stmt) \in Handle /\ Says(soft, i.mem, i.stmt, Began(h, i.stmt))
      /\ Began(h, i.stmt).words = handles[h].words /\ Began(h, i.stmt).stmt = i.stmt
  BY <1>1, <1>2, BeganSays
<1>4. mem' = Swept(i.mem, {i.stmt})
  BY DEF Begin
<1>5. /\ Memory(mem') /\ DOMAIN mem'.stmts = {i.stmt}
      /\ \A sd, t, k : t \in {i.stmt} /\ Says(sd, i.mem, t, k) => Says(sd, mem', t, k)
  BY <1>1, <1>2, <1>4, SweptKeeps
<1>6. BaseOk(soft, mem', j)
  BY <1>1, <1>3, <1>5 DEF BaseOk
<1>7. Idle(handles') /\ soft' = soft /\ table' = table /\ lastId' = lastId /\ job' = j /\ Quiet
  BY DEF Begin, Idle
<1>8. QED BY <1>5, <1>6, <1>7, QuietSends

(* The statements and arrays of a call that only it reaches are swept.     *)
LEMMA InJobKeeps ==
    ASSUME NEW m, Memory(m), job.base.stmt \in DOMAIN m.stmts, InJob(m)
    PROVE  /\ Memory(mem') /\ job.base.stmt \in DOMAIN mem'.stmts
           /\ \A sd, h : Says(sd, m, job.base.stmt, h) => Says(sd, mem', job.base.stmt, h)
           /\ soft' = soft /\ handles' = handles
<1>1. mem' = Swept(m, {job.base.stmt}) /\ soft' = soft /\ handles' = handles
  BY DEF InJob
<1>2. /\ Memory(mem') /\ DOMAIN mem'.stmts = {job.base.stmt}
      /\ \A sd, t, h : t \in {job.base.stmt} /\ Says(sd, m, t, h) => Says(sd, mem', t, h)
  BY <1>1, SweptKeeps
<1>3. QED BY <1>1, <1>2

(* A copy of the statement of the call.                                    *)
Copy(h) == [h EXCEPT !.clone = 2]
(* The copy says the same words.                                           *)
LEMMA CopyIs ==
    ASSUME NEW h \in Handle, Spoken(h.words)
    PROVE  /\ Copy(h) \in Handle /\ Saying(Copy(h)) /\ Copy(h).clone = 2
           /\ AllWords(Copy(h)) = AllWords(h) /\ Copy(h).words = h.words
           /\ Copy(h).unscoped = h.unscoped /\ Copy(h).stmt = h.stmt
           /\ \A sd, m, s : Says(sd, m, s, Copy(h)) <=> Says(sd, m, s, h)
           /\ \A key, after, row : Suits(Copy(h), key, after, row) <=> Suits(h, key, after, row)
<1>1. PICK u : u = [h EXCEPT !.clone = 2]
  OBVIOUS
<1>2. u = [clone |-> 2, stmt |-> h.stmt, allow |-> h.allow, words |-> h.words, scopes |-> h.scopes,
           unscoped |-> h.unscoped, asked |-> h.asked]
  BY <1>1 DEF Handle
<1>3. u \in Handle
  BY <1>2 DEF Handle
<1>4. Saying(u)
  BY <1>2, <1>3, HandleSaying
<1>5. AllWords(u) = AllWords(h)
  BY <1>2 DEF AllWords
<1>6. \A sd, m, s : Says(sd, m, s, u) <=> Says(sd, m, s, h)
  BY <1>2 DEF Says, FlagsKept
<1>7. \A key, after, row : Suits(u, key, after, row) <=> Suits(h, key, after, row)
  BY <1>2, <1>5 DEF Suits
<1>8. u = Copy(h)
  BY <1>1 DEF Copy
<1>9. QED BY <1>2, <1>3, <1>4, <1>5, <1>6, <1>7, <1>8

(* Its statement is a new one that says the same, and the call's is left   *)
(* alone.                                                                  *)
LEMMA CopyMade ==
    ASSUME Memory(mem), NEW h \in Handle, Spoken(h.words), NEW sd, Says(sd, mem, h.stmt, h),
           NEW i, i = GetInstance(mem, Copy(h))
    PROVE  /\ Memory(i.mem) /\ Says(sd, i.mem, i.stmt, Copy(h))
           /\ \A n : Grown(i.mem, n, i.stmt) => Memory(n) /\ Says(sd, n, h.stmt, h)
<1>1. /\ Copy(h) \in Handle /\ Copy(h).clone = 2 /\ Copy(h).stmt = h.stmt
      /\ Says(sd, mem, h.stmt, Copy(h))
  BY CopyIs
<1>2. Instanced(sd, mem, Copy(h), i)
  <2>1. /\ Copy(h).clone # -1 /\ (Copy(h).clone = 1 => Fresh(Copy(h)))
        /\ (Copy(h).clone # 1 => Says(sd, mem, Copy(h).stmt, Copy(h)))
    BY <1>1
  <2>2. QED BY <1>1, <2>1, GetInstanceSays
<1>3. Later(mem, i.mem, i.stmt) /\ Says(sd, i.mem, i.stmt, Copy(h)) /\ i.stmt \notin DOMAIN mem.stmts
  BY <1>1, <1>2 DEF Instanced
<1>4. h.stmt \in DOMAIN mem.stmts
  BY SaysTyped
<1>5. ASSUME NEW n, Grown(i.mem, n, i.stmt) PROVE Memory(n) /\ Says(sd, n, h.stmt, h)
  <2>1. Later(mem, n, i.stmt)
    BY <1>3, <1>5, GrownLater
  <2>2. h.stmt # i.stmt
    BY <1>3, <1>4
  <2>3. Says(sd, n, h.stmt, h)
    BY <2>1, <2>2, SaysLater
  <2>4. QED BY <2>1, <2>3 DEF Later
<1>6. QED BY <1>3, <1>5 DEF Later

-----------------------------------------------------------------------------
(* Rows in the order of their identifiers.                                 *)

(* One of the rows comes first.                                            *)
LEMMA LeastRow ==
    ASSUME NEW rows \in SUBSET Row, rows # {}
    PROVE  \E x \in rows : \A y \in rows : x.id <= y.id
<1> DEFINE T == {r.id : r \in rows}
<1>1. T \in SUBSET Nat /\ T # {}
  BY DEF Row, Ids
<1>2. PICK t \in T : \A y \in T : t <= y
  <2> HIDE DEF T
  <2> QED BY <1>1, LeastMember
<1>3. QED BY <1>2

(* One of them comes last.                                                 *)
LEMMA GreatestRow ==
    ASSUME NEW rows \in SUBSET Row, rows # {}
    PROVE  \E x \in rows : \A y \in rows : y.id <= x.id
<1> DEFINE T == {MaxId - r.id : r \in rows}
<1>1. MaxId \in Nat /\ \A r \in rows : r.id \in 1..MaxId
  BY BoundsAssumption DEF Row, Ids
<1>2. T \in SUBSET Nat /\ T # {}
  BY <1>1
<1>3. PICK t \in T : \A y \in T : t <= y
  <2> HIDE DEF T
  <2> QED BY <1>2, LeastMember
<1>4. PICK x \in rows : t = MaxId - x.id
  BY <1>3
<1>5. ASSUME NEW y \in rows PROVE y.id <= x.id
  <2>1. MaxId - x.id <= MaxId - y.id
    BY <1>3, <1>4
  <2>2. QED BY <1>1, <2>1
<1>6. QED BY <1>5

Below(rows, r)  == {q \in rows : q.id < r.id}
UpTo(rows, r)   == {q \in rows : q.id <= r.id}
(* Cardinalities of sets of rows.                                          *)
LEMMA Fewer ==
    ASSUME NEW rows, IsFiniteSet(rows), NEW T \in SUBSET rows
    PROVE  /\ IsFiniteSet(T) /\ Cardinality(T) \in Nat /\ Cardinality(rows) \in Nat
           /\ Cardinality(T) <= Cardinality(rows)
           /\ T # rows => Cardinality(T) < Cardinality(rows)
<1>1. /\ IsFiniteSet(T) /\ Cardinality(T) <= Cardinality(rows)
      /\ Cardinality(rows) = Cardinality(T) => rows = T
  BY FS_Subset
<1>2. Cardinality(T) \in Nat /\ Cardinality(rows) \in Nat
  BY <1>1, FS_CardinalityType
<1>3. QED BY <1>1, <1>2

(* Who is among the first n rows.                                          *)
LEMMA FirstOfMember ==
    ASSUME NEW rows, NEW n, NEW r
    PROVE  r \in FirstOf(n, rows) <=> r \in rows /\ Cardinality(Below(rows, r)) < n
BY DEF FirstOf, Below

(* The first n rows are no more than n, all before the others, and all     *)
(* rows when they are fewer.                                               *)
Before(S, T) == \A r \in S, q \in T : r.id < q.id
(* The first n rows.                                                       *)
LEMMA FirstOfIs ==
    ASSUME NEW rows, TableOk(rows), NEW n \in Nat
    PROVE  /\ FirstOf(n, rows) \subseteq rows /\ TableOk(FirstOf(n, rows))
           /\ Cardinality(FirstOf(n, rows)) \in Nat /\ Cardinality(FirstOf(n, rows)) <= n
           /\ Before(FirstOf(n, rows), rows \ FirstOf(n, rows))
           /\ Cardinality(FirstOf(n, rows)) < n => FirstOf(n, rows) = rows
<1> DEFINE T == FirstOf(n, rows)
           B(r) == Below(rows, r)
           card(S) == Cardinality(S)
<1>1. T \subseteq rows /\ \A r \in rows : r \in T <=> card(B(r)) < n
  BY FirstOfMember DEF FirstOf
<1>2. rows \subseteq Row /\ IsFiniteSet(rows) /\ \A r \in rows : r.id \in Nat
  BY DEF TableOk, Row, Ids
<1>3. \A r : B(r) \subseteq rows
  BY DEF Below
<1>4. \A S \in SUBSET rows : IsFiniteSet(S) /\ card(S) \in Nat
  BY <1>2, Fewer
<1>5. \A S \in SUBSET rows : \A R \in SUBSET S : card(R) <= card(S)
  BY <1>4, Fewer
<1> HIDE DEF T
<1>6. card(T) <= n
  <2>1. CASE T = {}
    BY <2>1, FS_EmptySet
  <2>2. CASE T # {}
    <3>1. PICK x \in T : \A y \in T : y.id <= x.id
      <4>1. T \in SUBSET Row
        BY <1>1, <1>2
      <4>2. QED BY <2>2, <4>1, GreatestRow
    <3>2. T \ {x} \subseteq B(x)
      <4>1. ASSUME NEW y \in T, y # x PROVE y \in B(x)
        <5>1. y \in rows /\ x \in rows /\ y.id # x.id
          BY <1>1, <4>1 DEF TableOk
        <5>2. y.id <= x.id
          BY <3>1
        <5>3. QED BY <1>2, <5>1, <5>2 DEF Below
      <4>2. QED BY <4>1
    <3>3. card(T \ {x}) <= card(B(x))
      BY <1>3, <1>5, <3>2
    <3>4. card(B(x)) < n
      BY <1>1, <3>1
    <3>5. card(T \ {x}) = card(T) - 1
      BY <1>1, <1>4, <3>1, FS_RemoveElement
    <3>6. card(T) \in Nat /\ card(B(x)) \in Nat
      BY <1>1, <1>3, <1>4
    <3> HIDE DEF card, B
    <3>7. QED BY <3>3, <3>4, <3>5, <3>6
  <2>3. QED BY <2>1, <2>2
<1>7. Before(T, rows \ T)
  <2>1. ASSUME NEW r \in T, NEW q \in rows \ T PROVE r.id < q.id
    <3>1. CASE q.id <= r.id
      <4>1. B(q) \subseteq B(r)
        BY <1>1, <1>2, <2>1, <3>1 DEF Below
      <4>2. card(B(q)) <= card(B(r)) /\ card(B(q)) \in Nat /\ card(B(r)) \in Nat
        BY <1>3, <1>4, <1>5, <4>1
      <4>3. card(B(r)) < n /\ ~(card(B(q)) < n)
        BY <1>1
      <4> HIDE DEF card, B
      <4>4. QED BY <4>2, <4>3
    <3>2. QED BY <1>1, <1>2, <3>1
  <2>2. QED BY <2>1 DEF Before
<1>8. ASSUME card(T) < n PROVE T = rows
  <2>1. SUFFICES ASSUME rows \ T # {} PROVE FALSE
    BY <1>1
  <2>2. PICK q \in rows \ T : \A y \in rows \ T : q.id <= y.id
    <3>1. rows \ T \in SUBSET Row
      BY <1>2
    <3>2. QED BY <2>1, <3>1, LeastRow
  <2>3. B(q) \subseteq T
    <3>1. ASSUME NEW y \in B(q), y \notin T PROVE FALSE
      <4>1. y \in rows \ T /\ y.id < q.id
        BY <3>1 DEF Below
      <4>2. QED BY <1>2, <2>2, <4>1
    <3>2. QED BY <3>1
  <2>4. card(B(q)) <= card(T) /\ card(B(q)) \in Nat /\ card(T) \in Nat
    BY <1>1, <1>3, <1>4, <1>5, <2>3
  <2>5. ~(card(B(q)) < n)
    BY <1>1, <2>2
  <2> HIDE DEF card, B
  <2>6. QED BY <1>8, <2>4, <2>5
<1>9. TableOk(T)
  BY <1>1, <1>4 DEF TableOk
<1>10. QED BY <1>1, <1>4, <1>6, <1>7, <1>8, <1>9 DEF T

(* Their identifiers one after the other.                                  *)
Rises(s)        == \A j, k \in DOMAIN s : j < k => s[j] < s[k]
Lists(s, rows)  == {s[k] : k \in DOMAIN s} = {r.id : r \in rows}
(* Ascending gives the identifiers of the rows, each once and rising.      *)
LEMMA AscendingIs ==
    ASSUME NEW rows, TableOk(rows)
    PROVE  /\ Ascending(rows) \in Seq(Ids) /\ Len(Ascending(rows)) = Cardinality(rows)
           /\ Rises(Ascending(rows)) /\ Lists(Ascending(rows), rows)
<1> DEFINE rank == [r \in rows |-> Cardinality(UpTo(rows, r))]
           n    == Cardinality(rows)
<1>1. rows \subseteq Row /\ IsFiniteSet(rows) /\ (\A r \in rows : r.id \in Nat /\ r.id \in Ids) /\ n \in Nat
  BY FS_CardinalityType DEF TableOk, Row, Ids
<1>2. \A r : UpTo(rows, r) \subseteq rows
  BY DEF UpTo
<1>3. \A r \in rows : IsFiniteSet(UpTo(rows, r)) /\ rank[r] \in Nat /\ rank[r] <= n
  BY <1>1, <1>2, Fewer
<1>4. \A r \in rows : rank[r] # 0
  <2>1. \A r \in rows : r \in UpTo(rows, r)
    BY <1>1 DEF UpTo
  <2>2. QED BY <1>3, <2>1, FS_EmptySet
<1>5. rank \in [rows -> 1..n]
  BY <1>1, <1>3, <1>4
<1>6. \A r, q \in rows : r.id < q.id => rank[r] < rank[q]
  <2>1. ASSUME NEW r \in rows, NEW q \in rows, r.id < q.id PROVE rank[r] < rank[q]
    <3>1. UpTo(rows, r) \subseteq UpTo(rows, q)
      BY <1>1, <2>1 DEF UpTo
    <3>2. q \in UpTo(rows, q) /\ q \notin UpTo(rows, r)
      BY <1>1, <2>1 DEF UpTo
    <3>3. IsFiniteSet(UpTo(rows, q)) /\ UpTo(rows, r) # UpTo(rows, q)
      BY <1>3, <3>2
    <3>4. Cardinality(UpTo(rows, r)) < Cardinality(UpTo(rows, q))
      BY <3>1, <3>3, Fewer
    <3>5. QED BY <3>4
  <2>2. QED BY <2>1
<1>7. \A r, q \in rows : rank[r] = rank[q] => r = q
  <2>1. ASSUME NEW r \in rows, NEW q \in rows, rank[r] = rank[q] PROVE r = q
    <3>1. ~(r.id < q.id) /\ ~(q.id < r.id)
      <4> HIDE DEF rank
      <4> QED BY <1>5, <1>6, <2>1
    <3>2. r.id = q.id
      BY <1>1, <3>1
    <3>3. QED BY <3>2 DEF TableOk
  <2>2. QED BY <2>1
<1>8. \A k \in 1..n : \E r \in rows : rank[r] = k
  <2> HIDE DEF rank
  <2>1. rank \in Injection(rows, 1..n)
    BY <1>5, <1>7, Fun_IsInj
  <2>2. IsFiniteSet(1..n) /\ Cardinality(1..n) = n
    BY <1>1, FS_Interval
  <2>3. rank \in Surjection(rows, 1..n)
    BY <2>1, <2>2, FS_Injection
  <2>4. QED BY <2>3 DEF Surjection
<1> DEFINE a == Ascending(rows)
           Is(k) == CHOOSE r \in rows : Cardinality({q \in rows : q.id <= r.id}) = k
<1>9. a = [k \in 1..n |-> Is(k).id]
  BY DEF Ascending
<1>10. \A r \in rows : rank[r] = Cardinality({q \in rows : q.id <= r.id})
  BY DEF UpTo
<1>11. \A k \in 1..n : Is(k) \in rows /\ rank[Is(k)] = k
  BY <1>8, <1>10
<1> HIDE DEF rank, Is, a
<1>12. a \in Seq(Ids) /\ Len(a) = n /\ DOMAIN a = 1..n
  <2>1. \A k \in 1..n : Is(k).id \in Ids
    BY <1>1, <1>11
  <2>2. a \in [1..n -> Ids]
    BY <1>9, <2>1
  <2>3. QED BY <1>1, <2>2, <1>9
<1>13. Rises(a)
  <2>1. ASSUME NEW j \in 1..n, NEW k \in 1..n, j < k PROVE a[j] < a[k]
    <3>1. Is(j) \in rows /\ Is(k) \in rows /\ rank[Is(j)] = j /\ rank[Is(k)] = k
      BY <1>11
    <3>2. Is(j).id # Is(k).id
      BY <1>1, <2>1, <3>1 DEF TableOk
    <3>3. ~(Is(k).id < Is(j).id)
      BY <1>1, <1>6, <2>1, <3>1
    <3>4. QED BY <1>1, <1>9, <3>1, <3>2, <3>3
  <2>2. QED BY <1>12, <2>1 DEF Rises
<1>14. Lists(a, rows)
  <2>1. ASSUME NEW r \in rows PROVE \E k \in DOMAIN a : a[k] = r.id
    <3>1. rank[r] \in 1..n
      BY <1>5
    <3>2. Is(rank[r]) = r
      BY <1>7, <1>11, <3>1
    <3>3. QED BY <1>9, <1>12, <3>1, <3>2
  <2>2. ASSUME NEW k \in DOMAIN a PROVE \E r \in rows : a[k] = r.id
    BY <1>9, <1>11, <1>12
  <2>3. QED BY <2>1, <2>2 DEF Lists
<1>15. QED BY <1>12, <1>13, <1>14 DEF a

-----------------------------------------------------------------------------
(* FindInBatches.  While a limit is left the batches that were handed out  *)
(* are full ones and the next one does not pass it, or the next one ends   *)
(* there.                                                                  *)

Sizes(total, size, batch, n) ==
    total > 0 => \/ n = batch * size /\ n + size <= total
                 \/ n + size = total
SizeAfter(total, size, batch) ==
    IF total > 0 /\ total \div size = batch + 1 THEN total % size ELSE size

(* The batch after one that was not the last (finisher_api.go:215-226).    *)
LEMMA SizesGoOn ==
    ASSUME NEW total \in Nat, NEW size \in Nat \ {0}, NEW batch \in Nat, NEW n \in Nat,
           Sizes(total, size, batch, n), ~(total > 0 /\ total <= n + size)
    PROVE  /\ SizeAfter(total, size, batch) \in 1..size
           /\ Sizes(total, SizeAfter(total, size, batch), batch + 1, n + size)
<1>1. CASE total = 0
  BY <1>1 DEF SizeAfter, Sizes
<1>2. CASE total > 0
  <2>1. n = batch * size /\ n + size < total
    BY <1>2 DEF Sizes
  <2> DEFINE q == total \div size
             r == total % size
             p == batch * size
  <2>2. q \in Nat /\ r \in 0..(size - 1) /\ total = q * size + r /\ p \in Nat
    BY <1>2
  <2>3. (batch + 1) * size = p + size /\ (batch + 2) * size = p + size + size
    OBVIOUS
  <2>4. n = p
    BY <2>1
  <2>5. CASE q = batch + 1
    <3>1. total = p + size + r
      BY <2>2, <2>3, <2>5
    <3>2. SizeAfter(total, size, batch) = r
      BY <1>2, <2>5 DEF SizeAfter
    <3> HIDE DEF q, r, p
    <3>3. r \in 1..size /\ n + size + r = total
      BY <2>1, <2>2, <2>4, <3>1
    <3>4. QED BY <3>2, <3>3 DEF Sizes
  <2>6. CASE q # batch + 1
    <3>1. SizeAfter(total, size, batch) = size
      BY <2>6 DEF SizeAfter
    <3>2. q >= batch + 2
      <4>1. SUFFICES ASSUME q <= batch PROVE FALSE
        BY <2>2, <2>6
      <4>2. q * size <= p
        <5>1. \A a, b, c \in Nat : a <= b => a * c <= b * c
          OBVIOUS
        <5> HIDE DEF q
        <5>2. QED BY <2>2, <4>1, <5>1
      <4> HIDE DEF q, r, p
      <4>3. QED BY <2>1, <2>2, <2>4, <4>2
    <3>3. q * size >= p + size + size
      <4>1. \A a, b, c \in Nat : a <= b => a * c <= b * c
        OBVIOUS
      <4> HIDE DEF q
      <4>2. (batch + 2) * size <= q * size
        BY <2>2, <3>2, <4>1
      <4>3. QED BY <2>3, <4>2
    <3>4. n + size + size <= total
      <4> HIDE DEF q, r, p
      <4> DEFINE x == q * size
      <4>1. x \in Nat
        BY <2>2
      <4>2. total = x + r /\ x >= p + size + size
        BY <2>2, <3>3
      <4> HIDE DEF x
      <4>3. QED BY <2>2, <2>4, <4>1, <4>2
    <3>5. n + size = (batch + 1) * size
      BY <2>3, <2>4
    <3>6. QED BY <3>1, <3>4, <3>5 DEF Sizes
  <2>7. QED BY <2>5, <2>6
<1>3. QED BY <1>1, <1>2

(* What was handed out, and what is to come.                               *)
Handed(j) ==
    IF j.batch = 0 THEN j.got = <<>> /\ j.last = 0 /\ j.due = {}
    ELSE j.got # <<>> /\ j.last = j.got[Len(j.got)]
Awaits(tbl, j) ==
    \A i \in j.due \ j.touched :
        i \in Delivered(j) \/ \E r \in tbl : r.id = i /\ Suits(j.base, 0, j.last, r)
Done(j)   == j.due \ j.touched \subseteq Delivered(j) \/ (j.total > 0 /\ Len(j.got) = j.total)
Counts(j) == Sizes(j.total, j.size, j.batch, Len(j.got))
BatchOk(tbl, j) ==
    /\ ~HasOr(j.base.words) /\ Rises(j.got)
    /\ j.total > 0 => Len(j.got) <= j.total
    /\ j.state = "run" => Counts(j) /\ Handed(j) /\ Awaits(tbl, j)
    /\ j.state = "ok"  => Done(j)

(* A rising sequence followed by a rising one whose members are greater.   *)
LEMMA RisesConcat ==
    ASSUME NEW s \in Seq(Ids), NEW u \in Seq(Ids), Rises(s), Rises(u), NEW last \in Nat,
           \A k \in DOMAIN s : s[k] <= last, \A k \in DOMAIN u : last < u[k]
    PROVE  Rises(s \o u)
<1> DEFINE len == Len(s)
           w   == s \o u
<1>1. /\ len \in Nat /\ DOMAIN s = 1..len /\ DOMAIN u = 1..Len(u) /\ Len(u) \in Nat
      /\ \A k \in DOMAIN s : s[k] \in Nat
      /\ \A k \in DOMAIN u : u[k] \in Nat
  <2>1. /\ len \in Nat /\ DOMAIN s = 1..len /\ DOMAIN u = 1..Len(u) /\ Len(u) \in Nat
        /\ \A k \in DOMAIN s : s[k] \in Ids
        /\ \A k \in DOMAIN u : u[k] \in Ids
    BY SeqFacts
  <2>2. Ids \subseteq Nat
    BY DEF Ids
  <2>3. QED BY <2>1, <2>2
<1>2. \A k \in DOMAIN w : \/ k \in DOMAIN s /\ w[k] = s[k]
                          \/ k - len \in DOMAIN u /\ w[k] = u[k - len]
  BY <1>1, Concat
<1>3. DOMAIN w \subseteq Nat
  BY <1>1, Concat
<1> HIDE DEF len, w
<1>4. ASSUME NEW j \in DOMAIN w, NEW k \in DOMAIN w, j < k PROVE w[j] < w[k]
  <2>1. CASE j \in DOMAIN s /\ w[j] = s[j] /\ k \in DOMAIN s /\ w[k] = s[k]
    BY <1>4, <2>1 DEF Rises
  <2>2. CASE j - len \in DOMAIN u /\ w[j] = u[j - len] /\ k - len \in DOMAIN u /\ w[k] = u[k - len]
    <3>1. j - len < k - len
      BY <1>1, <1>3, <1>4
    <3>2. QED BY <2>2, <3>1 DEF Rises
  <2>3. CASE j \in DOMAIN s /\ w[j] = s[j] /\ k - len \in DOMAIN u /\ w[k] = u[k - len]
    BY <1>1, <2>3
  <2>4. CASE j - len \in DOMAIN u /\ k \in DOMAIN s
    BY <1>1, <1>3, <1>4, <2>4
  <2>5. QED BY <1>2, <2>1, <2>2, <2>3, <2>4
<1>5. QED BY <1>4 DEF Rises, w

(* The last one of a rising sequence is the greatest.                      *)
LEMMA RisesLast ==
    ASSUME NEW s \in Seq(Ids), Rises(s), s # <<>>
    PROVE  s[Len(s)] \in Ids /\ \A k \in DOMAIN s : s[k] <= s[Len(s)]
<1>1. Len(s) \in Nat /\ DOMAIN s = 1..Len(s) /\ (\A k \in DOMAIN s : s[k] \in Ids) /\ Len(s) \in DOMAIN s
  BY SeqFacts
<1>2. Ids \subseteq Nat
  BY DEF Ids
<1> DEFINE len == Len(s)
<1>3. /\ len \in Nat /\ DOMAIN s = 1..len /\ len \in DOMAIN s
      /\ \A k \in DOMAIN s : s[k] \in Nat
  BY <1>1, <1>2
<1> HIDE DEF len
<1>4. ASSUME NEW k \in DOMAIN s PROVE s[k] <= s[len]
  <2>1. k = len \/ k < len
    BY <1>3
  <2>2. s[k] \in Nat /\ s[len] \in Nat
    BY <1>3
  <2>3. k < len => s[k] < s[len]
    BY <1>3 DEF Rises
  <2>4. QED BY <2>1, <2>2, <2>3
<1>5. QED BY <1>1, <1>4 DEF len

(* A row that was asked for and comes after a later batch is still asked   *)
(* for.                                                                    *)
LEMMA SuitsLater ==
    ASSUME NEW h, NEW key, NEW a, NEW b, NEW row, Suits(h, key, a, row), row.id > b
    PROVE  Suits(h, key, b, row)
BY DEF Suits

(* One batch.  rest are the rows that the call may still hand out, rows    *)
(* those that it hands out.                                                *)
Due(j, rest) == IF j.batch # 0 THEN j.due
                ELSE {r.id : r \in IF j.total = 0 THEN rest ELSE FirstOf(j.total, rest)}
Batch(j, tbl, rest, rows) ==
    \E all \in {{r \in tbl : Suits(j.base, 0, j.last, r)}} :
        /\ rest = Rest(IF j.batch = 0 THEN j.offset ELSE 0, all)
        /\ rows = FirstOf(j.size, rest)

BatchFacts(j, tbl, rest, rows) ==
    /\ rest \subseteq tbl /\ TableOk(rest) /\ rows \subseteq rest /\ TableOk(rows)
    /\ Cardinality(rows) \in Nat /\ Cardinality(rows) <= j.size
    /\ Before(rows, rest \ rows) /\ (Cardinality(rows) < j.size => rows = rest)
    /\ \A r \in rest : Suits(j.base, 0, j.last, r)
    /\ j.batch # 0 => \A r \in tbl : Suits(j.base, 0, j.last, r) => r \in rest
(* What is known of one batch.                                             *)
LEMMA BatchIs ==
    ASSUME NEW j \in BatchJob, NEW tbl, TableOk(tbl), NEW rest, NEW rows, Batch(j, tbl, rest, rows)
    PROVE  BatchFacts(j, tbl, rest, rows)
<1>1. PICK all : /\ all = {r \in tbl : Suits(j.base, 0, j.last, r)}
                 /\ rest = Rest(IF j.batch = 0 THEN j.offset ELSE 0, all)
                 /\ rows = FirstOf(j.size, rest)
  BY DEF Batch
<1>2. all \subseteq tbl /\ rest \subseteq all
  BY <1>1 DEF Rest
<1>3. TableOk(all) /\ TableOk(rest)
  <2>1. IsFiniteSet(all) /\ IsFiniteSet(rest)
    BY <1>2, FS_Subset DEF TableOk
  <2>2. QED BY <1>2, <2>1 DEF TableOk
<1>4. j.size \in Nat /\ j.size > 0
  BY DEF BatchJob
<1>5. /\ rows \subseteq rest /\ TableOk(rows)
      /\ Cardinality(rows) \in Nat /\ Cardinality(rows) <= j.size
      /\ Before(rows, rest \ rows) /\ (Cardinality(rows) < j.size => rows = rest)
  <2> DEFINE n == j.size
  <2> HIDE DEF n
  <2>1. n \in Nat /\ rows = FirstOf(n, rest)
    BY <1>1, <1>4 DEF n
  <2>2. /\ rows \subseteq rest /\ TableOk(rows)
        /\ Cardinality(rows) \in Nat /\ Cardinality(rows) <= n
        /\ Before(rows, rest \ rows) /\ (Cardinality(rows) < n => rows = rest)
    BY <1>3, <2>1, FirstOfIs
  <2>3. QED BY <2>2 DEF n
<1>6. j.batch # 0 => rest = all
  <2>1. IsFiniteSet(all)
    BY <1>3 DEF TableOk
  <2>2. Rest(0, all) = all
    BY <2>1, FirstOfNothing
  <2>3. QED BY <1>1, <2>2
<1>7. QED BY <1>1, <1>2, <1>3, <1>5, <1>6 DEF BatchFacts

(* The job after it.                                                       *)
After(j, rest, rows) ==
    LET n   == Cardinality(rows)
        got == j.got \o Ascending(rows)
    IN  [j EXCEPT
            !.got   = got,
            !.batch = @ + 1,
            !.due   = IF j.batch # 0 THEN @
                      ELSE {r.id : r \in IF j.total = 0 THEN rest ELSE FirstOf(j.total, rest)},
            !.state = IF LastBatch(j, n) THEN "ok" ELSE "run",
            !.size  = IF LastBatch(j, n) THEN @ ELSE NextSize(j),
            !.last  = IF LastBatch(j, n) THEN @ ELSE got[Len(got)]]

(* What it consists of.                                                    *)
Advanced(j, k, rest, rows, got, n, end) ==
        /\ got = j.got \o Ascending(rows) /\ n = Cardinality(rows)
        /\ end = LastBatch(j, n)
        /\ k = [kind |-> "batches", state |-> IF end THEN "ok" ELSE "run", base |-> j.base,
                touched |-> j.touched, total |-> j.total, offset |-> j.offset, batch |-> j.batch + 1,
                last |-> IF end THEN j.last ELSE got[Len(got)],
                size |-> IF end THEN j.size ELSE SizeAfter(j.total, j.size, j.batch),
                got |-> got, due |-> Due(j, rest)]

(* The job after a batch, field by field.                                  *)
LEMMA AfterIs ==
    ASSUME NEW j \in BatchJob, NEW rest, NEW rows
    PROVE  \E got, n, end : Advanced(j, After(j, rest, rows), rest, rows, got, n, end)
<1>1. PICK got : got = j.got \o Ascending(rows)
  OBVIOUS
<1>2. PICK n : n = Cardinality(rows)
  OBVIOUS
<1>3. PICK end : end = LastBatch(j, n)
  OBVIOUS
<1>4. NextSize(j) = SizeAfter(j.total, j.size, j.batch)
  BY DEF NextSize, SizeAfter
<1>5. PICK due : due = Due(j, rest)
  OBVIOUS
<1>6. After(j, rest, rows) =
        [j EXCEPT
            !.got   = got,
            !.batch = j.batch + 1,
            !.due   = due,
            !.state = IF end THEN "ok" ELSE "run",
            !.size  = IF end THEN j.size ELSE SizeAfter(j.total, j.size, j.batch),
            !.last  = IF end THEN j.last ELSE got[Len(got)]]
  BY <1>1, <1>2, <1>3, <1>4, <1>5 DEF After, Due
<1>7. After(j, rest, rows) =
         [kind |-> "batches", state |-> IF end THEN "ok" ELSE "run", base |-> j.base,
                touched |-> j.touched, total |-> j.total, offset |-> j.offset, batch |-> j.batch + 1,
                last |-> IF end THEN j.last ELSE got[Len(got)],
                size |-> IF end THEN j.size ELSE SizeAfter(j.total, j.size, j.batch),
                got |-> got, due |-> due]
  BY <1>6 DEF BatchJob
<1>8. Advanced(j, After(j, rest, rows), rest, rows, got, n, end)
  BY <1>1, <1>2, <1>3, <1>5, <1>7, Zenon DEF Advanced
<1>9. QED BY <1>8

Entries(s) == {s[k] : k \in DOMAIN s}
(* The length and the entries of a sequence made of two.                   *)
LEMMA LengthConcat ==
    ASSUME NEW s \in Seq(Ids), NEW u \in Seq(Ids), NEW w, w = s \o u
    PROVE  /\ w \in Seq(Ids) /\ Len(s) \in Nat /\ Len(w) = Len(s) + Len(u)
           /\ Entries(w) = Entries(s) \cup Entries(u)
<1>1. /\ w \in Seq(Ids) /\ Len(w) = Len(s) + Len(u) /\ DOMAIN w = 1..(Len(s) + Len(u))
      /\ \A i \in 1..Len(s) : w[i] = s[i]
      /\ \A i \in 1..Len(u) : w[Len(s) + i] = u[i]
      /\ \A i \in DOMAIN w : \/ i \in 1..Len(s) /\ w[i] = s[i]
                             \/ i - Len(s) \in 1..Len(u) /\ w[i] = u[i - Len(s)]
  BY Concat
<1>2. DOMAIN s = 1..Len(s) /\ DOMAIN u = 1..Len(u) /\ Len(s) \in Nat /\ Len(u) \in Nat
  BY SeqFacts
<1> DEFINE m == Len(s)
           n == Len(u)
<1>3. /\ m \in Nat /\ n \in Nat /\ DOMAIN w = 1..(m + n) /\ DOMAIN s = 1..m /\ DOMAIN u = 1..n
      /\ \A i \in 1..m : w[i] = s[i]
      /\ \A i \in 1..n : w[m + i] = u[i]
      /\ \A i \in DOMAIN w : \/ i \in 1..m /\ w[i] = s[i]
                             \/ i - m \in 1..n /\ w[i] = u[i - m]
  BY <1>1, <1>2
<1> HIDE DEF m, n
<1>4. ASSUME NEW k \in DOMAIN s PROVE k \in DOMAIN w /\ w[k] = s[k]
  BY <1>3
<1>5. ASSUME NEW k \in DOMAIN u PROVE m + k \in DOMAIN w /\ w[m + k] = u[k]
  BY <1>3
<1>6. ASSUME NEW k \in DOMAIN w
      PROVE  (\E i \in DOMAIN s : w[k] = s[i]) \/ (\E i \in DOMAIN u : w[k] = u[i])
  BY <1>3
<1>7. {w[k] : k \in DOMAIN w} = {s[k] : k \in DOMAIN s} \cup {u[k] : k \in DOMAIN u}
  <2>1. \A x : x \in {w[k] : k \in DOMAIN w} => x \in {s[k] : k \in DOMAIN s} \cup {u[k] : k \in DOMAIN u}
    BY <1>6
  <2>2. \A x : x \in {s[k] : k \in DOMAIN s} => x \in {w[k] : k \in DOMAIN w}
    BY <1>4
  <2>3. \A x : x \in {u[k] : k \in DOMAIN u} => x \in {w[k] : k \in DOMAIN w}
    BY <1>5
  <2>4. QED BY <2>1, <2>2, <2>3
<1>8. QED BY <1>1, <1>2, <1>7 DEF Entries

(* When a batch is the last one.                                           *)
LEMMA LastIs ==
    ASSUME NEW j \in BatchJob, NEW n
    PROVE  LastBatch(j, n) <=> n < j.size \/ (j.total > 0 /\ j.total <= Len(j.got) + n)
BY DEF LastBatch

(* The identifiers that are due and left alone, before the batch.          *)
LEMMA StillDue ==
    ASSUME NEW j \in BatchJob, NEW tbl, TableOk(tbl), Handed(j), Awaits(tbl, j),
           NEW rest, NEW rows, Batch(j, tbl, rest, rows)
    PROVE  /\ Due(j, rest) \in SUBSET Ids
           /\ \A i \in Due(j, rest) \ j.touched : i \in Delivered(j) \/ \E r \in rest : r.id = i
<1>1. /\ rest \subseteq tbl /\ TableOk(rest)
      /\ j.batch # 0 => \A r \in tbl : Suits(j.base, 0, j.last, r) => r \in rest
  BY BatchIs DEF BatchFacts
<1>2. CASE j.batch # 0
  <2>1. Due(j, rest) = j.due
    BY <1>2 DEF Due
  <2>2. j.due \in SUBSET Ids
    BY DEF BatchJob
  <2>3. QED BY <1>1, <1>2, <2>1, <2>2 DEF Awaits
<1>3. CASE j.batch = 0
  <2>1. Due(j, rest) \subseteq {r.id : r \in rest}
    <3>1. FirstOf(j.total, rest) \subseteq rest
      BY DEF FirstOf
    <3>2. QED BY <1>3, <3>1 DEF Due
  <2>2. {r.id : r \in rest} \subseteq Ids
    BY <1>1 DEF TableOk, Row
  <2>3. QED BY <2>1, <2>2
<1>4. QED BY <1>2, <1>3

(* One batch keeps what holds of the call: what was due and left alone is  *)
(* handed out or still to come.                                            *)
LEMMA BatchAdvances ==
    ASSUME NEW j \in BatchJob, NEW tbl, TableOk(tbl), BatchOk(tbl, j), j.state = "run",
           NEW rest, NEW rows, Batch(j, tbl, rest, rows),
           NEW k, NEW got, NEW n, NEW end, Advanced(j, k, rest, rows, got, n, end)
    PROVE  k \in BatchJob /\ BatchOk(tbl, k)
<1> DEFINE u == Ascending(rows)
           len == Len(j.got)
           due == Due(j, rest)
<1>1. /\ rest \subseteq tbl /\ TableOk(rest) /\ rows \subseteq rest /\ TableOk(rows)
      /\ n \in Nat /\ n <= j.size
      /\ Before(rows, rest \ rows) /\ (n < j.size => rows = rest)
      /\ \A r \in rest : Suits(j.base, 0, j.last, r)
  <2>0. BatchFacts(j, tbl, rest, rows)
    BY BatchIs
  <2>1. /\ rest \subseteq tbl /\ TableOk(rest) /\ rows \subseteq rest /\ TableOk(rows)
        /\ Cardinality(rows) \in Nat /\ Cardinality(rows) <= j.size
        /\ Before(rows, rest \ rows) /\ (Cardinality(rows) < j.size => rows = rest)
        /\ \A r \in rest : Suits(j.base, 0, j.last, r)
    BY <2>0 DEF BatchFacts
  <2>2. n = Cardinality(rows)
    BY DEF Advanced
  <2>3. QED BY <2>1, <2>2
<1>2. u \in Seq(Ids) /\ Len(u) = n /\ Rises(u) /\ Lists(u, rows)
  BY <1>1, AscendingIs DEF Advanced
<1>3. /\ ~HasOr(j.base.words) /\ Rises(j.got) /\ (j.total > 0 => len <= j.total)
      /\ Counts(j) /\ Handed(j) /\ Awaits(tbl, j)
  BY DEF BatchOk
<1>4. /\ j.state \in States /\ j.base \in Handle /\ j.touched \in SUBSET Ids /\ j.total \in Nat
      /\ j.offset \in Nat /\ j.batch \in Nat /\ j.last \in Nat /\ j.size \in 1..MaxBatch
      /\ j.got \in Seq(Ids) /\ j.due \in SUBSET Ids
  BY DEF BatchJob
<1> HIDE DEF u
<1>5. got = j.got \o u /\ (end <=> LastBatch(j, n)) /\ end = LastBatch(j, n)
  BY DEF Advanced, u
<1>6. /\ got \in Seq(Ids) /\ len \in Nat /\ Len(got) = len + n
      /\ {got[i] : i \in DOMAIN got} = {j.got[i] : i \in DOMAIN j.got} \cup {u[i] : i \in DOMAIN u}
  <2> DEFINE s == j.got
  <2>1. s \in Seq(Ids) /\ got = s \o u
    BY <1>4, <1>5
  <2> HIDE DEF s
  <2>2. /\ got \in Seq(Ids) /\ Len(s) \in Nat /\ Len(got) = Len(s) + Len(u)
        /\ Entries(got) = Entries(s) \cup Entries(u)
    BY <1>2, <2>1, LengthConcat
  <2>3. QED BY <1>2, <2>2 DEF s, Entries
<1>7. k = [kind |-> "batches", state |-> IF end THEN "ok" ELSE "run", base |-> j.base,
                touched |-> j.touched, total |-> j.total, offset |-> j.offset, batch |-> j.batch + 1,
                last |-> IF end THEN j.last ELSE got[Len(got)],
                size |-> IF end THEN j.size ELSE SizeAfter(j.total, j.size, j.batch),
                got |-> got, due |-> due]
  BY DEF Advanced
<1>8. /\ k.state = (IF end THEN "ok" ELSE "run") /\ k.base = j.base /\ k.touched = j.touched /\ k.total = j.total
      /\ k.batch = j.batch + 1 /\ k.last = (IF end THEN j.last ELSE got[Len(got)])
      /\ k.size = (IF end THEN j.size ELSE SizeAfter(j.total, j.size, j.batch)) /\ k.got = got /\ k.due = due
  BY <1>7
<1>9. end <=> n < j.size \/ (j.total > 0 /\ j.total <= len + n)
  BY <1>5, LastIs
<1>10. due \in SUBSET Ids /\ \A i \in due \ j.touched : i \in Delivered(j) \/ \E r \in rest : r.id = i
  BY <1>3, StillDue
<1>11. Delivered(k) = Delivered(j) \cup {r.id : r \in rows}
  BY <1>2, <1>6, <1>8 DEF Delivered, Lists
<1> HIDE DEF due, len
<1>12. j.size \in Nat \ {0} /\ MaxBatch \in Nat
  BY <1>4, BoundsAssumption
<1>13. j.total > 0 => Len(got) <= j.total
  <2>1. j.total > 0 => len + j.size <= j.total
    BY <1>3, <1>4, <1>6, <1>12 DEF Counts, Sizes, len
  <2>2. QED BY <1>1, <1>4, <1>6, <1>12, <2>1
<1>14. Rises(got)
  <2>1. ASSUME NEW i \in DOMAIN u PROVE j.last < u[i]
    <3>1. PICK r \in rows : u[i] = r.id
      BY <1>2 DEF Lists
    <3>2. r.id > j.last
      BY <1>1, <3>1 DEF Suits
    <3>3. r.id \in Nat
      BY <1>1, <3>1 DEF TableOk, Row, Ids
    <3>4. QED BY <1>4, <3>1, <3>2, <3>3
  <2>2. \A i \in DOMAIN j.got : j.got[i] <= j.last
    <3>1. CASE j.batch = 0
      <4>1. DOMAIN j.got = {}
        BY <1>3, <3>1 DEF Handed
      <4>2. QED BY <4>1
    <3>2. CASE j.batch # 0
      <4>1. j.got # <<>> /\ j.last = j.got[Len(j.got)]
        BY <1>3, <3>2 DEF Handed
      <4> DEFINE s == j.got
      <4> HIDE DEF s
      <4>2. s \in Seq(Ids) /\ Rises(s) /\ s # <<>>
        BY <1>3, <1>4, <4>1 DEF s
      <4>3. \A i \in DOMAIN s : s[i] <= s[Len(s)]
        BY <4>2, RisesLast
      <4>4. QED BY <4>1, <4>3 DEF s
    <3>3. QED BY <3>1, <3>2
  <2>3. QED BY <1>2, <1>3, <1>4, <1>5, <2>1, <2>2, RisesConcat
<1>15. CASE end
  <2>1. Done(k)
    <3>1. CASE n < j.size
      <4>1. \A i \in due \ j.touched : i \in Delivered(k)
        BY <1>1, <1>10, <1>11, <3>1
      <4>2. QED BY <1>8, <4>1 DEF Done
    <3>2. CASE ~(n < j.size)
      <4>1. j.total > 0 /\ j.total <= len + n
        BY <1>9, <1>15, <3>2
      <4>2. Len(got) = j.total
        BY <1>1, <1>4, <1>6, <1>13, <4>1
      <4>3. QED BY <1>8, <4>1, <4>2 DEF Done
    <3>3. QED BY <3>1, <3>2
  <2>2. k.state = "ok"
    BY <1>8, <1>15
  <2>3. BatchOk(tbl, k)
    BY <1>3, <1>8, <1>13, <1>14, <2>1, <2>2 DEF BatchOk
  <2>4. k \in BatchJob
    <3>1. k = [kind |-> "batches", state |-> "ok", base |-> j.base,
            touched |-> j.touched, total |-> j.total, offset |-> j.offset, batch |-> j.batch + 1,
            last |-> j.last, size |-> j.size, got |-> got, due |-> due]
      BY <1>7, <1>15
    <3>2. QED BY <1>4, <1>6, <1>10, <3>1 DEF BatchJob, States
  <2>5. QED BY <2>3, <2>4
<1>16. CASE ~end
  <2> DEFINE size == SizeAfter(j.total, j.size, j.batch)
  <2>1. n = j.size /\ ~(j.total > 0 /\ j.total <= len + n)
    BY <1>1, <1>9, <1>12, <1>16
  <2>2. size \in 1..j.size /\ Sizes(j.total, size, j.batch + 1, len + n)
    <3>1. Sizes(j.total, j.size, j.batch, len)
      BY <1>3 DEF Counts, len
    <3> DEFINE total == j.total
               old   == j.size
               batch == j.batch
    <3> HIDE DEF total, old, batch
    <3>2. /\ total \in Nat /\ old \in Nat \ {0} /\ batch \in Nat /\ Sizes(total, old, batch, len)
          /\ ~(total > 0 /\ total <= len + old)
      BY <1>4, <1>12, <2>1, <3>1 DEF total, old, batch
    <3>3. SizeAfter(total, old, batch) \in 1..old /\ Sizes(total, SizeAfter(total, old, batch), batch + 1, len + old)
      BY <1>6, <3>2, SizesGoOn
    <3>4. QED BY <2>1, <3>3 DEF total, old, batch
  <2> HIDE DEF size
  <2>3. got # <<>> /\ got[Len(got)] \in Ids /\ \A i \in DOMAIN got : got[i] <= got[Len(got)]
    <3>1. got # <<>>
      <4>1. Len(got) # 0
        BY <1>6, <1>12, <2>1
      <4>2. QED BY <1>6, <4>1, SeqFacts
    <3>2. QED BY <1>6, <1>14, <3>1, RisesLast
  <2> DEFINE last == got[Len(got)]
  <2>4. k.state = "run" /\ k.last = last /\ k.size = size
    BY <1>8, <1>16 DEF size
  <2>5. Counts(k)
    BY <1>6, <1>8, <2>2, <2>4 DEF Counts
  <2>6. Handed(k)
    <3>1. k.batch # 0
      BY <1>4, <1>8
    <3>2. QED BY <1>8, <2>3, <2>4, <3>1 DEF Handed
  <2>7. \E r \in rows : r.id = last
    <3>1. u # <<>> /\ Len(u) \in DOMAIN u
      BY <1>2, <1>12, <2>1, SeqFacts
    <3>2. got[Len(got)] = u[Len(u)]
      <4>1. u \in Seq(Ids) /\ j.got \in Seq(Ids) /\ Len(u) \in 1..Len(u)
        BY <1>2, <1>4, <1>12, <2>1
      <4>2. (j.got \o u)[Len(j.got) + Len(u)] = u[Len(u)]
        BY <4>1, Concat
      <4>3. QED BY <1>2, <1>5, <1>6, <4>2 DEF len
    <3>3. QED BY <1>2, <3>1, <3>2 DEF Lists
  <2>8. ASSUME NEW i \in due \ j.touched, i \notin Delivered(k)
        PROVE  \E r \in tbl : r.id = i /\ Suits(j.base, 0, last, r)
    <3>1. PICK r \in rest : r.id = i
      BY <1>10, <1>11, <2>8
    <3>2. r \in rest \ rows
      BY <1>11, <2>8, <3>1
    <3>3. PICK q \in rows : q.id = last
      BY <2>7
    <3>4. q.id < r.id
      BY <1>1, <3>2, <3>3 DEF Before
    <3>5. r.id \in Nat /\ q.id \in Nat
      BY <1>1, <3>1, <3>3 DEF TableOk, Row, Ids
    <3>6. r.id > last
      BY <3>3, <3>4, <3>5
    <3>7. Suits(j.base, 0, last, r)
      <4> HIDE DEF last
      <4> QED BY <1>1, <3>1, <3>6, SuitsLater
    <3>8. QED BY <1>1, <3>1, <3>7
  <2>9. Awaits(tbl, k)
    BY <1>8, <2>4, <2>8 DEF Awaits
  <2>10. BatchOk(tbl, k)
    BY <1>3, <1>8, <1>13, <1>14, <2>4, <2>5, <2>6, <2>9 DEF BatchOk
  <2>11. k \in BatchJob
    <3>1. k = [kind |-> "batches", state |-> "run", base |-> j.base,
            touched |-> j.touched, total |-> j.total, offset |-> j.offset, batch |-> j.batch + 1,
            last |-> last, size |-> size, got |-> got, due |-> due]
      BY <1>7, <1>16 DEF size
    <3>2. size \in 1..MaxBatch /\ last \in Nat
      BY <1>4, <1>12, <2>2, <2>3 DEF Ids
    <3> HIDE DEF last
    <3>3. QED BY <1>4, <1>6, <1>10, <3>1, <3>2 DEF BatchJob, States
  <2>12. QED BY <2>10, <2>11
<1>17. QED BY <1>15, <1>16

(* The statement of a batch, and what it hits.                             *)
BatchMem(i)   == IF job.last = 0 THEN i.mem ELSE AddWhere(i.mem, i.stmt, << <<"after", job.last>> >>)
BatchSkip     == IF job.batch = 0 THEN job.offset ELSE 0
BatchSaid     == [Said(job.base, FALSE, 0, job.size) EXCEPT !.after = job.last, !.skip = BatchSkip]

(* What the statement of a batch asks for.                                 *)
LEMMA BatchSaidIs ==
    /\ Told(BatchSaid, job.base)
    /\ BatchSaid.writes = FALSE /\ BatchSaid.key = 0 /\ BatchSaid.limit = job.size
    /\ BatchSaid.after = job.last /\ BatchSaid.skip = BatchSkip
<1>1. PICK words, scopes, unscoped, allow, limit, last, skip :
          /\ words = job.base.words /\ scopes = job.base.scopes /\ unscoped = job.base.unscoped
          /\ allow = job.base.allow /\ limit = job.size /\ last = job.last /\ skip = BatchSkip
  OBVIOUS
<1>2. PICK w : w = Said(job.base, FALSE, 0, job.size)
  OBVIOUS
<1>3. w = [words |-> words, scopes |-> scopes, unscoped |-> unscoped, allow |-> allow,
           writes |-> FALSE, key |-> 0, limit |-> limit, after |-> 0, skip |-> 0]
  BY <1>1, <1>2 DEF Said
<1>4. PICK u : u = [w EXCEPT !.after = last, !.skip = skip]
  OBVIOUS
<1>5. u = [words |-> words, scopes |-> scopes, unscoped |-> unscoped, allow |-> allow,
           writes |-> FALSE, key |-> 0, limit |-> limit, after |-> last, skip |-> skip]
  BY <1>3, <1>4
<1>6. u = BatchSaid
  BY <1>1, <1>2, <1>4 DEF BatchSaid
<1>7. QED BY <1>1, <1>5, <1>6 DEF Told

(* It selects the rows asked for after the last one handed out.            *)
LEMMA BatchStatement ==
    ASSUME Memory(mem), soft \in BOOLEAN, job \in BatchJob, BaseOk(soft, mem, job), job.state = "run",
           ~HasOr(job.base.words), NEW i, i = GetInstance(mem, Copy(job.base)),
           NEW b, b = QueryOn(BatchMem(i), i.stmt, 0)
    PROVE  /\ Grown(i.mem, b.mem, i.stmt) /\ Chooses(b, job.base, 0, job.last)
           /\ Memory(b.mem) /\ Says(soft, b.mem, job.base.stmt, job.base)
<1> DEFINE h == job.base
           last == job.last
<1>1. h \in Handle /\ Spoken(h.words) /\ Says(soft, mem, h.stmt, h)
  BY DEF BaseOk, Sending, BatchJob
<1>2. last \in Nat
  BY DEF BatchJob
<1>3. BatchMem(i) = IF last = 0 THEN i.mem ELSE AddWhere(i.mem, i.stmt, << <<"after", last>> >>)
  BY DEF BatchMem
<1>4. ~HasOr(h.words) /\ i = GetInstance(mem, Copy(h))
  OBVIOUS
<1> HIDE DEF h, last
<1>5. /\ Saying(Copy(h)) /\ Copy(h).words = h.words
      /\ \A key, after, row : Suits(Copy(h), key, after, row) <=> Suits(h, key, after, row)
  BY <1>1, CopyIs
<1>6. /\ Memory(i.mem) /\ Says(soft, i.mem, i.stmt, Copy(h))
      /\ \A n : Grown(i.mem, n, i.stmt) => Memory(n) /\ Says(soft, n, h.stmt, h)
  BY <1>1, <1>4, CopyMade
<1>7. Answers(i.mem, i.stmt, Copy(h), 0, last, b)
  <2>1. CASE last = 0
    <3> DEFINE z == 0
    <3> HIDE DEF z
    <3>1. z \in Nat /\ (z # 0 /\ (~soft \/ Copy(h).unscoped) => ~HasOr(Copy(h).words)) /\ z = 0
      BY DEF z
    <3>2. Answers(i.mem, i.stmt, Copy(h), z, 0, QueryOn(i.mem, i.stmt, z))
      BY <1>5, <1>6, <3>1, QueryOnAnswers
    <3>3. b = QueryOn(i.mem, i.stmt, 0)
      BY <1>3, <2>1
    <3>4. QED BY <2>1, <3>1, <3>2, <3>3
  <2>2. CASE last # 0
    <3> DEFINE a == AddWhere(i.mem, i.stmt, << <<"after", last>> >>)
    <3>1. b = QueryOn(a, i.stmt, 0)
      BY <1>3, <2>2
    <3>2. ~HasOr(Copy(h).words)
      BY <1>4, <1>5
    <3>3. Answers(i.mem, i.stmt, Copy(h), 0, last, QueryOn(a, i.stmt, 0))
      BY <1>2, <1>5, <1>6, <3>2, BatchAnswers
    <3>4. QED BY <3>1, <3>3
  <2>3. QED BY <2>1, <2>2
<1>8. Grown(i.mem, b.mem, i.stmt) /\ Chooses(b, h, 0, last)
  BY <1>5, <1>7 DEF Answers, Chooses
<1>9. Memory(b.mem) /\ Says(soft, b.mem, h.stmt, h)
  BY <1>6, <1>8
<1>10. QED BY <1>8, <1>9 DEF h, last

(* The rows picked are those asked for.                                    *)
LEMMA PickedIs ==
    ASSUME NEW b, NEW h, NEW key, NEW after, Chooses(b, h, key, after), NEW rows \in SUBSET Row
    PROVE  Picked(b, rows) = {r \in rows : Suits(h, key, after, r)}
<1>1. \A r \in rows : Selects(b, r) <=> Suits(h, key, after, r)
  BY DEF Chooses
<1>2. Picked(b, rows) = {r \in rows : Selects(b, r)}
  BY DEF Picked, Selects
<1>3. QED BY <1>1, <1>2

(* NextBatch keeps what holds of the call and hits what may be expected.   *)
LEMMA NextBatchKeeps ==
    ASSUME Memory(mem), soft \in BOOLEAN, TableInv(table, lastId), job \in BatchJob,
           BaseOk(soft, mem, job), BatchOk(table, job), NextBatch
    PROVE  /\ Sends /\ Memory(mem') /\ soft' = soft /\ handles' = handles /\ table' = table /\ lastId' = lastId
           /\ job' \in BatchJob /\ BaseOk(soft, mem', job') /\ BatchOk(table, job')
<1> DEFINE i    == GetInstance(mem, Copy(job.base))
           b    == QueryOn(BatchMem(i), i.stmt, 0)
           all  == Picked(b, table)
           rest == Rest(BatchSkip, all)
           rows == FirstOf(job.size, rest)
<1>1. /\ job.state = "run" /\ Send(BatchSaid, rows) /\ job' = After(job, rest, rows) /\ InJob(b.mem)
      /\ table' = table /\ lastId' = lastId
  BY DEF NextBatch, Runs, BatchMem, BatchSkip, BatchSaid, Rest, After, Copy
<1>2. /\ Grown(i.mem, b.mem, i.stmt) /\ Chooses(b, job.base, 0, job.last)
      /\ Memory(b.mem) /\ Says(soft, b.mem, job.base.stmt, job.base)
  <2> HIDE DEF i, b
  <2>1. i = GetInstance(mem, Copy(job.base)) /\ b = QueryOn(BatchMem(i), i.stmt, 0) /\ ~HasOr(job.base.words)
    BY DEF i, b, BatchOk
  <2>2. QED BY <1>1, <2>1, BatchStatement
<1> HIDE DEF i, b
<1>3. TableOk(table) /\ table \in SUBSET Row
  BY RowsFinite DEF TableInv
<1>4. all = {r \in table : Suits(job.base, 0, job.last, r)}
  <2> DEFINE h == job.base
             last == job.last
  <2>1. Chooses(b, h, 0, last)
    BY <1>2
  <2> HIDE DEF h, last
  <2>2. Picked(b, table) = {r \in table : Suits(h, 0, last, r)}
    <3> DEFINE z == 0
    <3> HIDE DEF z
    <3>1. Chooses(b, h, z, last)
      BY <2>1 DEF z
    <3>2. Picked(b, table) = {r \in table : Suits(h, z, last, r)}
      BY <1>3, <3>1, PickedIs
    <3>3. QED BY <3>2 DEF z
  <2>3. QED BY <2>2 DEF h, last
<1>5. Batch(job, table, rest, rows)
  BY <1>4 DEF Batch, BatchSkip
<1>6. Sends
  <2> DEFINE q == BatchSaid
  <2>1. /\ Told(q, job.base) /\ q.writes = FALSE /\ q.key = 0 /\ q.limit = job.size
        /\ q.after = job.last /\ q.skip = BatchSkip
    BY BatchSaidIs
  <2> HIDE DEF q
  <2>2. Chooses(b, job.base, q.key, q.after)
    BY <1>2, <2>1
  <2>3. Wanted(q, table) = Expected(job.base, q.writes, q.key, q.limit, q.skip, Picked(b, table))
    <3> DEFINE h == job.base
    <3> HIDE DEF h
    <3>1. Told(q, h) /\ Chooses(b, h, q.key, q.after)
      BY <2>1, <2>2 DEF h
    <3>2. Wanted(q, table) = Expected(h, q.writes, q.key, q.limit, q.skip, Picked(b, table))
      BY <1>3, <3>1, WantedIs
    <3>3. QED BY <3>2 DEF h
  <2>4. job.size # 0
    BY DEF BatchJob
  <2>5. Wanted(q, table) = rows
    BY <2>1, <2>3, <2>4 DEF Expected
  <2>6. Send(q, rows)
    BY <1>1 DEF q
  <2> HIDE DEF rows
  <2>7. QED BY <2>5, <2>6, SendIs
<1>7. job' \in BatchJob /\ BatchOk(table, job')
  <2>1. PICK got, n, end : Advanced(job, After(job, rest, rows), rest, rows, got, n, end)
    <3> HIDE DEF rest, rows
    <3> QED BY AfterIs
  <2>2. Advanced(job, job', rest, rows, got, n, end)
    BY <1>1, <2>1
  <2> HIDE DEF rest, rows
  <2>3. QED BY <1>1, <1>3, <1>5, <2>2, BatchAdvances
<1>8. job'.base = job.base /\ job'.kind = "batches"
  BY <1>1 DEF After, BatchJob
<1>9. /\ Memory(mem') /\ job.base.stmt \in DOMAIN mem'.stmts /\ Says(soft, mem', job.base.stmt, job.base)
      /\ soft' = soft /\ handles' = handles
  <2> DEFINE m == b.mem
  <2>1. Memory(m) /\ InJob(m) /\ Says(soft, m, job.base.stmt, job.base)
    BY <1>1, <1>2
  <2> HIDE DEF m
  <2>2. job.base.stmt \in DOMAIN m.stmts
    BY <2>1, SaysTyped
  <2>3. QED BY <2>1, <2>2, InJobKeeps
<1>10. BaseOk(soft, mem', job')
  <2>1. job.base \in Handle /\ Spoken(job.base.words)
    BY DEF BaseOk
  <2>2. QED BY <1>8, <1>9, <2>1 DEF BaseOk
<1>11. QED BY <1>1, <1>6, <1>7, <1>9, <1>10

-----------------------------------------------------------------------------
(* The other calls: what holds between their statements, and the calls as  *)
(* they begin.                                                             *)

SaveKept(tbl, j) ==
    j.key \in j.touched \/ \E r \in tbl : r.id = j.key /\ r.is = j.is /\ (~j.selected => ~r.gone)
SaveOk(tbl, last, j) ==
    /\ AllWords(j.base) = <<>>
    /\ j.step = "update" => j.key # 0
    /\ j.state = "run" => j.key <= last + 1
    /\ j.state = "ok" /\ (j.selected => j.affected > 0) => SaveKept(tbl, j)
There(tbl, j, i) == i \in j.touched \/ \E r \in tbl : r.id = i
CreateOk(tbl, last, j) ==
    /\ \A i \in j.made \cup j.touched : i <= last
    /\ Cardinality(j.made) = j.reported
    /\ j.tx => j.made \cap j.touched = {}
    /\ j.state = "run" => j.left # 0
    /\ j.state = "failed" /\ j.tx => \A i \in j.made : ~There(tbl, j, i)
    /\ ~(j.state = "failed" /\ j.tx) => \A i \in j.made : There(tbl, j, i)
FirstOk(j) ==
    /\ j.assign = {} \/ \E x \in Atoms : j.assign = {x}
    /\ j.step = "update" => j.key # 0 /\ j.assign # {}
    /\ j.assign # {} /\ (~soft \/ j.base.unscoped) => ~HasOr(j.base.words)
JobOk(m, tbl, last, j) ==
    /\ j \in Call /\ BaseOk(soft, m, j)
    /\ j.kind = "batches" => BatchOk(tbl, j)
    /\ j.kind = "save"    => SaveOk(tbl, last, j)
    /\ j.kind = "create"  => CreateOk(tbl, last, j)
    /\ j.kind = "first"   => FirstOk(j)

(* A step keeps the memory, the handles, the table and the call.           *)
Steps == /\ Sends /\ soft' = soft /\ Memory(mem') /\ Handles(soft, mem', handles') /\ TableInv(table', lastId')
         /\ \/ job' = NoJob
            \/ Idle(handles') /\ JobOk(mem', table', lastId', job')

(* Each call is of its kind.                                               *)
LEMMA Kinds ==
    /\ \A j \in BatchJob  : j.kind = "batches"
    /\ \A j \in SaveJob   : j.kind = "save"
    /\ \A j \in CreateJob : j.kind = "create"
    /\ \A j \in FirstJob  : j.kind = "first"
BY DEF BatchJob, SaveJob, CreateJob, FirstJob

(* A call that begins as its kind says.                                    *)
LEMMA BeginSteps ==
    ASSUME Good, TableInv(table, lastId), NEW h \in Used, NEW i, i = GetInstance(mem, handles[h]),
           NEW j \in Call, j.base = Began(h, i.stmt), Begin(i.mem, i.stmt, j),
           j.kind = "batches" => BatchOk(table, j),
           j.kind = "save"    => SaveOk(table, lastId, j),
           j.kind = "create"  => CreateOk(table, lastId, j),
           j.kind = "first"   => FirstOk(j)
    PROVE  Steps
<1>1. /\ soft' = soft /\ table' = table /\ lastId' = lastId /\ Sends
      /\ Memory(mem') /\ Idle(handles') /\ BaseOk(soft, mem', j) /\ job' = j
  BY BeginKeeps
<1>2. Handles(soft, mem', handles')
  BY <1>1, IdleHandles
<1>3. JobOk(mem', table', lastId', job')
  BY <1>1 DEF JobOk
<1>4. QED BY <1>1, <1>2, <1>3 DEF Steps

(* The words on the handle of the call.                                    *)
LEMMA BeganIs ==
    ASSUME Good, NEW h \in Used, NEW i, i = GetInstance(mem, handles[h])
    PROVE  /\ Began(h, i.stmt) \in Handle /\ Began(h, i.stmt).words = handles[h].words
           /\ Began(h, i.stmt).unscoped = handles[h].unscoped
           /\ AllWords(Began(h, i.stmt)) = AllWords(handles[h])
<1>1. Memory(i.mem) /\ Says(soft, i.mem, i.stmt, handles[h]) /\ handles[h] \in Handle
  BY Instance
<1>2. i.stmt \in Nat
  BY <1>1, SaysTyped DEF Memory
<1>3. Began(h, i.stmt).unscoped = handles[h].unscoped
  BY <1>1 DEF Began, Handle
<1>4. QED BY <1>1, <1>2, <1>3, BeganSays

(* FindInBatches begins.                                                   *)
LEMMA FindInBatchesSteps ==
    ASSUME Habits = {}, Good, TableInv(table, lastId), NEW h \in Used, NEW size \in 1..MaxBatch,
           NEW total \in Nat, NEW offset \in Nat, FindInBatches(h, size, total, offset)
    PROVE  Steps
<1>1. PICK i : i = GetInstance(mem, handles[h])
  OBVIOUS
<1>2. PICK base : base = Began(h, i.stmt)
  OBVIOUS
<1>3. PICK least : least = IF total > 0 /\ size > total THEN total ELSE size
  OBVIOUS
<1>4. PICK j : j = [kind |-> "batches", state |-> "run", base |-> base, touched |-> {}, total |-> total,
                    offset |-> offset, batch |-> 0, last |-> 0, size |-> least, got |-> <<>>, due |-> {}]
  OBVIOUS
<1>5. Begin(i.mem, i.stmt, j) /\ Fit("or_in_batches", HasOr(handles[h].words))
  BY <1>1, <1>2, <1>3, <1>4 DEF FindInBatches
<1>6. base \in Handle /\ base.words = handles[h].words
  BY <1>1, <1>2, BeganIs
<1>7. ~HasOr(base.words)
  <2>1. HasOr(handles[h].words) \in BOOLEAN
    BY DEF HasOr
  <2>2. QED BY <1>5, <1>6, <2>1, FitMeans
<1>8. least \in 1..MaxBatch /\ (total > 0 => least <= total)
  BY <1>3, BoundsAssumption
<1>9. j \in BatchJob
  BY <1>4, <1>6, <1>8 DEF BatchJob, States
<1>10. BatchOk(table, j)
  <2>1. Counts(j)
    BY <1>4, <1>8 DEF Counts, Sizes
  <2>2. Handed(j) /\ Awaits(table, j)
    BY <1>4 DEF Handed, Awaits
  <2>3. Rises(j.got) /\ (j.total > 0 => Len(j.got) <= j.total)
    BY <1>4 DEF Rises
  <2>4. QED BY <1>4, <1>7, <2>1, <2>2, <2>3 DEF BatchOk
<1>11. j.base = Began(h, i.stmt) /\ j.kind = "batches" /\ j \in Call
  BY <1>2, <1>4, <1>9 DEF Call
<1>12. QED BY <1>1, <1>5, <1>10, <1>11, BeginSteps

(* Save begins.                                                            *)
LEMMA SaveSteps ==
    ASSUME Habits = {}, Good, TableInv(table, lastId), NEW h \in Used, NEW key \in 0..NextId,
           NEW is \in SUBSET Atoms, NEW selected \in BOOLEAN, Save(h, key, is, selected)
    PROVE  Steps
<1>1. PICK i : i = GetInstance(mem, handles[h])
  OBVIOUS
<1>2. PICK base : base = Began(h, i.stmt)
  OBVIOUS
<1>3. PICK step : step = IF key = 0 THEN "create" ELSE "update"
  OBVIOUS
<1>4. PICK j : j = [kind |-> "save", state |-> "run", base |-> base, touched |-> {}, key |-> key, is |-> is,
                    selected |-> selected, affected |-> 0, step |-> step]
  OBVIOUS
<1>5. Begin(i.mem, i.stmt, j) /\ Fit("save_with_words", AllWords(handles[h]) # <<>>)
  BY <1>1, <1>2, <1>3, <1>4 DEF Save
<1>6. base \in Handle /\ AllWords(base) = AllWords(handles[h])
  BY <1>1, <1>2, BeganIs
<1>7. AllWords(base) = <<>>
  <2> DEFINE bad == AllWords(handles[h]) # <<>>
  <2>1. bad \in BOOLEAN /\ Fit("save_with_words", bad)
    BY <1>5
  <2> HIDE DEF bad
  <2>2. ~bad
    BY <2>1, FitMeans
  <2>3. QED BY <1>6, <2>2 DEF bad
<1>8. key \in Nat /\ key <= lastId + 1
  BY DEF TableInv, NextId
<1>9. j \in SaveJob
  BY <1>3, <1>4, <1>6, <1>8 DEF SaveJob, States
<1>10. SaveOk(table, lastId, j)
  BY <1>3, <1>4, <1>7, <1>8 DEF SaveOk
<1>11. j.base = Began(h, i.stmt) /\ j.kind = "save" /\ j \in Call
  BY <1>2, <1>4, <1>9 DEF Call
<1>12. QED BY <1>1, <1>5, <1>10, <1>11, BeginSteps

(* CreateInBatches begins.                                                 *)
LEMMA CreateInBatchesSteps ==
    ASSUME Good, TableInv(table, lastId), NEW h \in Used, NEW n \in Nat \ {0},
           NEW size \in 1..MaxBatch, NEW skip \in BOOLEAN, CreateInBatches(h, n, size, skip)
    PROVE  Steps
<1>1. PICK i : i = GetInstance(mem, handles[h])
  OBVIOUS
<1>2. PICK base : base = Began(h, i.stmt)
  OBVIOUS
<1>3. PICK tx : tx = (~skip /\ n > size)
  OBVIOUS
<1>4. PICK j : j = [kind |-> "create", state |-> "run", base |-> base, touched |-> {}, left |-> n, n |-> n,
                    size |-> size, made |-> {}, reported |-> 0, tx |-> tx]
  OBVIOUS
<1>5. Begin(i.mem, i.stmt, j)
  BY <1>1, <1>2, <1>3, <1>4 DEF CreateInBatches
<1>6. base \in Handle
  BY <1>1, <1>2, BeganIs
<1>7. j \in CreateJob
  BY <1>3, <1>4, <1>6 DEF CreateJob, States
<1>8. CreateOk(table, lastId, j)
  BY <1>4, FS_EmptySet DEF CreateOk
<1>9. j.base = Began(h, i.stmt) /\ j.kind = "create" /\ j \in Call
  BY <1>2, <1>4, <1>7 DEF Call
<1>10. QED BY <1>1, <1>5, <1>8, <1>9, BeginSteps

(* FirstOrCreate begins.                                                   *)
LEMMA FirstOrCreateSteps ==
    ASSUME Habits = {}, Good, TableInv(table, lastId), NEW h \in Used, NEW assign,
           assign = {} \/ \E x \in Atoms : assign = {x}, FirstOrCreate(h, assign)
    PROVE  Steps
<1>1. PICK i : i = GetInstance(mem, handles[h])
  OBVIOUS
<1>2. PICK base : base = Began(h, i.stmt)
  OBVIOUS
<1>3. PICK j : j = [kind |-> "first", state |-> "run", base |-> base, touched |-> {}, assign |-> assign,
                    step |-> "find", key |-> 0, is |-> {}]
  OBVIOUS
<1>4. Begin(i.mem, i.stmt, j) /\ (assign # {} => KeyFits(handles[h], 1, ~soft \/ handles[h].unscoped))
  BY <1>1, <1>2, <1>3 DEF FirstOrCreate
<1>5. base \in Handle /\ base.words = handles[h].words /\ base.unscoped = handles[h].unscoped
  BY <1>1, <1>2, BeganIs
<1>6. assign # {} /\ (~soft \/ handles[h].unscoped) => ~HasOr(handles[h].words)
  <2>1. (~soft \/ handles[h].unscoped) \in BOOLEAN /\ Saying(handles[h])
    BY <1>1, Instance
  <2> DEFINE one == 1
  <2>2. one \in Nat /\ one # 0 /\ (assign # {} => KeyFits(handles[h], one, ~soft \/ handles[h].unscoped))
    BY <1>4
  <2> HIDE DEF one
  <2>3. QED BY <2>1, <2>2, KeyFitsMeans
<1>7. j \in FirstJob
  BY <1>3, <1>5 DEF FirstJob, States
<1>8. FirstOk(j)
  <2>1. j.assign = assign /\ j.base = base /\ j.step = "find"
    BY <1>3
  <2>2. QED BY <1>5, <1>6, <2>1 DEF FirstOk
<1>9. j.base = Began(h, i.stmt) /\ j.kind = "first" /\ j \in Call
  BY <1>2, <1>3, <1>7 DEF Call
<1>10. QED BY <1>1, <1>4, <1>8, <1>9, BeginSteps

-----------------------------------------------------------------------------
(* The statements of a call that has begun.                                *)

InCall == Memory(mem) /\ soft \in BOOLEAN /\ Idle(handles) /\ TableInv(table, lastId)
          /\ JobOk(mem, table, lastId, job)

(* A step of a call keeps the handles as they are: gone.                   *)
LEMMA CallSteps ==
    ASSUME InCall, Sends, soft' = soft, handles' = handles, Memory(mem'), TableInv(table', lastId'),
           JobOk(mem', table', lastId', job')
    PROVE  Steps
<1>1. Idle(handles')
  BY DEF InCall
<1>2. Handles(soft, mem', handles')
  BY <1>1, IdleHandles
<1>3. QED BY <1>1, <1>2 DEF Steps

(* The kind of a call tells its fields.                                    *)
LEMMA KindOf ==
    ASSUME NEW j \in Call
    PROVE  /\ j.kind = "batches" => j \in BatchJob
           /\ j.kind = "save"    => j \in SaveJob
           /\ j.kind = "create"  => j \in CreateJob
           /\ j.kind = "first"   => j \in FirstJob
           /\ j.kind \in {"batches", "save", "create", "first"}
BY Kinds DEF Call

(* FindInBatches goes on.                                                  *)
LEMMA NextBatchSteps ==
    ASSUME InCall, NextBatch
    PROVE  Steps
<1>1. job.kind = "batches" /\ job \in Call /\ BaseOk(soft, mem, job)
  BY DEF NextBatch, Runs, InCall, JobOk
<1>2. job \in BatchJob /\ BatchOk(table, job)
  BY <1>1, KindOf DEF InCall, JobOk
<1>3. Memory(mem) /\ soft \in BOOLEAN /\ TableInv(table, lastId)
  BY DEF InCall
<1>4. /\ Sends /\ Memory(mem') /\ soft' = soft /\ handles' = handles /\ table' = table /\ lastId' = lastId
      /\ job' \in BatchJob /\ BaseOk(soft, mem', job') /\ BatchOk(table, job')
  BY <1>1, <1>2, <1>3, NextBatchKeeps
<1>5. job'.kind = "batches" /\ job' \in Call
  BY <1>4, Kinds DEF Call
<1>6. JobOk(mem', table', lastId', job')
  BY <1>4, <1>5 DEF JobOk
<1>7. QED BY <1>3, <1>4, <1>6, CallSteps

(* An update with the key of a row.                                        *)
Keyed(h, s, key, b) ==
    /\ Memory(b.mem) /\ s \in DOMAIN b.mem.stmts
    /\ Picked(b, table) = {r \in table : Suits(h, key, 0, r)}
    /\ Wanted(Said(h, TRUE, key, 0), table) = Picked(b, table)
(* It hits the row with the key if that is asked for.                      *)
LEMMA KeyedStatement ==
    ASSUME Memory(mem), soft \in BOOLEAN, TableInv(table, lastId),
           NEW h \in Handle, Spoken(h.words), NEW s, Says(soft, mem, s, h),
           NEW key \in Nat \ {0}, ~soft \/ h.unscoped => ~HasOr(h.words),
           NEW b, b = QueryOn(mem, s, key)
    PROVE  Keyed(h, s, key, b)
<1>1. Saying(h) /\ key \in Nat
  BY HandleSaying
<1>2. key # 0 /\ (~soft \/ h.unscoped) => ~HasOr(h.words)
  OBVIOUS
<1>3. Answers(mem, s, h, key, 0, b)
  BY <1>1, <1>2, QueryOnAnswers
<1>4. Grown(mem, b.mem, s) /\ Chooses(b, h, key, 0)
  BY <1>3 DEF Answers, Chooses
<1>5. s \in DOMAIN mem.stmts
  BY SaysTyped
<1>6. TableOk(table) /\ table \in SUBSET Row
  BY RowsFinite DEF TableInv
<1>7. Picked(b, table) = {r \in table : Suits(h, key, 0, r)}
  <2> DEFINE z == 0
  <2> HIDE DEF z
  <2>1. Chooses(b, h, key, z)
    BY <1>4 DEF z
  <2>2. Picked(b, table) = {r \in table : Suits(h, key, z, r)}
    BY <1>6, <2>1, PickedIs
  <2>3. QED BY <2>2 DEF z
<1>8. Wanted(Said(h, TRUE, key, 0), table) = Hit(h, TRUE, key, 0, Picked(b, table))
  <2> DEFINE w == TRUE
             z == 0
  <2> HIDE DEF w, z
  <2>1. w \in BOOLEAN /\ Chooses(b, h, key, 0)
    BY <1>4 DEF w
  <2>2. Wanted(Said(h, w, key, z), table) = Hit(h, w, key, z, Picked(b, table))
    BY <1>6, <2>1, SaidIs
  <2>3. QED BY <2>2 DEF w, z
<1>9. Hit(h, TRUE, key, 0, Picked(b, table)) = Picked(b, table)
  BY DEF Hit
<1>10. QED BY <1>4, <1>5, <1>7, <1>8, <1>9 DEF Grown, Keyed

(* Who has said nothing has not said Or.                                   *)
LEMMA NoWords ==
    ASSUME NEW h \in Handle, Spoken(h.words), AllWords(h) = <<>>
    PROVE  ~HasOr(h.words)
<1>1. Saying(h)
  BY HandleSaying
<1>2. HasOr(AllWords(h)) <=> HasOr(h.words)
  BY <1>1, AllWordsAre
<1>3. ~HasOr(<<>>)
  BY DEF HasOr
<1>4. QED BY <1>2, <1>3

Changed(r)  == [r EXCEPT !.is = job.is, !.gone = IF job.selected THEN @ ELSE FALSE]
(* What the row becomes.                                                   *)
LEMMA ChangedIs ==
    ASSUME job \in SaveJob, NEW r \in Row
    PROVE  /\ Changed(r) \in Row /\ Changed(r).id = r.id /\ Changed(r).is = job.is
           /\ ~job.selected => ~Changed(r).gone
<1>1. PICK is, gone : is = job.is /\ gone = IF job.selected THEN r.gone ELSE FALSE
  OBVIOUS
<1>2. is \in SUBSET Atoms /\ gone \in BOOLEAN
  BY <1>1 DEF SaveJob, Row
<1>3. PICK u : u = [r EXCEPT !.is = is, !.gone = gone]
  OBVIOUS
<1>4. u = [id |-> r.id, is |-> is, gone |-> gone]
  BY <1>3 DEF Row
<1>5. u \in Row
  BY <1>2, <1>4 DEF Row
<1>6. u = Changed(r)
  BY <1>1, <1>3 DEF Changed
<1>7. ~job.selected => gone = FALSE
  BY <1>1
<1>8. u.id = r.id /\ u.is = job.is /\ u.gone = gone
  BY <1>1, <1>4
<1>9. QED BY <1>5, <1>6, <1>7, <1>8

(* Changed rows keep their identifiers.                                    *)
LEMMA ChangedTable ==
    ASSUME job \in SaveJob, NEW rows, NEW last, TableInv(rows, last), NEW hit \in SUBSET rows
    PROVE  TableInv((rows \ hit) \cup {Changed(r) : r \in hit}, last)
<1> DEFINE f == [r \in rows |-> IF r \in hit THEN Changed(r) ELSE r]
<1>1. rows \subseteq Row
  BY DEF TableInv
<1>2. \A r \in rows : f[r] \in Row /\ f[r].id = r.id
  BY <1>1, ChangedIs
<1>3. (rows \ hit) \cup {Changed(r) : r \in hit} = {f[r] : r \in rows}
  OBVIOUS
<1>4. f \in [rows -> Row]
  BY <1>2
<1> HIDE DEF f
<1>5. \A r \in rows : f[r].id = r.id
  BY <1>2
<1>6. TableInv({f[r] : r \in rows}, last)
  BY <1>4, <1>5, TableImage
<1>7. QED BY <1>3, <1>6

SaveIs(j, step, state, affected, key) ==
    [kind |-> "save", state |-> state, base |-> j.base, touched |-> {}, key |-> key, is |-> j.is,
     selected |-> j.selected, affected |-> affected, step |-> step]

(* The Update of Save: what it reports as saved is in the table.           *)
LEMMA SaveUpdateSteps ==
    ASSUME InCall, SaveUpdate
    PROVE  Steps
<1> DEFINE b   == QueryOn(mem, job.base.stmt, job.key)
           hit == Picked(b, table)
           new == {Changed(r) : r \in hit}
<1>1. /\ job.kind = "save" /\ job.state = "run" /\ job.step = "update"
      /\ Send(Said(job.base, TRUE, job.key, 0), hit) /\ table' = (table \ hit) \cup new
      /\ InJob(b.mem) /\ lastId' = lastId
      /\ \E n \in {Cardinality(hit), Cardinality(hit \ new)} :
            job' = [job EXCEPT !.affected = n, !.touched = {},
                               !.step  = IF n = 0 /\ ~job.selected THEN "create" ELSE "done",
                               !.state = IF n = 0 /\ ~job.selected THEN "run" ELSE "ok"]
  BY DEF SaveUpdate, Runs, Changed
<1>2. /\ Memory(mem) /\ soft \in BOOLEAN /\ TableInv(table, lastId)
      /\ job \in Call /\ BaseOk(soft, mem, job) /\ SaveOk(table, lastId, job)
  BY <1>1 DEF InCall, JobOk
<1>3. job \in SaveJob
  BY <1>1, <1>2, KindOf
<1>4. /\ job.base \in Handle /\ Spoken(job.base.words) /\ Says(soft, mem, job.base.stmt, job.base)
      /\ AllWords(job.base) = <<>> /\ job.key \in Nat \ {0} /\ job.key <= lastId + 1
  BY <1>1, <1>2, <1>3 DEF BaseOk, Sending, SaveOk, SaveJob
<1>5. /\ Memory(b.mem) /\ job.base.stmt \in DOMAIN b.mem.stmts
      /\ hit = {r \in table : Suits(job.base, job.key, 0, r)}
      /\ Wanted(Said(job.base, TRUE, job.key, 0), table) = hit
  <2> DEFINE h == job.base
             s == job.base.stmt
             key == job.key
  <2>1. h \in Handle /\ Spoken(h.words) /\ Says(soft, mem, s, h) /\ AllWords(h) = <<>> /\ key \in Nat \ {0}
    BY <1>4
  <2>2. b = QueryOn(mem, s, key) /\ hit = Picked(b, table)
    OBVIOUS
  <2> HIDE DEF h, s, key, b, hit
  <2>3. ~HasOr(h.words)
    BY <2>1, NoWords
  <2>4. ~soft \/ h.unscoped => ~HasOr(h.words)
    BY <2>3
  <2>5. Keyed(h, s, key, b)
    BY <1>2, <2>1, <2>2, <2>4, KeyedStatement
  <2>6. QED BY <2>2, <2>5 DEF h, s, key, Keyed
<1> HIDE DEF hit, b
<1>6. hit \in SUBSET table /\ \A r \in hit : r \in Row /\ r.id = job.key
  BY <1>2, <1>4, <1>5 DEF Suits, TableInv
<1>7. Sends
  <2> DEFINE q == Said(job.base, TRUE, job.key, 0)
  <2>1. Send(q, hit) /\ hit = Wanted(q, table)
    BY <1>1, <1>5
  <2> HIDE DEF q
  <2>2. QED BY <2>1, SendIs
<1>8. TableInv(table', lastId')
  BY <1>1, <1>2, <1>3, <1>6, ChangedTable
<1>9. /\ Memory(mem') /\ job.base.stmt \in DOMAIN mem'.stmts /\ soft' = soft /\ handles' = handles
  <2> DEFINE m == b.mem
  <2>1. Memory(m) /\ InJob(m) /\ job.base.stmt \in DOMAIN m.stmts
    BY <1>1, <1>5
  <2> HIDE DEF m
  <2>2. QED BY <2>1, InJobKeeps
<1>10. PICK n \in {Cardinality(hit), Cardinality(hit \ new)} :
            job' = [job EXCEPT !.affected = n, !.touched = {},
                               !.step  = IF n = 0 /\ ~job.selected THEN "create" ELSE "done",
                               !.state = IF n = 0 /\ ~job.selected THEN "run" ELSE "ok"]
  BY <1>1
<1>11. n \in Nat /\ (hit = {} => n = 0)
  <2>1. TableOk(table)
    BY <1>2, RowsFinite DEF TableInv
  <2>2. \A S \in SUBSET table : Cardinality(S) \in Nat
    BY <2>1, Fewer DEF TableOk
  <2>3. hit = {} => hit \ new = {}
    OBVIOUS
  <2> HIDE DEF new
  <2>4. QED BY <1>6, <2>2, <2>3, FS_EmptySet
<1> DEFINE step  == IF n = 0 /\ ~job.selected THEN "create" ELSE "done"
           state == IF n = 0 /\ ~job.selected THEN "run" ELSE "ok"
<1>12. job' = SaveIs(job, step, state, n, job.key)
  BY <1>3, <1>10 DEF SaveIs, SaveJob
<1>13. job' = [kind |-> "save", state |-> state, base |-> job.base, touched |-> {}, key |-> job.key, is |-> job.is,
               selected |-> job.selected, affected |-> n, step |-> step]
  BY <1>12 DEF SaveIs
<1>14. state \in {"run", "ok"} /\ step \in {"create", "done"} /\ (state = "ok" => n # 0 \/ job.selected)
  BY <1>3 DEF SaveJob
<1> HIDE DEF step, state, new
<1>15. job' \in SaveJob
  BY <1>3, <1>11, <1>13, <1>14 DEF SaveJob, States
<1>16. BaseOk(soft, mem', job')
  <2>1. job'.base = job.base /\ job'.kind = "save" /\ job'.step # "update"
    BY <1>13, <1>14
  <2>2. QED BY <1>4, <1>9, <2>1 DEF BaseOk, Sending
<1>17. SaveOk(table', lastId', job')
  <2>1. /\ job'.base = job.base /\ job'.key = job.key /\ job'.state = state /\ job'.selected = job.selected
        /\ job'.affected = n /\ job'.is = job.is
    BY <1>13
  <2>2. ASSUME state = "ok", job.selected => n > 0 PROVE SaveKept(table', job')
    <3>1. n # 0
      BY <1>3, <1>11, <1>14, <2>2 DEF SaveJob
    <3>2. PICK r \in hit : TRUE
      BY <1>11, <3>1
    <3>3. /\ Changed(r).id = job.key /\ Changed(r).is = job.is /\ (~job.selected => ~Changed(r).gone)
      BY <1>3, <1>6, ChangedIs
    <3>4. Changed(r) \in table'
      BY <1>1 DEF new
    <3>5. QED BY <2>1, <3>3, <3>4 DEF SaveKept
  <2>3. job'.step # "update"
    BY <1>13, <1>14
  <2>4. QED BY <1>1, <1>4, <2>1, <2>2, <2>3 DEF SaveOk
<1>18. JobOk(mem', table', lastId', job')
  BY <1>15, <1>16, <1>17, Kinds DEF JobOk, Call
<1>19. QED BY <1>7, <1>8, <1>9, <1>18, CallSteps

(* The Create of Save, which writes over the row with the key.             *)
LEMMA SaveCreateSteps ==
    ASSUME InCall, SaveCreate
    PROVE  Steps
<1>1. PICK key : key = IF job.key = 0 THEN NextId ELSE job.key
  OBVIOUS
<1>2. PICK row : row = [id |-> key, is |-> job.is, gone |-> FALSE]
  OBVIOUS
<1>3. /\ job.kind = "save" /\ job.state = "run" /\ NextId \in Ids
      /\ table' = Upsert(table, row)
      /\ lastId' = IF key > lastId THEN key ELSE lastId
      /\ job' = [job EXCEPT !.key = key, !.affected = 1, !.touched = {}, !.step = "done", !.state = "ok"]
      /\ InJob(mem) /\ Quiet
  BY <1>1, <1>2 DEF SaveCreate, Runs
<1>4. /\ Memory(mem) /\ soft \in BOOLEAN /\ TableInv(table, lastId)
      /\ job \in Call /\ BaseOk(soft, mem, job) /\ SaveOk(table, lastId, job)
  BY <1>3 DEF InCall, JobOk
<1>5. job \in SaveJob
  BY <1>3, <1>4, KindOf
<1>6. lastId \in Nat /\ key \in Ids /\ key \in Nat
  <2>1. lastId \in Nat /\ lastId + 1 \in 1..MaxId /\ MaxId \in Nat
    BY <1>3, <1>4, BoundsAssumption DEF TableInv, NextId, Ids
  <2>2. job.key \in Nat /\ job.key <= lastId + 1
    BY <1>3, <1>4, <1>5 DEF SaveOk, SaveJob
  <2>3. key = IF job.key = 0 THEN lastId + 1 ELSE job.key
    BY <1>1 DEF NextId
  <2>4. QED BY <2>1, <2>2, <2>3 DEF Ids
<1>7. row \in Row /\ row.id = key
  BY <1>2, <1>5, <1>6 DEF Row, SaveJob
<1>8. TableInv(table', lastId')
  <2> DEFINE left == {r \in table : r.id # row.id}
  <2>1. TableInv(left, lastId)
    BY <1>4, TableFewer
  <2>2. lastId' \in Nat /\ lastId <= lastId' /\ row.id <= lastId' /\ \A r \in left : r.id # row.id
    BY <1>3, <1>6, <1>7
  <2>3. table' = left \cup {row}
    BY <1>3 DEF Upsert
  <2> HIDE DEF left
  <2>4. QED BY <1>7, <2>1, <2>2, <2>3, TableMore
<1>9. /\ Memory(mem') /\ job.base.stmt \in DOMAIN mem'.stmts /\ soft' = soft /\ handles' = handles
  BY <1>3, <1>4, InJobKeeps DEF BaseOk
<1>10. job' = [kind |-> "save", state |-> "ok", base |-> job.base, touched |-> {}, key |-> key, is |-> job.is,
               selected |-> job.selected, affected |-> 1, step |-> "done"]
  BY <1>3, <1>5 DEF SaveJob
<1>11. job' \in SaveJob
  BY <1>5, <1>6, <1>10 DEF SaveJob, States
<1>12. BaseOk(soft, mem', job')
  BY <1>4, <1>9, <1>10 DEF BaseOk, Sending
<1>13. SaveOk(table', lastId', job')
  <2>1. row \in table'
    BY <1>3 DEF Upsert
  <2>2. SaveKept(table', job')
    BY <1>2, <1>10, <2>1 DEF SaveKept
  <2>3. QED BY <1>4, <1>10, <2>2 DEF SaveOk
<1>14. JobOk(mem', table', lastId', job')
  BY <1>11, <1>12, <1>13, Kinds DEF JobOk, Call
<1>15. QED BY <1>3, <1>8, <1>9, <1>14, QuietSends, CallSteps

Failed(j) == [j EXCEPT !.state = "failed"]
FailsAs(j, k) ==
    /\ k.state = "failed" /\ k.kind = j.kind /\ k.base = j.base
    /\ j.kind = "batches" => k.total = j.total /\ k.got = j.got
    /\ j.kind = "save"    => k.step = j.step /\ k.key = j.key
    /\ j.kind = "create"  => /\ k.made = j.made /\ k.touched = j.touched /\ k.reported = j.reported
                             /\ k.tx = j.tx /\ k.left = j.left
    /\ j.kind = "first"   => /\ k.step = j.step /\ k.key = j.key /\ k.assign = j.assign
                             /\ k.is = j.is /\ k.touched = j.touched
(* A call that fails is as it was in all else.                             *)
LEMMA FailedIs ==
    ASSUME NEW j \in Call
    PROVE  Failed(j) \in Call /\ FailsAs(j, Failed(j))
<1>1. PICK u : u = Failed(j)
  OBVIOUS
<1>2. CASE j \in BatchJob
  <2>1. u = [kind |-> "batches", state |-> "failed", base |-> j.base, touched |-> j.touched, total |-> j.total,
             offset |-> j.offset, batch |-> j.batch, last |-> j.last, size |-> j.size, got |-> j.got, due |-> j.due]
    BY <1>1, <1>2 DEF Failed, BatchJob
  <2>2. u \in BatchJob
    BY <1>2, <2>1 DEF BatchJob, States
  <2>3. FailsAs(j, u)
    BY <1>2, <2>1 DEF FailsAs, BatchJob
  <2>4. QED BY <1>1, <2>2, <2>3 DEF Call
<1>3. CASE j \in SaveJob
  <2>1. u = [kind |-> "save", state |-> "failed", base |-> j.base, touched |-> j.touched, key |-> j.key,
             is |-> j.is, selected |-> j.selected, affected |-> j.affected, step |-> j.step]
    BY <1>1, <1>3 DEF Failed, SaveJob
  <2>2. u \in SaveJob
    BY <1>3, <2>1 DEF SaveJob, States
  <2>3. FailsAs(j, u)
    BY <1>3, <2>1 DEF FailsAs, SaveJob
  <2>4. QED BY <1>1, <2>2, <2>3 DEF Call
<1>4. CASE j \in CreateJob
  <2>1. u = [kind |-> "create", state |-> "failed", base |-> j.base, touched |-> j.touched, left |-> j.left,
             n |-> j.n, size |-> j.size, made |-> j.made, reported |-> j.reported, tx |-> j.tx]
    BY <1>1, <1>4 DEF Failed, CreateJob
  <2>2. u \in CreateJob
    BY <1>4, <2>1 DEF CreateJob, States
  <2>3. FailsAs(j, u)
    BY <1>4, <2>1 DEF FailsAs, CreateJob
  <2>4. QED BY <1>1, <2>2, <2>3 DEF Call
<1>5. CASE j \in FirstJob
  <2>1. u = [kind |-> "first", state |-> "failed", base |-> j.base, touched |-> j.touched, assign |-> j.assign,
             step |-> j.step, key |-> j.key, is |-> j.is]
    BY <1>1, <1>5 DEF Failed, FirstJob
  <2>2. u \in FirstJob
    BY <1>5, <2>1 DEF FirstJob, States
  <2>3. FailsAs(j, u)
    BY <1>5, <2>1 DEF FailsAs, FirstJob
  <2>4. QED BY <1>1, <2>2, <2>3 DEF Call
<1>6. QED BY <1>2, <1>3, <1>4, <1>5 DEF Call

(* A statement of the call fails.                                          *)
LEMMA JobFailsSteps ==
    ASSUME InCall, NEW kind \in {"batches", "save", "first"}, JobFails(kind)
    PROVE  Steps
<1>1. /\ job.kind = kind /\ job.state = "run" /\ job' = Failed(job) /\ Quiet
      /\ soft' = soft /\ mem' = mem /\ handles' = handles /\ table' = table /\ lastId' = lastId
  BY DEF JobFails, Runs, Ends, Failed
<1>2. Memory(mem) /\ TableInv(table, lastId) /\ job \in Call /\ BaseOk(soft, mem, job)
  BY DEF InCall, JobOk
<1>3. job' \in Call /\ FailsAs(job, job')
  BY <1>1, <1>2, FailedIs
<1>4. BaseOk(soft, mem', job')
  BY <1>1, <1>2, <1>3 DEF BaseOk, FailsAs, Sending
<1>5. CASE kind = "batches"
  <2>1. BatchOk(table', job')
    BY <1>1, <1>3, <1>5 DEF BatchOk, FailsAs, InCall, JobOk
  <2>2. JobOk(mem', table', lastId', job')
    BY <1>1, <1>3, <1>4, <1>5, <2>1 DEF JobOk, FailsAs
  <2>3. QED BY <1>1, <1>2, <2>2, QuietSends, CallSteps
<1>6. CASE kind = "save"
  <2>1. SaveOk(table', lastId', job')
    BY <1>1, <1>3, <1>6 DEF SaveOk, FailsAs, InCall, JobOk
  <2>2. JobOk(mem', table', lastId', job')
    BY <1>1, <1>3, <1>4, <1>6, <2>1 DEF JobOk, FailsAs
  <2>3. QED BY <1>1, <1>2, <2>2, QuietSends, CallSteps
<1>7. CASE kind = "first"
  <2>1. FirstOk(job')
    BY <1>1, <1>3, <1>7 DEF FirstOk, FailsAs, InCall, JobOk
  <2>2. JobOk(mem', table', lastId', job')
    BY <1>1, <1>3, <1>4, <1>7, <2>1 DEF JobOk, FailsAs
  <2>3. QED BY <1>1, <1>2, <2>2, QuietSends, CallSteps
<1>8. QED BY <1>5, <1>6, <1>7

(* A batch of new rows.                                                    *)
LEMMA NewRows ==
    ASSUME NEW rows, NEW last, TableInv(rows, last), NEW k \in Nat \ {0}, last + k \in Ids
    PROVE  TableInv(rows \cup {[id |-> i, is |-> {}, gone |-> FALSE] : i \in (last + 1)..(last + k)}, last + k)
<1> DEFINE New(i) == [id |-> i, is |-> {}, gone |-> FALSE]
           ids    == (last + 1)..(last + k)
           all    == rows \cup {New(i) : i \in ids}
<1>1. last \in Nat /\ rows \subseteq Row /\ Distinct(rows) /\ \A r \in rows : r.id <= last /\ r.id \in Nat
  BY DEF TableInv, Row, Ids
<1>2. MaxId \in Nat /\ last + k <= MaxId
  BY BoundsAssumption DEF Ids
<1>3. \A i \in ids : i \in Ids /\ i > last /\ i <= last + k
  BY <1>1, <1>2 DEF Ids
<1>4. \A i \in ids : New(i) \in Row /\ New(i).id = i
  BY <1>3 DEF Row
<1> HIDE DEF ids, New
<1>5. all \subseteq Row
  BY <1>1, <1>4
<1>6. \A r \in all : r \in rows \/ (r.id \in ids /\ r = New(r.id))
  BY <1>4
<1>7. ASSUME NEW r \in all, NEW q \in all, r.id = q.id PROVE r = q
  <2>1. CASE r \in rows /\ q \in rows
    BY <1>1, <1>7, <2>1 DEF Distinct
  <2>2. CASE r \in rows /\ q \notin rows
    <3>1. r.id <= last /\ r.id \in Nat
      BY <1>1, <2>2
    <3>2. q.id \in ids
      BY <1>6, <2>2
    <3>3. q.id > last /\ q.id \in Nat
      BY <1>3, <3>2 DEF Ids
    <3>4. QED BY <1>1, <1>7, <3>1, <3>3
  <2>3. CASE r \notin rows /\ q \in rows
    <3>1. q.id <= last /\ q.id \in Nat
      BY <1>1, <2>3
    <3>2. r.id \in ids
      BY <1>6, <2>3
    <3>3. r.id > last /\ r.id \in Nat
      BY <1>3, <3>2 DEF Ids
    <3>4. QED BY <1>1, <1>7, <3>1, <3>3
  <2>4. CASE r \notin rows /\ q \notin rows
    BY <1>6, <1>7, <2>4
  <2>5. QED BY <2>1, <2>2, <2>3, <2>4
<1>8. \A r \in all : r.id <= last + k
  <2>1. ASSUME NEW r \in all PROVE r.id <= last + k
    <3>1. CASE r \in rows
      BY <1>1, <3>1
    <3>2. CASE r \notin rows
      BY <1>3, <1>6, <3>2
    <3>3. QED BY <3>1, <3>2
  <2>2. QED BY <2>1
<1>9. TableInv(all, last + k)
  <2>1. Distinct(all)
    BY <1>7 DEF Distinct
  <2>2. last + k \in Nat
    BY <1>1
  <2>3. QED BY <1>5, <1>8, <2>1, <2>2 DEF TableInv
<1>10. QED BY <1>9 DEF New, ids

(* CreateInBatches makes a batch of rows with identifiers of their own.    *)
LEMMA CreateBatchSteps ==
    ASSUME InCall, CreateBatch
    PROVE  Steps
<1>1. PICK k : k = IF job.left < job.size THEN job.left ELSE job.size
  OBVIOUS
<1>2. PICK new : new = NextId..(NextId + k - 1)
  OBVIOUS
<1> DEFINE New(i) == [id |-> i, is |-> {}, gone |-> FALSE]
<1>3. /\ job.kind = "create" /\ job.state = "run" /\ NextId + job.size \in Ids
      /\ table' = table \cup {New(i) : i \in new}
      /\ lastId' = NextId + k - 1
      /\ job' = [job EXCEPT !.left = job.left - k, !.made = job.made \cup new, !.reported = job.reported + k,
                            !.state = IF job.left = k THEN "ok" ELSE "run"]
      /\ InJob(mem) /\ Quiet
  BY <1>1, <1>2 DEF CreateBatch, Runs
<1>4. /\ Memory(mem) /\ soft \in BOOLEAN /\ TableInv(table, lastId)
      /\ job \in Call /\ BaseOk(soft, mem, job) /\ CreateOk(table, lastId, job)
  BY <1>3 DEF InCall, JobOk
<1>5. job \in CreateJob
  BY <1>3, <1>4, KindOf
<1>6. /\ lastId \in Nat /\ MaxId \in Nat /\ job.left \in Nat \ {0} /\ job.size \in Nat \ {0}
      /\ lastId + 1 + job.size <= MaxId /\ job.made \in SUBSET Ids /\ job.touched \in SUBSET Ids
      /\ job.reported \in Nat /\ job.tx \in BOOLEAN /\ job.n \in Nat /\ job.base \in Handle
      /\ job.size \in 1..MaxBatch
  <2>1. job.left # 0
    BY <1>3, <1>4 DEF CreateOk
  <2>2. lastId \in Nat /\ MaxId \in Nat
    BY <1>4, BoundsAssumption DEF TableInv
  <2>3. NextId + job.size <= MaxId
    BY <1>3 DEF Ids
  <2>4. QED BY <1>5, <2>1, <2>2, <2>3 DEF CreateJob, NextId
<1>7. k \in Nat \ {0} /\ k <= job.left /\ lastId + k \in Ids /\ lastId' = lastId + k
      /\ new = (lastId + 1)..(lastId + k)
  <2>1. k \in Nat \ {0} /\ k <= job.left /\ k <= job.size
    BY <1>1, <1>6
  <2>2. NextId = lastId + 1
    BY DEF NextId
  <2>3. NextId + k - 1 = lastId + k
    BY <1>6, <2>1, <2>2
  <2>4. lastId + k \in Ids
    BY <1>6, <2>1 DEF Ids
  <2>5. QED BY <1>2, <1>3, <2>1, <2>2, <2>3, <2>4
<1>8. TableInv(table', lastId')
  <2>1. TableInv(table \cup {[id |-> i, is |-> {}, gone |-> FALSE] : i \in (lastId + 1)..(lastId + k)}, lastId + k)
    BY <1>4, <1>7, NewRows
  <2>2. QED BY <1>3, <1>7, <2>1
<1>9. /\ Memory(mem') /\ job.base.stmt \in DOMAIN mem'.stmts /\ soft' = soft /\ handles' = handles
  BY <1>3, <1>4, InJobKeeps DEF BaseOk
<1>10. \A i \in new : i \in Ids /\ i > lastId /\ i <= lastId + k
  BY <1>6, <1>7 DEF Ids
<1> DEFINE state == IF job.left = k THEN "ok" ELSE "run"
<1>11. job' = [kind |-> "create", state |-> state, base |-> job.base, touched |-> job.touched,
               left |-> job.left - k, n |-> job.n, size |-> job.size, made |-> job.made \cup new,
               reported |-> job.reported + k, tx |-> job.tx]
  BY <1>3, <1>5 DEF CreateJob
<1>12. state \in {"run", "ok"} /\ (state = "run" => job.left - k # 0) /\ job.left - k \in Nat
  BY <1>6, <1>7
<1> HIDE DEF state
<1>13. job' \in CreateJob
  <2>1. job.made \cup new \in SUBSET Ids
    BY <1>6, <1>10
  <2>2. job.reported + k \in Nat
    BY <1>6, <1>7
  <2>3. QED BY <1>6, <1>11, <1>12, <2>1, <2>2 DEF CreateJob, States
<1>14. BaseOk(soft, mem', job')
  BY <1>4, <1>9, <1>11 DEF BaseOk, Sending
<1>15. /\ job'.made = job.made \cup new /\ job'.touched = job.touched /\ job'.reported = job.reported + k
       /\ job'.tx = job.tx /\ job'.state = state /\ job'.left = job.left - k /\ job'.kind = "create"
  BY <1>11
<1>16. CreateOk(table', lastId', job')
  <2>1. \A i \in job.made \cup job.touched : i <= lastId /\ i \in Nat
    BY <1>4, <1>6 DEF CreateOk, Ids
  <2>2. \A i \in job'.made \cup job'.touched : i <= lastId'
    BY <1>6, <1>7, <1>10, <1>15, <2>1
  <2>3. Cardinality(job'.made) = job'.reported
    <3>1. IsFiniteSet(new) /\ Cardinality(new) = k
      <4>1. lastId + 1 \in Int /\ lastId + k \in Int /\ ~(lastId + 1 > lastId + k)
            /\ (lastId + k) - (lastId + 1) + 1 = k
        BY <1>6, <1>7
      <4>2. QED BY <1>7, <4>1, FS_Interval
    <3>2. IsFiniteSet(job.made)
      <4>1. IsFiniteSet(Ids)
        BY <1>6, FS_Interval DEF Ids
      <4>2. QED BY <1>6, <4>1, FS_Subset
    <3>3. job.made \cap new = {}
      BY <1>6, <1>10, <2>1
    <3>4. Cardinality(job.made \cup new) = Cardinality(job.made) + Cardinality(new) - Cardinality({})
      BY <3>1, <3>2, <3>3, FS_Union
    <3>5. Cardinality(job.made) = job.reported
      BY <1>4 DEF CreateOk
    <3>6. QED BY <1>6, <1>7, <1>15, <3>1, <3>4, <3>5, FS_EmptySet
  <2>4. job'.tx => job'.made \cap job'.touched = {}
    <3>1. new \cap job.touched = {}
      BY <1>6, <1>10, <2>1
    <3>2. job.tx => job.made \cap job.touched = {}
      BY <1>4 DEF CreateOk
    <3>3. QED BY <1>15, <3>1, <3>2
  <2>5. \A i \in job'.made : There(table', job', i)
    <3>1. \A i \in job.made : There(table, job, i)
      BY <1>3, <1>4 DEF CreateOk
    <3>2. \A i \in new : New(i) \in table' /\ New(i).id = i
      BY <1>3
    <3> HIDE DEF New
    <3>3. \A i \in new : There(table', job', i)
      BY <3>2 DEF There
    <3>4. \A i \in job.made : There(table', job', i)
      BY <1>3, <1>15, <3>1 DEF There
    <3>5. QED BY <1>15, <3>3, <3>4
  <2>6. job'.state # "failed"
    BY <1>12, <1>15
  <2>7. QED BY <1>12, <1>15, <2>2, <2>3, <2>4, <2>5, <2>6 DEF CreateOk
<1>17. JobOk(mem', table', lastId', job')
  BY <1>13, <1>14, <1>15, <1>16 DEF JobOk, Call
<1>18. QED BY <1>3, <1>8, <1>9, <1>17, QuietSends, CallSteps

(* It fails: with a transaction none of its rows is left.                  *)
LEMMA CreateFailsSteps ==
    ASSUME InCall, CreateFails
    PROVE  Steps
<1>1. /\ job.kind = "create" /\ job.state = "run" /\ job' = Failed(job) /\ Quiet
      /\ table' = AfterFailure(table) /\ InJob(mem) /\ lastId' = lastId
  BY DEF CreateFails, Runs, Ends, Failed
<1>2. /\ Memory(mem) /\ soft \in BOOLEAN /\ TableInv(table, lastId)
      /\ job \in Call /\ BaseOk(soft, mem, job) /\ CreateOk(table, lastId, job)
  BY <1>1 DEF InCall, JobOk
<1>3. job' \in Call /\ FailsAs(job, job')
  BY <1>1, <1>2, FailedIs
<1>4. /\ job'.made = job.made /\ job'.touched = job.touched /\ job'.reported = job.reported
      /\ job'.tx = job.tx /\ job'.state = "failed" /\ job'.kind = "create" /\ job'.base = job.base
  BY <1>1, <1>3 DEF FailsAs
<1>5. table' \subseteq table /\ (job.tx => \A r \in table' : r.id \notin job.made) /\ (~job.tx => table' = table)
  BY <1>1 DEF AfterFailure
<1>6. TableInv(table', lastId')
  BY <1>1, <1>2, <1>5, TableFewer
<1>7. /\ Memory(mem') /\ job.base.stmt \in DOMAIN mem'.stmts /\ soft' = soft /\ handles' = handles
  BY <1>1, <1>2, InJobKeeps DEF BaseOk
<1>8. BaseOk(soft, mem', job')
  BY <1>2, <1>4, <1>7 DEF BaseOk, Sending
<1>9. CreateOk(table', lastId', job')
  <2>1. job.tx => \A i \in job.made : ~There(table', job', i)
    BY <1>2, <1>4, <1>5 DEF CreateOk, There
  <2>2. ~job.tx => \A i \in job.made : There(table', job', i)
    BY <1>1, <1>2, <1>4, <1>5 DEF CreateOk, There
  <2>3. QED BY <1>1, <1>2, <1>4, <2>1, <2>2 DEF CreateOk
<1>10. JobOk(mem', table', lastId', job')
  BY <1>3, <1>4, <1>8, <1>9 DEF JobOk
<1>11. QED BY <1>1, <1>6, <1>7, <1>10, QuietSends, CallSteps

(* FirstOrCreate.                                                          *)
FirstIs(j, step, state, key, is, touched) ==
    [kind |-> "first", state |-> state, base |-> j.base, touched |-> touched, assign |-> j.assign,
     step |-> step, key |-> key, is |-> is]

MayBe(m, j, step, key) ==
    /\ step # "find" /\ j.base.stmt \in DOMAIN m.stmts
    /\ step = "update" => key # 0 /\ j.assign # {} /\ Says(soft, m, j.base.stmt, j.base)
FirstStands(m, k) == k \in Call /\ k.kind = "first" /\ BaseOk(soft, m, k) /\ FirstOk(k)

(* What is known of FirstOrCreate after a step.                            *)
LEMMA FirstGoesOn ==
    ASSUME NEW j \in FirstJob, FirstOk(j), BaseOk(soft, mem, j), NEW m,
           NEW step \in {"find", "create", "update", "done"}, NEW state \in {"run", "ok"}, NEW key \in Nat,
           NEW is \in SUBSET Atoms, NEW touched \in SUBSET Ids,
           MayBe(m, j, step, key), NEW k, k = FirstIs(j, step, state, key, is, touched)
    PROVE  FirstStands(m, k)
<1>1. k = [kind |-> "first", state |-> state, base |-> j.base, touched |-> touched, assign |-> j.assign,
           step |-> step, key |-> key, is |-> is]
  BY DEF FirstIs
<1>2. k \in FirstJob
  BY <1>1 DEF FirstJob, States
<1>3. FirstOk(k)
  BY <1>1 DEF FirstOk, MayBe
<1>4. BaseOk(soft, m, k)
  BY <1>1 DEF BaseOk, Sending, MayBe
<1>5. QED BY <1>1, <1>2, <1>3, <1>4 DEF Call, FirstStands

(* What is known of it before.                                             *)
LEMMA FirstJobOk ==
    ASSUME InCall, job.kind = "first"
    PROVE  /\ job \in FirstJob /\ FirstOk(job) /\ BaseOk(soft, mem, job)
           /\ Memory(mem) /\ soft \in BOOLEAN /\ TableInv(table, lastId)
           /\ job.base \in Handle /\ Spoken(job.base.words) /\ job.base.stmt \in DOMAIN mem.stmts
           /\ job.touched \in SUBSET Ids /\ job.assign \in SUBSET Atoms /\ job.is \in SUBSET Atoms /\ job.key \in Nat
<1>1. job \in Call /\ FirstOk(job) /\ BaseOk(soft, mem, job)
  BY DEF InCall, JobOk
<1>2. job \in FirstJob
  BY <1>1, KindOf
<1>3. QED BY <1>1, <1>2 DEF InCall, BaseOk, FirstJob

(* Such a step keeps what holds.                                           *)
LEMMA FirstSteps ==
    ASSUME InCall, job.kind = "first", Sends, soft' = soft, handles' = handles, Memory(mem'), TableInv(table', lastId'),
           FirstStands(mem', job')
    PROVE  Steps
<1>1. JobOk(mem', table', lastId', job')
  BY DEF JobOk, FirstStands
<1>2. QED BY <1>1, CallSteps

(* The statement with which FirstOrCreate looks for a row, on a copy of    *)
(* its own.                                                                *)
FindsWith(i, b, h) ==
    /\ Memory(i.mem) /\ Says(soft, i.mem, i.stmt, Copy(h)) /\ Saying(Copy(h))
    /\ Grown(i.mem, b.mem, i.stmt) /\ Chooses(b, h, 0, 0)
    /\ Memory(b.mem) /\ Says(soft, b.mem, h.stmt, h)
LEMMA FindStatement ==
    ASSUME Memory(mem), soft \in BOOLEAN, NEW h \in Handle, Spoken(h.words), Says(soft, mem, h.stmt, h),
           NEW i, i = GetInstance(mem, Copy(h)), NEW b, b = QueryOn(i.mem, i.stmt, 0)
    PROVE  FindsWith(i, b, h)
<1>1. /\ Saying(Copy(h))
      /\ \A key, after, row : Suits(Copy(h), key, after, row) <=> Suits(h, key, after, row)
  BY CopyIs
<1>2. Saying(Copy(h)) /\ soft \in BOOLEAN
  BY <1>1
<1>3. /\ Memory(i.mem) /\ Says(soft, i.mem, i.stmt, Copy(h))
      /\ \A n : Grown(i.mem, n, i.stmt) => Memory(n) /\ Says(soft, n, h.stmt, h)
  BY CopyMade
<1> DEFINE z == 0
<1> HIDE DEF z
<1>4. z \in Nat /\ (z # 0 /\ (~soft \/ Copy(h).unscoped) => ~HasOr(Copy(h).words)) /\ z = 0
  BY DEF z
<1>5. Answers(i.mem, i.stmt, Copy(h), z, 0, QueryOn(i.mem, i.stmt, z))
  BY <1>2, <1>3, <1>4, QueryOnAnswers
<1>6. Answers(i.mem, i.stmt, Copy(h), 0, 0, b)
  BY <1>4, <1>5
<1>7. Grown(i.mem, b.mem, i.stmt) /\ Chooses(b, h, 0, 0)
  BY <1>1, <1>6 DEF Answers, Chooses
<1>8. QED BY <1>1, <1>3, <1>7 DEF FindsWith

(* FirstOrCreate looks for a row.                                          *)
LEMMA FirstFindSteps ==
    ASSUME InCall, FirstFind
    PROVE  Steps
<1> DEFINE h    == job.base
           i    == GetInstance(mem, Copy(h))
           b    == QueryOn(i.mem, i.stmt, 0)
           rows == FirstOf(1, Picked(b, table))
           found == (CHOOSE r \in rows : TRUE).id
<1>1. /\ job.kind = "first" /\ job.state = "run" /\ job.step = "find"
      /\ Send(Said(h, FALSE, 0, 1), rows) /\ InJob(b.mem) /\ table' = table /\ lastId' = lastId
      /\ job' = IF rows = {}
                THEN [job EXCEPT !.step = "create",
                                 !.is = EqAtoms(b.mem, i.stmt) \cup job.assign]
                ELSE [job EXCEPT !.key = found,
                                 !.touched = {},
                                 !.step  = IF job.assign = {} THEN "done" ELSE "update",
                                 !.state = IF job.assign = {} THEN "ok" ELSE "run"]
  BY DEF FirstFind, Runs, Copy
<1>2. /\ job \in FirstJob /\ FirstOk(job) /\ BaseOk(soft, mem, job)
      /\ Memory(mem) /\ soft \in BOOLEAN /\ TableInv(table, lastId)
      /\ h \in Handle /\ Spoken(h.words) /\ job.touched \in SUBSET Ids /\ job.assign \in SUBSET Atoms
      /\ job.is \in SUBSET Atoms /\ job.key \in Nat
  BY <1>1, FirstJobOk
<1>3. Says(soft, mem, h.stmt, h)
  BY <1>1, <1>2 DEF BaseOk, Sending
<1>4. TableOk(table) /\ table \in SUBSET Row
  BY <1>2, RowsFinite DEF TableInv
<1> HIDE DEF h, i, b
<1>5. /\ Grown(i.mem, b.mem, i.stmt) /\ Chooses(b, h, 0, 0)
      /\ Memory(b.mem) /\ Says(soft, b.mem, h.stmt, h)
  <2>1. i = GetInstance(mem, Copy(h)) /\ b = QueryOn(i.mem, i.stmt, 0)
    BY DEF i, b
  <2>2. FindsWith(i, b, h)
    BY <1>2, <1>3, <2>1, FindStatement
  <2>3. QED BY <2>2 DEF FindsWith
<1>6. Sends
  <2> DEFINE w == FALSE
             z == 0
             one == 1
  <2> HIDE DEF w, z, one
  <2>1. w \in BOOLEAN /\ Chooses(b, h, z, 0)
    BY <1>5 DEF w, z
  <2>2. Wanted(Said(h, w, z, one), table) = Hit(h, w, z, one, Picked(b, table))
    BY <1>4, <2>1, SaidIs
  <2>3. Hit(h, w, z, one, Picked(b, table)) = rows
    BY DEF Hit, w, one
  <2>4. Send(Said(h, w, z, one), rows)
    BY <1>1 DEF w, z, one
  <2> HIDE DEF rows
  <2>5. QED BY <2>2, <2>3, <2>4, SendIs
<1>7. /\ Memory(mem') /\ h.stmt \in DOMAIN mem'.stmts /\ soft' = soft /\ handles' = handles
      /\ Says(soft, mem', h.stmt, h)
  <2> DEFINE m == b.mem
  <2>1. Memory(m) /\ InJob(m) /\ Says(soft, m, job.base.stmt, job.base)
    BY <1>1, <1>5 DEF h
  <2> HIDE DEF m
  <2>2. job.base.stmt \in DOMAIN m.stmts
    BY <2>1, SaysTyped
  <2>3. /\ Memory(mem') /\ job.base.stmt \in DOMAIN mem'.stmts
        /\ Says(soft, mem', job.base.stmt, job.base) /\ soft' = soft /\ handles' = handles
    BY <2>1, <2>2, InJobKeeps
  <2>4. QED BY <2>3 DEF h
<1>8. rows \subseteq table
  BY DEF FirstOf, Picked
<1>9. rows # {} => found \in Nat \ {0}
  BY <1>4, <1>8 DEF Row, Ids
<1>10. PICK is : is = EqAtoms(b.mem, i.stmt) \cup job.assign
  OBVIOUS
<1>11. is \in SUBSET Atoms
  BY <1>2, <1>10 DEF EqAtoms
<1> HIDE DEF rows, found
<1>12. CASE rows = {}
  <2>1. job' = [job EXCEPT !.step = "create", !.is = is]
    BY <1>1, <1>10, <1>12
  <2>2. job' = FirstIs(job, "create", "run", job.key, is, job.touched)
    BY <1>1, <1>2, <2>1 DEF FirstJob, FirstIs
  <2> DEFINE step == "create"
             state == "run"
             key == job.key
             touched == job.touched
  <2>3. /\ step \in {"find", "create", "update", "done"} /\ state \in {"run", "ok"}
        /\ key \in Nat /\ touched \in SUBSET Ids /\ job' = FirstIs(job, step, state, key, is, touched)
    BY <1>2, <2>2
  <2>4. MayBe(mem', job, step, key)
    BY <1>7 DEF h, MayBe
  <2> HIDE DEF step, state, key, touched
  <2>6. FirstStands(mem', job')
    BY <1>2, <1>11, <2>3, <2>4, FirstGoesOn
  <2>7. QED BY <1>1, <1>2, <1>6, <1>7, <2>6, FirstSteps
<1>13. CASE rows # {}
  <2> DEFINE step == IF job.assign = {} THEN "done" ELSE "update"
             state == IF job.assign = {} THEN "ok" ELSE "run"
             none == {}
             old == job.is
  <2>1. job' = FirstIs(job, step, state, found, old, none)
    BY <1>1, <1>2, <1>13 DEF FirstJob, FirstIs
  <2>2. /\ step \in {"find", "create", "update", "done"} /\ state \in {"run", "ok"}
        /\ found \in Nat /\ none \in SUBSET Ids /\ old \in SUBSET Atoms
    BY <1>2, <1>9, <1>13
  <2>3. MayBe(mem', job, step, found)
    BY <1>7, <1>9, <1>13 DEF h, MayBe
  <2> HIDE DEF step, state, none, old
  <2>4. FirstStands(mem', job')
    BY <1>2, <2>1, <2>2, <2>3, FirstGoesOn
  <2>5. QED BY <1>1, <1>2, <1>6, <1>7, <2>4, FirstSteps
<1>14. QED BY <1>12, <1>13

(* It makes one, having found none.                                        *)
LEMMA FirstCreateSteps ==
    ASSUME InCall, FirstCreate
    PROVE  Steps
<1>1. PICK row : row = [id |-> NextId, is |-> job.is, gone |-> FALSE]
  OBVIOUS
<1>2. /\ job.kind = "first" /\ job.state = "run" /\ job.step = "create" /\ NextId \in Ids
      /\ table' = table \cup {row} /\ lastId' = NextId
      /\ job' = [job EXCEPT !.key = NextId, !.touched = {}, !.step = "done", !.state = "ok"]
      /\ InJob(mem) /\ Quiet
  BY <1>1 DEF FirstCreate, Runs
<1>3. /\ job \in FirstJob /\ FirstOk(job) /\ BaseOk(soft, mem, job)
      /\ Memory(mem) /\ soft \in BOOLEAN /\ TableInv(table, lastId)
      /\ job.base.stmt \in DOMAIN mem.stmts /\ job.is \in SUBSET Atoms
  BY <1>2, FirstJobOk
<1>4. lastId \in Nat /\ NextId = lastId + 1 /\ \A r \in table : r.id <= lastId /\ r.id \in Nat
  BY <1>3 DEF TableInv, NextId, Row, Ids
<1>5. row \in Row /\ row.id = NextId
  BY <1>1, <1>2, <1>3 DEF Row
<1>6. TableInv(table', lastId')
  <2>1. lastId' \in Nat /\ lastId <= lastId' /\ row.id <= lastId' /\ \A r \in table : r.id # row.id
    BY <1>2, <1>4, <1>5
  <2>2. QED BY <1>2, <1>3, <1>5, <2>1, TableMore
<1>7. /\ Memory(mem') /\ job.base.stmt \in DOMAIN mem'.stmts /\ soft' = soft /\ handles' = handles
  BY <1>2, <1>3, InJobKeeps
<1> DEFINE step == "done"
           state == "ok"
           none == {}
           old == job.is
           key == NextId
<1>8. job' = FirstIs(job, step, state, key, old, none)
  BY <1>2, <1>3 DEF FirstJob, FirstIs
<1>9. /\ step \in {"find", "create", "update", "done"} /\ state \in {"run", "ok"}
      /\ key \in Nat /\ none \in SUBSET Ids /\ old \in SUBSET Atoms
      /\ MayBe(mem', job, step, key)
  BY <1>3, <1>4, <1>7 DEF MayBe
<1> HIDE DEF step, state, none, old, key
<1>10. FirstStands(mem', job')
  BY <1>3, <1>7, <1>8, <1>9, FirstGoesOn
<1>11. QED BY <1>2, <1>6, <1>7, <1>10, QuietSends, FirstSteps

(* It assigns to the one found.                                            *)
LEMMA FirstUpdateSteps ==
    ASSUME InCall, FirstUpdate
    PROVE  Steps
<1> DEFINE b   == QueryOn(mem, job.base.stmt, job.key)
           hit == Picked(b, table)
<1>1. /\ job.kind = "first" /\ job.state = "run" /\ job.step = "update"
      /\ Send(Said(job.base, TRUE, job.key, 0), hit)
      /\ table' = Set(table, hit, job.assign)
      /\ InJob(b.mem) /\ lastId' = lastId
      /\ job' = [job EXCEPT !.step = "done", !.state = "ok"]
  BY DEF FirstUpdate, Runs
<1>2. /\ job \in FirstJob /\ FirstOk(job) /\ BaseOk(soft, mem, job)
      /\ Memory(mem) /\ soft \in BOOLEAN /\ TableInv(table, lastId)
      /\ job.base \in Handle /\ Spoken(job.base.words)
      /\ job.touched \in SUBSET Ids /\ job.is \in SUBSET Atoms /\ job.key \in Nat
      /\ job.assign \in SUBSET Atoms
  BY <1>1, FirstJobOk
<1>3. Says(soft, mem, job.base.stmt, job.base) /\ job.key # 0 /\ job.assign # {}
      /\ (~soft \/ job.base.unscoped => ~HasOr(job.base.words))
  BY <1>1, <1>2 DEF BaseOk, Sending, FirstOk
<1>4. Keyed(job.base, job.base.stmt, job.key, b)
  <2> DEFINE h == job.base
             s == job.base.stmt
             key == job.key
  <2>1. /\ h \in Handle /\ Spoken(h.words) /\ Says(soft, mem, s, h) /\ key \in Nat \ {0}
        /\ (~soft \/ h.unscoped => ~HasOr(h.words)) /\ b = QueryOn(mem, s, key)
    BY <1>2, <1>3
  <2> HIDE DEF h, s, key, b
  <2>2. Keyed(h, s, key, b)
    BY <1>2, <2>1, KeyedStatement
  <2>3. QED BY <2>2 DEF h, s, key
<1>5. /\ Memory(b.mem) /\ job.base.stmt \in DOMAIN b.mem.stmts
      /\ Wanted(Said(job.base, TRUE, job.key, 0), table) = hit
  BY <1>4 DEF Keyed
<1> HIDE DEF b, hit
<1>6. Sends
  <2> DEFINE q == Said(job.base, TRUE, job.key, 0)
  <2>1. Send(q, hit) /\ hit = Wanted(q, table)
    BY <1>1, <1>5
  <2> HIDE DEF q
  <2>2. QED BY <2>1, SendIs
<1>9. TableInv(table', lastId')
  <2>1. job.assign \in SUBSET Atoms
    BY <1>2
  <2>2. QED BY <1>1, <1>2, <2>1, SetTable
<1>10. /\ Memory(mem') /\ job.base.stmt \in DOMAIN mem'.stmts /\ soft' = soft /\ handles' = handles
  <2> DEFINE m == b.mem
  <2>1. Memory(m) /\ InJob(m) /\ job.base.stmt \in DOMAIN m.stmts
    BY <1>1, <1>5
  <2> HIDE DEF m
  <2>2. QED BY <2>1, InJobKeeps
<1> DEFINE step == "done"
           state == "ok"
           touched == job.touched
           old == job.is
           key == job.key
<1>11. job' = FirstIs(job, step, state, key, old, touched)
  BY <1>1, <1>2 DEF FirstJob, FirstIs
<1>12. /\ step \in {"find", "create", "update", "done"} /\ state \in {"run", "ok"}
       /\ key \in Nat /\ touched \in SUBSET Ids /\ old \in SUBSET Atoms
       /\ MayBe(mem', job, step, key)
  BY <1>2, <1>10 DEF MayBe
<1> HIDE DEF step, state, touched, old, key
<1>13. FirstStands(mem', job')
  BY <1>2, <1>10, <1>11, <1>12, FirstGoesOn
<1>14. QED BY <1>1, <1>6, <1>9, <1>10, <1>13, FirstSteps

-----------------------------------------------------------------------------
(* The other client.  What it inserts, deletes or sets during a call is    *)
(* touched, and nothing else changes.                                      *)
Touched(j, T) == [j EXCEPT !.touched = @ \cup T]
TouchesAs(j, k, T) ==
    /\ k.state = j.state /\ k.kind = j.kind /\ k.base = j.base /\ k.touched = j.touched \cup T
    /\ j.kind = "batches" => /\ k.total = j.total /\ k.size = j.size /\ k.batch = j.batch
                             /\ k.last = j.last /\ k.got = j.got /\ k.due = j.due
    /\ j.kind = "save"    => k.step = j.step /\ k.key = j.key
    /\ j.kind = "create"  => k.made = j.made /\ k.reported = j.reported /\ k.tx = j.tx /\ k.left = j.left
    /\ j.kind = "first"   => k.step = j.step /\ k.key = j.key /\ k.assign = j.assign /\ k.is = j.is

(* A touched call is as it was in all else.                                *)
LEMMA TouchedIs ==
    ASSUME NEW j \in Call, NEW T \in SUBSET Ids
    PROVE  Touched(j, T) \in Call /\ TouchesAs(j, Touched(j, T), T)
<1>1. PICK u : u = Touched(j, T)
  OBVIOUS
<1>2. CASE j \in BatchJob
  <2>1. u = [kind |-> "batches", state |-> j.state, base |-> j.base, touched |-> j.touched \cup T, total |-> j.total,
             offset |-> j.offset, batch |-> j.batch, last |-> j.last, size |-> j.size, got |-> j.got, due |-> j.due]
    BY <1>1, <1>2 DEF Touched, BatchJob
  <2>2. u \in BatchJob
    BY <1>2, <2>1 DEF BatchJob
  <2>3. TouchesAs(j, u, T)
    BY <1>2, <2>1 DEF TouchesAs, BatchJob
  <2>4. QED BY <1>1, <2>2, <2>3 DEF Call
<1>3. CASE j \in SaveJob
  <2>1. u = [kind |-> "save", state |-> j.state, base |-> j.base, touched |-> j.touched \cup T, key |-> j.key,
             is |-> j.is, selected |-> j.selected, affected |-> j.affected, step |-> j.step]
    BY <1>1, <1>3 DEF Touched, SaveJob
  <2>2. u \in SaveJob
    BY <1>3, <2>1 DEF SaveJob
  <2>3. TouchesAs(j, u, T)
    BY <1>3, <2>1 DEF TouchesAs, SaveJob
  <2>4. QED BY <1>1, <2>2, <2>3 DEF Call
<1>4. CASE j \in CreateJob
  <2>1. u = [kind |-> "create", state |-> j.state, base |-> j.base, touched |-> j.touched \cup T, left |-> j.left,
             n |-> j.n, size |-> j.size, made |-> j.made, reported |-> j.reported, tx |-> j.tx]
    BY <1>1, <1>4 DEF Touched, CreateJob
  <2>2. u \in CreateJob
    BY <1>4, <2>1 DEF CreateJob
  <2>3. TouchesAs(j, u, T)
    BY <1>4, <2>1 DEF TouchesAs, CreateJob
  <2>4. QED BY <1>1, <2>2, <2>3 DEF Call
<1>5. CASE j \in FirstJob
  <2>1. u = [kind |-> "first", state |-> j.state, base |-> j.base, touched |-> j.touched \cup T, assign |-> j.assign,
             step |-> j.step, key |-> j.key, is |-> j.is]
    BY <1>1, <1>5 DEF Touched, FirstJob
  <2>2. u \in FirstJob
    BY <1>5, <2>1 DEF FirstJob
  <2>3. TouchesAs(j, u, T)
    BY <1>5, <2>1 DEF TouchesAs, FirstJob
  <2>4. QED BY <1>1, <2>2, <2>3 DEF Call
<1>6. QED BY <1>2, <1>3, <1>4, <1>5 DEF Call

(* Only the rows with the identifiers in T are not as before.              *)
Elsewhere(tbl, last, tbl2, last2, j, T) ==
    /\ \A r \in tbl : r.id \in T \/ r \in tbl2
    /\ last \in Nat /\ last2 \in Nat /\ last <= last2
    /\ \A i \in T : i \in Nat /\ i <= last2
    /\ j.kind = "create" /\ j.tx => j.made \cap T = {}

(* A step of the other client: it touches T.                               *)
Visits ==
    \E T \in SUBSET Ids :
        /\ Elsewhere(table, lastId, table', lastId', job, T)
        /\ job' = Touched(job, T) /\ job.state = "run"
        /\ TableInv(table', lastId') /\ Quiet
        /\ soft' = soft /\ mem' = mem /\ handles' = handles

(* A call that was touched goes on as it should.                           *)
LEMMA ElsewhereSteps ==
    ASSUME InCall, Visits
    PROVE  Steps
<1> PICK T \in SUBSET Ids :
        /\ Elsewhere(table, lastId, table', lastId', job, T)
        /\ job' = Touched(job, T) /\ job.state = "run"
        /\ TableInv(table', lastId') /\ Quiet
        /\ soft' = soft /\ mem' = mem /\ handles' = handles
  BY DEF Visits
<1>1. Memory(mem) /\ job \in Call /\ BaseOk(soft, mem, job)
  BY DEF InCall, JobOk
<1>2. job' \in Call /\ TouchesAs(job, job', T)
  BY <1>1, TouchedIs
<1>3. BaseOk(soft, mem', job')
  <2>1. job'.base = job.base /\ (Sending(job') => Sending(job))
    BY <1>2 DEF TouchesAs, Sending
  <2>2. QED BY <1>1, <2>1 DEF BaseOk
<1>4. ASSUME job.kind = "batches" PROVE BatchOk(table', job')
  <2>1. BatchOk(table, job) /\ job \in BatchJob
    BY <1>1, <1>4, KindOf DEF InCall, JobOk
  <2>2. /\ job'.total = job.total /\ job'.size = job.size /\ job'.batch = job.batch /\ job'.last = job.last
        /\ job'.got = job.got /\ job'.due = job.due /\ job'.base = job.base /\ job'.state = "run"
        /\ job'.touched = job.touched \cup T
    BY <1>2, <1>4 DEF TouchesAs
  <2>3. Delivered(job') = Delivered(job)
    BY <2>2 DEF Delivered
  <2>4. Awaits(table', job')
    <3>1. Awaits(table, job)
      BY <2>1 DEF BatchOk
    <3>2. ASSUME NEW i \in job'.due \ job'.touched, i \notin Delivered(job')
          PROVE  \E r \in table' : r.id = i /\ Suits(job'.base, 0, job'.last, r)
      <4>1. i \in job.due \ job.touched /\ i \notin T /\ i \notin Delivered(job)
        BY <2>2, <2>3, <3>2
      <4>2. PICK r \in table : r.id = i /\ Suits(job.base, 0, job.last, r)
        BY <3>1, <4>1 DEF Awaits
      <4>3. r \in table'
        BY <4>1, <4>2 DEF Elsewhere
      <4>4. Suits(job'.base, 0, job'.last, r)
        BY <2>2, <4>2
      <4>5. QED BY <4>2, <4>3, <4>4
    <3>3. QED BY <3>2 DEF Awaits
  <2>5. QED BY <2>1, <2>2, <2>4 DEF BatchOk, Counts, Handed
<1>5. ASSUME job.kind = "save" PROVE SaveOk(table', lastId', job')
  <2>1. SaveOk(table, lastId, job) /\ job \in SaveJob
    BY <1>1, <1>5, KindOf DEF InCall, JobOk
  <2>2. job'.step = job.step /\ job'.key = job.key /\ job'.base = job.base /\ job'.state = "run"
    BY <1>2, <1>5 DEF TouchesAs
  <2>3. job.key \in Nat /\ job.key <= lastId + 1 /\ lastId \in Nat /\ lastId' \in Nat /\ lastId <= lastId'
    BY <2>1 DEF SaveOk, SaveJob, Elsewhere
  <2>4. job'.key <= lastId' + 1
    BY <2>2, <2>3
  <2>5. QED BY <2>1, <2>2, <2>4 DEF SaveOk
<1>6. ASSUME job.kind = "create" PROVE CreateOk(table', lastId', job')
  <2>1. CreateOk(table, lastId, job) /\ job \in CreateJob
    BY <1>1, <1>6, KindOf DEF InCall, JobOk
  <2>2. /\ job'.made = job.made /\ job'.reported = job.reported /\ job'.tx = job.tx /\ job'.left = job.left
        /\ job'.state = "run" /\ job'.touched = job.touched \cup T
    BY <1>2, <1>6 DEF TouchesAs
  <2>3. \A i \in job'.made \cup job'.touched : i <= lastId'
    <3>1. \A i \in job.made \cup job.touched : i \in Nat /\ i <= lastId
      BY <2>1 DEF CreateOk, CreateJob, Ids
    <3>2. QED BY <2>2, <3>1 DEF Elsewhere
  <2>4. job'.tx => job'.made \cap job'.touched = {}
    BY <1>6, <2>1, <2>2 DEF CreateOk, Elsewhere
  <2>5. ASSUME NEW i \in job'.made PROVE There(table', job', i)
    <3>1. There(table, job, i)
      BY <2>1, <2>2 DEF CreateOk
    <3>2. QED BY <2>2, <3>1 DEF There, Elsewhere
  <2>6. QED BY <2>1, <2>2, <2>3, <2>4, <2>5 DEF CreateOk
<1>7. ASSUME job.kind = "first" PROVE FirstOk(job')
  <2>1. FirstOk(job)
    BY <1>7 DEF InCall, JobOk
  <2>2. job'.step = job.step /\ job'.key = job.key /\ job'.assign = job.assign /\ job'.base = job.base
    BY <1>2, <1>7 DEF TouchesAs
  <2>3. QED BY <2>1, <2>2 DEF FirstOk
<1>8. JobOk(mem', table', lastId', job')
  <2>1. job'.kind = job.kind
    BY <1>2 DEF TouchesAs
  <2>2. QED BY <1>2, <1>3, <1>4, <1>5, <1>6, <1>7, <2>1 DEF JobOk
<1>9. QED BY <1>1, <1>8, QuietSends, CallSteps

(* What the other client finds during a call.                              *)
LEMMA InCallRuns ==
    ASSUME InCall
    PROVE  /\ lastId \in Nat /\ table \subseteq Row /\ Distinct(table)
           /\ \A r \in table : r.id \in Ids /\ r.id \in Nat /\ r.id <= lastId
           /\ job.kind = "create" /\ job.tx => \A i \in job.made : i \in Nat /\ i <= lastId
<1>1. ASSUME job.kind = "create" PROVE \A i \in job.made : i \in Nat /\ i <= lastId
  <2>1. CreateOk(table, lastId, job) /\ job \in CreateJob
    BY <1>1, KindOf DEF InCall, JobOk
  <2>2. QED BY <2>1 DEF CreateOk, CreateJob, Ids
<1>2. QED BY <1>1 DEF InCall, TableInv, Row, Ids

(* The other client inserts.                                               *)
LEMMA OtherInsertsVisits ==
    ASSUME InCall, NEW is \in SUBSET Atoms, OtherInserts(is)
    PROVE  Visits
<1>1. PICK row : row = [id |-> NextId, is |-> is, gone |-> FALSE]
  OBVIOUS
<1>2. NextId \in Ids /\ NextId = lastId + 1 /\ Other({}, {row})
  BY <1>1 DEF OtherInserts, NextId
<1>3. /\ lastId \in Nat /\ table \subseteq Row /\ \A r \in table : r.id \in Nat /\ r.id <= lastId
      /\ job.kind = "create" /\ job.tx => \A i \in job.made : i \in Nat /\ i <= lastId
      /\ TableInv(table, lastId)
  BY InCallRuns DEF InCall
<1>4. row \in Row /\ row.id = NextId
  BY <1>1, <1>2 DEF Row
<1>5. /\ job.state = "run" /\ Quiet /\ soft' = soft /\ mem' = mem /\ handles' = handles
      /\ table' = table \cup {row}
      /\ lastId' = lastId + 1
      /\ job' = Touched(job, {NextId})
  <2>1. row.id > lastId
    BY <1>2, <1>3, <1>4
  <2>2. {} \cup {r.id : r \in {row}} = {NextId}
    BY <1>4
  <2>3. QED BY <1>2, <2>1, <2>2 DEF Other, Touched
<1>6. TableInv(table', lastId')
  <2>1. lastId + 1 \in Nat /\ lastId <= lastId + 1 /\ row.id <= lastId + 1 /\ \A r \in table : r.id # row.id
    BY <1>2, <1>3, <1>4
  <2>2. QED BY <1>3, <1>4, <1>5, <2>1, TableMore
<1>7. Elsewhere(table, lastId, table', lastId', job, {NextId})
  <2>1. \A r \in table : r \in table'
    BY <1>5
  <2>2. job.kind = "create" /\ job.tx => NextId \notin job.made
    BY <1>2, <1>3
  <2>3. lastId' \in Nat /\ lastId <= lastId' /\ NextId \in Nat /\ NextId <= lastId'
    BY <1>2, <1>3, <1>5
  <2>4. QED BY <1>3, <2>1, <2>2, <2>3 DEF Elsewhere
<1>8. {NextId} \in SUBSET Ids
  BY <1>2
<1>9. QED BY <1>5, <1>6, <1>7, <1>8 DEF Visits

(* It deletes.                                                             *)
LEMMA OtherDeletesVisits ==
    ASSUME InCall, NEW r \in Seen, OtherDeletes(r)
    PROVE  Visits
<1>1. /\ lastId \in Nat /\ \A q \in table : q.id \in Ids /\ q.id \in Nat /\ q.id <= lastId
      /\ TableInv(table, lastId)
  BY InCallRuns DEF InCall
<1>2. r \in table /\ (job.kind = "create" /\ job.tx => r.id \notin job.made)
  BY DEF Seen
<1>3. /\ job.state = "run" /\ Quiet /\ soft' = soft /\ mem' = mem /\ handles' = handles
      /\ table' = {q \in table : q.id \notin {r.id}}
      /\ lastId' = lastId
      /\ job' = Touched(job, {r.id})
  <2>1. Other({r.id}, {})
    BY DEF OtherDeletes
  <2>2. {r.id} \cup {q.id : q \in {}} = {r.id}
    OBVIOUS
  <2>3. QED BY <2>1, <2>2 DEF Other, Touched
<1>4. TableInv(table', lastId')
  <2>1. table' \in SUBSET table
    BY <1>3
  <2>2. QED BY <1>1, <1>3, <2>1, TableFewer
<1>5. Elsewhere(table, lastId, table', lastId', job, {r.id})
  BY <1>1, <1>2, <1>3 DEF Elsewhere
<1>6. {r.id} \in SUBSET Ids
  BY <1>1, <1>2
<1>7. QED BY <1>3, <1>4, <1>5, <1>6 DEF Visits

(* It sets a row.                                                          *)
LEMMA OtherSetsVisits ==
    ASSUME InCall, NEW r \in Seen, NEW is \in SUBSET Atoms, OtherSets(r, is)
    PROVE  Visits
<1>1. PICK row : row = [r EXCEPT !.is = is]
  OBVIOUS
<1>2. /\ lastId \in Nat /\ table \subseteq Row /\ \A q \in table : q.id \in Ids /\ q.id \in Nat /\ q.id <= lastId
      /\ TableInv(table, lastId)
  BY InCallRuns DEF InCall
<1>3. r \in table /\ (job.kind = "create" /\ job.tx => r.id \notin job.made)
  BY DEF Seen
<1>4. row \in Row /\ row.id = r.id
  <2>1. row = [id |-> r.id, is |-> is, gone |-> r.gone]
    BY <1>1, <1>2, <1>3 DEF Row
  <2>2. QED BY <1>2, <1>3, <2>1 DEF Row
<1> DEFINE left == {q \in table : q.id \notin {r.id}}
<1>5. /\ job.state = "run" /\ Quiet /\ soft' = soft /\ mem' = mem /\ handles' = handles
      /\ table' = left \cup {row}
      /\ lastId' = lastId
      /\ job' = Touched(job, {r.id})
  <2>1. Other({r.id}, {row})
    BY <1>1 DEF OtherSets
  <2>2. ~(row.id > lastId)
    BY <1>2, <1>3, <1>4
  <2>3. {r.id} \cup {q.id : q \in {row}} = {r.id}
    BY <1>4
  <2>4. QED BY <2>1, <2>2, <2>3 DEF Other, Touched
<1>6. TableInv(table', lastId')
  <2>1. left \in SUBSET table /\ \A q \in left : q.id # row.id
    BY <1>4
  <2> HIDE DEF left
  <2>2. TableInv(left, lastId)
    BY <1>2, <2>1, TableFewer
  <2>3. lastId <= lastId /\ row.id <= lastId
    BY <1>2, <1>3, <1>4
  <2>4. TableInv(left \cup {row}, lastId)
    BY <1>2, <1>4, <2>1, <2>2, <2>3, TableMore
  <2>5. QED BY <1>5, <2>4
<1>7. Elsewhere(table, lastId, table', lastId', job, {r.id})
  BY <1>2, <1>3, <1>5 DEF Elsewhere
<1>8. {r.id} \in SUBSET Ids
  BY <1>2, <1>3
<1>9. QED BY <1>5, <1>6, <1>7, <1>8 DEF Visits

-----------------------------------------------------------------------------
(* The inductive invariant: handles say what was said on them, the rows    *)
(* have different identifiers, and a call is as far as its kind says.      *)
IInv ==
    /\ Good /\ TableInv(table, lastId)
    /\ job = NoJob \/ (Idle(handles) /\ JobOk(mem, table, lastId, job))

(* It holds at the start.                                                  *)
LEMMA InitInv ==
    ASSUME Init
    PROVE  IInv
<1>1. /\ soft \in BOOLEAN /\ mem = [arr |-> <<>>, stmts |-> <<>>]
      /\ handles = [h \in 1..MaxHandles |-> IF h = 1 THEN Root ELSE Unused]
      /\ table = (IF soft THEN Rows ELSE {[r EXCEPT !.gone = FALSE] : r \in Rows})
      /\ lastId = Cardinality(Rows) /\ job = NoJob
  BY DEF Init
<1>2. Memory(mem)
  <2>1. DOMAIN mem.arr = {} /\ DOMAIN mem.stmts = {} /\ mem = [arr |-> mem.arr, stmts |-> mem.stmts]
    BY <1>1
  <2>2. IsFiniteSet(DOMAIN mem.arr) /\ IsFiniteSet(DOMAIN mem.stmts)
    BY <2>1, FS_EmptySet
  <2>3. mem.arr \in [DOMAIN mem.arr -> Seq(Expr)] /\ mem.stmts \in [DOMAIN mem.stmts -> Statement]
    BY <1>1
  <2>4. Acyclic(mem.arr)
    <3>1. PICK f : f = [i \in DOMAIN mem.arr |-> 0]
      OBVIOUS
    <3>2. f \in [DOMAIN mem.arr -> 0..0]
      BY <2>1, <3>1
    <3>3. \A i \in DOMAIN mem.arr : \A j \in Refs(mem.arr[i], Nested) : f[j] < f[i]
      BY <2>1
    <3>4. QED BY <3>2, <3>3 DEF Acyclic
  <2>5. QED BY <2>1, <2>2, <2>3, <2>4 DEF Memory, Arrays
<1>3. Handles(soft, mem, handles)
  <2>1. Root \in Handle /\ HandleOk(soft, mem, Root) /\ Root.clone = 1
    <3>1. <<>> \in Seq(Word) /\ <<>> \in Seq(Atoms) /\ 0 \in Nat /\ 1 \in -1..2
      OBVIOUS
    <3>2. PICK u : u = Root
      OBVIOUS
    <3>3. u = [clone |-> 1, stmt |-> 0, allow |-> FALSE, words |-> <<>>, scopes |-> <<>>,
               unscoped |-> FALSE, asked |-> FALSE]
      BY <3>2 DEF Root, Unused
    <3>4. u \in Handle /\ u.clone = 1 /\ Fresh(u) /\ Spoken(u.words)
      BY <3>1, <3>3 DEF Handle, Fresh, Spoken
    <3>5. HandleOk(soft, mem, u)
      BY <3>4 DEF HandleOk
    <3>6. QED BY <3>2, <3>4, <3>5
  <2>2. Unused \in Handle /\ HandleOk(soft, mem, Unused) /\ Unused.clone = -1
    BY UnusedOk DEF Unused
  <2>3. \A h \in 1..MaxHandles : handles[h] \in {Root, Unused}
    BY <1>1
  <2>4. handles \in [1..MaxHandles -> Handle]
    BY <1>1, <2>1, <2>2
  <2>5. \A h, k \in 1..MaxHandles : Apart(handles[h], handles[k])
    BY <2>1, <2>2, <2>3 DEF Apart
  <2>6. QED BY <2>1, <2>2, <2>3, <2>4, <2>5 DEF Handles
<1>4. lastId \in Nat
  BY <1>1, BoundsAssumption, FS_CardinalityType
<1>5. TableInv(Rows, lastId)
  <2>1. \A r \in Rows : r.id \in 1..lastId /\ r.is \in SUBSET Atoms /\ r.gone \in BOOLEAN
                        /\ r = [id |-> r.id, is |-> r.is, gone |-> r.gone]
    BY <1>1, BoundsAssumption
  <2>2. lastId <= MaxId /\ MaxId \in Nat
    BY <1>1, BoundsAssumption
  <2>3. \A i \in 1..lastId : i \in Ids /\ i <= lastId
    BY <1>4, <2>2 DEF Ids
  <2>4. Rows \subseteq Row /\ \A r \in Rows : r.id <= lastId
    BY <2>1, <2>3 DEF Row
  <2>5. QED BY <1>4, <2>4, BoundsAssumption DEF TableInv, Distinct
<1>6. TableInv(table, lastId)
  <2>1. CASE soft
    BY <1>1, <1>5, <2>1
  <2>2. CASE ~soft
    <3> DEFINE f == [r \in Rows |-> [r EXCEPT !.gone = FALSE]]
    <3>1. ASSUME NEW r \in Rows PROVE f[r] \in Row /\ f[r].id = r.id
      <4>1. r \in Row
        BY <1>5 DEF TableInv
      <4>2. PICK u : u = [r EXCEPT !.gone = FALSE]
        OBVIOUS
      <4>3. u.id = r.id /\ u = [id |-> r.id, is |-> r.is, gone |-> FALSE]
        BY <4>1, <4>2 DEF Row
      <4>4. u \in Row
        BY <4>1, <4>3 DEF Row
      <4>5. f[r] = u
        BY <4>2
      <4>6. QED
        <5> HIDE DEF f
        <5> QED BY <4>3, <4>4, <4>5
    <3>2. table = {f[r] : r \in Rows}
      BY <1>1, <2>2
    <3>3. f \in [Rows -> Row]
      <4>1. f = [r \in Rows |-> f[r]]
        OBVIOUS
      <4> HIDE DEF f
      <4>2. QED BY <3>1, <4>1
    <3> HIDE DEF f
    <3>4. QED BY <1>5, <3>1, <3>2, <3>3, TableImage
  <2>3. QED BY <2>1, <2>2
<1>7. QED BY <1>1, <1>2, <1>3, <1>6 DEF IInv, Good

(* While the program works there is no call, and a call that runs has      *)
(* begun.                                                                  *)
LEMMA WorkingOrCall ==
    ASSUME IInv
    PROVE  /\ Working => job = NoJob
           /\ job.state = "run" \/ job.kind \in {"batches", "save", "create", "first"} => InCall
<1>1. job \in Call => job.kind \in {"batches", "save", "create", "first"}
  BY KindOf
<1>2. job = NoJob => job.kind = "none" /\ job.state = "none"
  BY DEF NoJob
<1>3. job # NoJob => InCall /\ job \in Call
  BY DEF IInv, Good, InCall, JobOk
<1>4. QED BY <1>1, <1>2, <1>3 DEF Working

(* What is left after a step is again as it should be.                     *)
LEMMA StepsInv ==
    ASSUME soft \in BOOLEAN, Steps
    PROVE  IInv'
<1>1. soft' \in BOOLEAN /\ soft' = soft
  BY DEF Steps
<1>2. Good'
  BY <1>1 DEF Steps, Good
<1>3. ASSUME Idle(handles'), JobOk(mem', table', lastId', job')
      PROVE  Idle(handles)' /\ JobOk(mem, table, lastId, job)'
  <2>1. Idle(handles)'
    BY <1>3 DEF Idle
  <2>2. (job \in Call)' /\ BaseOk(soft, mem, job)'
    BY <1>1, <1>3 DEF JobOk
  <2>3. ASSUME job'.kind = "batches" PROVE BatchOk(table, job)'
    <3>1. BatchOk(table', job')
      BY <1>3, <2>3 DEF JobOk
    <3>2. QED BY <1>1, <3>1 DEF BatchOk, Awaits, Suits
  <2>4. ASSUME job'.kind = "save" PROVE SaveOk(table, lastId, job)'
    BY <1>3, <2>4 DEF JobOk
  <2>5. ASSUME job'.kind = "create" PROVE CreateOk(table, lastId, job)'
    BY <1>3, <2>5 DEF JobOk
  <2>6. ASSUME job'.kind = "first" PROVE FirstOk(job)'
    <3>1. FirstOk(job')
      BY <1>3, <2>6 DEF JobOk
    <3>2. QED BY <1>1, <3>1 DEF FirstOk
  <2>7. QED BY <2>1, <2>2, <2>3, <2>4, <2>5, <2>6 DEF JobOk
<1>4. QED BY <1>2, <1>3 DEF Steps, IInv

(* A step without a call.                                                  *)
LEMMA WorksOn ==
    ASSUME IInv, Working, KeepsGood, Sends, TableInv(table', lastId'), job' = job
    PROVE  Steps
<1>1. job' = NoJob
  BY WorkingOrCall
<1>2. QED BY <1>1 DEF KeepsGood, Steps

(* Every chain method keeps it.                                            *)
LEMMA ChainSteps ==
    ASSUME Habits = {}, IInv, NEW h \in Used, Chain(h)
    PROVE  Steps
<1>1. Good /\ TableInv(table, lastId)
  BY DEF IInv
<1>2. ASSUME NEW w \in Words, IF w[1] = "scope" THEN Scopes(h, w[2]) ELSE Where(h, w[1], w[2]) PROVE Steps
  <2>1. w[1] \in {"where", "or", "not", "scope"} /\ w[2] \in Atoms
    BY BoundsAssumption
  <2> DEFINE op == w[1]
             x  == w[2]
  <2>2. CASE op = "scope"
    <3>1. Scopes(h, x) /\ x \in Atoms
      BY <1>2, <2>1, <2>2
    <3> HIDE DEF op, x
    <3>2. KeepsGood
      BY <1>1, <3>1, ScopesKeeps
    <3>3. Working /\ Quiet /\ table' = table /\ lastId' = lastId /\ job' = job
      BY <3>1 DEF Scopes, Chained
    <3>4. QED BY <1>1, <3>2, <3>3, QuietSends, WorksOn
  <2>3. CASE op # "scope"
    <3>1. Where(h, op, x) /\ x \in Atoms /\ op \in {"where", "or", "not"}
      BY <1>2, <2>1, <2>3
    <3> HIDE DEF op, x
    <3>2. KeepsGood
      BY <1>1, <3>1, WhereKeeps
    <3>3. Working /\ Quiet /\ table' = table /\ lastId' = lastId /\ job' = job
      BY <3>1 DEF Where, Chained
    <3>4. QED BY <1>1, <3>2, <3>3, QuietSends, WorksOn
  <2>4. QED BY <2>2, <2>3
<1>3. ASSUME NEW op \in {"where", "or"}, NEW g \in Used, WhereGroup(h, op, g) PROVE Steps
  <2>1. KeepsGood
    BY <1>1, <1>3, WhereGroupKeeps
  <2>2. Working /\ Quiet /\ table' = table /\ lastId' = lastId /\ job' = job
    BY <1>3 DEF WhereGroup, Chained
  <2>3. QED BY <1>1, <2>1, <2>2, QuietSends, WorksOn
<1>4. ASSUME Unscoped(h) PROVE Steps
  <2>1. KeepsGood
    BY <1>1, <1>4, UnscopedKeeps
  <2>2. Working /\ Quiet /\ table' = table /\ lastId' = lastId /\ job' = job
    BY <1>4 DEF Unscoped, Chained
  <2>3. QED BY <1>1, <2>1, <2>2, QuietSends, WorksOn
<1>5. ASSUME NEW kind \in {"plain", "context", "newdb"}, NEW allow \in BOOLEAN, Session(h, kind, allow)
      PROVE  Steps
  <2>1. KeepsGood
    BY <1>1, <1>5, SessionKeeps
  <2>2. Working /\ Quiet /\ table' = table /\ lastId' = lastId /\ job' = job
    BY <1>5 DEF Session
  <2>3. QED BY <1>1, <2>1, <2>2, QuietSends, WorksOn
<1>6. QED BY <1>2, <1>3, <1>4, <1>5 DEF Chain

(* Every finisher keeps it and hits what may be expected.                  *)
LEMMA FinisherSteps ==
    ASSUME Habits = {}, IInv, NEW h \in Used, Finisher(h)
    PROVE  Steps
<1>1. Good /\ TableInv(table, lastId) /\ TableOk(table)
  <2>1. Good /\ TableInv(table, lastId)
    BY DEF IInv
  <2>2. table \in SUBSET Row /\ Distinct(table)
    BY <2>1 DEF TableInv
  <2>3. QED BY <2>1, <2>2, RowsFinite
<1>2. CASE Find(h)
  <2>1. Sends /\ KeepsGood /\ table' = table
    BY <1>1, <1>2, FindSends
  <2>2. Working /\ lastId' = lastId /\ job' = job
    BY <1>2 DEF Find, Finish
  <2>3. QED BY <1>1, <2>1, <2>2, WorksOn
<1>3. ASSUME NEW key \in Nat, First(h, key) PROVE Steps
  <2>1. Sends /\ KeepsGood /\ table' = table
    BY <1>1, <1>3, FirstSends
  <2>2. Working /\ lastId' = lastId /\ job' = job
    BY <1>3 DEF First, Finish
  <2>3. QED BY <1>1, <2>1, <2>2, WorksOn
<1>4. ASSUME NEW key \in Nat, Delete(h, key) PROVE Steps
  <2>1. Sends /\ KeepsGood /\ TableInv(table', lastId)
    BY <1>1, <1>4, DeleteSends
  <2>2. Working /\ lastId' = lastId /\ job' = job
    BY <1>4 DEF Delete, Finish
  <2>3. QED BY <1>1, <2>1, <2>2, WorksOn
<1>5. ASSUME NEW key \in Nat, NEW x \in Assigned, Update(h, key, x) PROVE Steps
  <2>1. x \in Atoms
    BY BoundsAssumption
  <2>2. Sends /\ KeepsGood /\ TableInv(table', lastId)
    BY <1>1, <1>5, <2>1, UpdateSends
  <2>3. Working /\ lastId' = lastId /\ job' = job
    BY <1>5 DEF Update, Finish
  <2>4. QED BY <1>1, <2>2, <2>3, WorksOn
<1>6. \A key \in {0, 2} : key \in Nat
  OBVIOUS
<1>7. QED BY <1>2, <1>3, <1>4, <1>5, <1>6 DEF Finisher

(* It holds when a call begins.                                            *)
LEMMA LastCallSteps ==
    ASSUME Habits = {}, IInv, NEW h \in Used, LastCall(h)
    PROVE  Steps
<1>1. Good /\ TableInv(table, lastId)
  BY DEF IInv
<1>2. MaxBatch \in Nat /\ MaxBatch # 0
  BY BoundsAssumption
<1>3. MaxBatch \in 1..MaxBatch /\ MaxBatch + 1 \in Nat \ {0} /\ MaxBatch \in Nat \ {0}
  BY <1>2
<1> DEFINE most == MaxBatch
           all  == Atoms
<1>4. most \in 1..MaxBatch /\ all \in SUBSET Atoms
  BY <1>3
<1> HIDE DEF most, all
<1>5. ASSUME NEW total \in Nat, NEW offset \in Nat, FindInBatches(h, most, total, offset) PROVE Steps
  BY <1>1, <1>4, <1>5, FindInBatchesSteps
<1>6. ASSUME NEW key \in 0..NextId, NEW selected \in BOOLEAN, Save(h, key, all, selected) PROVE Steps
  BY <1>1, <1>4, <1>6, SaveSteps
<1>7. ASSUME NEW n \in Nat \ {0}, NEW size \in 1..MaxBatch, NEW skip \in BOOLEAN, CreateInBatches(h, n, size, skip)
      PROVE  Steps
  BY <1>1, <1>7, CreateInBatchesSteps
<1>8. ASSUME NEW assign \in {{}} \cup {{x} : x \in Assigned}, FirstOrCreate(h, assign) PROVE Steps
  <2>1. assign = {} \/ \E x \in Atoms : assign = {x}
    BY BoundsAssumption
  <2>2. QED BY <1>1, <1>8, <2>1, FirstOrCreateSteps
<1>9. /\ \A total \in {0, 1, MaxBatch + 1} : total \in Nat
      /\ \A offset \in 0..1 : offset \in Nat
      /\ \A n \in {MaxBatch, MaxBatch + 1} : n \in Nat \ {0}
  BY <1>3
<1>10. \/ \E total \in {0, 1, MaxBatch + 1}, offset \in 0..1 : FindInBatches(h, most, total, offset)
       \/ \E key \in 0..NextId, selected \in BOOLEAN : Save(h, key, all, selected)
       \/ \E n \in {MaxBatch, MaxBatch + 1}, size \in 1..MaxBatch, skip \in BOOLEAN : CreateInBatches(h, n, size, skip)
       \/ \E assign \in {{}} \cup {{x} : x \in Assigned} : FirstOrCreate(h, assign)
  BY DEF LastCall, most, all
<1>11. QED BY <1>5, <1>6, <1>7, <1>8, <1>9, <1>10

(* Every step of a call keeps it.                                          *)
LEMMA JobSteps ==
    ASSUME IInv, Job
    PROVE  Steps
<1>1. InCall
  <2>1. job.kind \in {"batches", "save", "create", "first"}
    BY DEF Job, NextBatch, SaveUpdate, SaveCreate, CreateBatch, CreateFails, FirstFind, FirstCreate,
           FirstUpdate, JobFails, Runs
  <2>2. QED BY <2>1, WorkingOrCall
<1>2. CASE NextBatch
  BY <1>1, <1>2, NextBatchSteps
<1>3. CASE SaveUpdate
  BY <1>1, <1>3, SaveUpdateSteps
<1>4. CASE SaveCreate
  BY <1>1, <1>4, SaveCreateSteps
<1>5. CASE CreateBatch
  BY <1>1, <1>5, CreateBatchSteps
<1>6. CASE CreateFails
  BY <1>1, <1>6, CreateFailsSteps
<1>7. CASE FirstFind
  BY <1>1, <1>7, FirstFindSteps
<1>8. CASE FirstCreate
  BY <1>1, <1>8, FirstCreateSteps
<1>9. CASE FirstUpdate
  BY <1>1, <1>9, FirstUpdateSteps
<1>10. ASSUME NEW kind \in {"batches", "save", "first"}, JobFails(kind) PROVE Steps
  BY <1>1, <1>10, JobFailsSteps
<1>11. QED BY <1>2, <1>3, <1>4, <1>5, <1>6, <1>7, <1>8, <1>9, <1>10 DEF Job

(* The other client touches what it changes.                               *)
LEMMA ClientVisits ==
    ASSUME IInv, Client
    PROVE  InCall /\ Visits
<1>1. InCall
  <2>1. job.state = "run"
    BY DEF Client, OtherInserts, OtherDeletes, OtherSets, Other
  <2>2. QED BY <2>1, WorkingOrCall
<1> DEFINE all == Atoms
<1>2. all \in SUBSET Atoms
  OBVIOUS
<1>3. \/ OtherInserts(all)
      \/ \E r \in Seen : OtherDeletes(r) \/ OtherSets(r, all)
  BY DEF Client
<1> HIDE DEF all
<1>4. CASE OtherInserts(all)
  BY <1>1, <1>2, <1>4, OtherInsertsVisits
<1>5. ASSUME NEW r \in Seen, OtherDeletes(r) PROVE Visits
  BY <1>1, <1>5, OtherDeletesVisits
<1>6. ASSUME NEW r \in Seen, OtherSets(r, all) PROVE Visits
  BY <1>1, <1>2, <1>6, OtherSetsVisits
<1>7. QED BY <1>1, <1>3, <1>4, <1>5, <1>6

(* The other client keeps it.                                              *)
LEMMA ClientSteps ==
    ASSUME IInv, Client
    PROVE  Steps
BY ClientVisits, ElsewhereSteps

(* Nothing happens.                                                        *)
LEMMA StutterSteps ==
    ASSUME IInv, UNCHANGED vars
    PROVE  Steps
<1>1. /\ soft' = soft /\ mem' = mem /\ handles' = handles /\ table' = table
      /\ lastId' = lastId /\ job' = job /\ sent' = sent
  BY DEF vars
<1>2. Sends
  BY <1>1 DEF Sends
<1>3. QED BY <1>1, <1>2 DEF Steps, IInv, Good

(* Every step keeps it and hits what may be expected.                      *)
LEMMA NextSteps ==
    ASSUME Habits = {}, IInv, [Next]_vars
    PROVE  Steps
<1>1. ASSUME NEW h \in Used, Chain(h) \/ Finisher(h) \/ LastCall(h) PROVE Steps
  BY <1>1, ChainSteps, FinisherSteps, LastCallSteps
<1>2. ASSUME Job \/ Client PROVE Steps
  BY <1>2, JobSteps, ClientSteps
<1>3. ASSUME Over \/ UNCHANGED vars PROVE Steps
  BY <1>3, StutterSteps DEF Over
<1>4. QED BY <1>1, <1>2, <1>3 DEF Next

-----------------------------------------------------------------------------
(* What follows from it.                                                   *)

(* It says that handles, statements and arrays are well formed.            *)
LEMMA TypesHold ==
    ASSUME IInv
    PROVE  TypeOK
<1>1. Memory(mem) /\ Good /\ TableInv(table, lastId)
  BY DEF IInv, Good
<1>2. table \subseteq Row /\ \A r, q \in table : r.id = q.id => r = q
  BY <1>1 DEF TableInv, Distinct
<1>3. ASSUME NEW i \in DOMAIN mem.arr
      PROVE  mem.arr[i] \in Seq(Expr) \ {<<>>} /\ Refs(mem.arr[i], Nested) \subseteq DOMAIN mem.arr
  BY <1>1 DEF Memory, Arrays, Within, Starts
<1>4. \A s \in DOMAIN mem.stmts : WhereIn(mem, s) \subseteq DOMAIN mem.arr
  BY <1>1 DEF Memory
<1>5. ASSUME NEW h \in Used, handles[h].clone # 1
      PROVE  handles[h].stmt \in DOMAIN mem.stmts
  BY <1>1, <1>5, UsedHandle, SaysTyped
<1>6. ASSUME job.kind = "batches" PROVE job.size \in 1..MaxBatch
  <2>1. InCall
    BY <1>6, WorkingOrCall
  <2>2. job \in BatchJob
    BY <1>6, <2>1, KindOf DEF InCall, JobOk
  <2>3. QED BY <2>2 DEF BatchJob
<1>7. QED BY <1>2, <1>3, <1>4, <1>5, <1>6 DEF TypeOK

(* It says that batches are exact.                                         *)
LEMMA BatchesHold ==
    ASSUME IInv
    PROVE  BatchesExact
<1>1. ASSUME job.kind = "batches" PROVE BatchOk(table, job) /\ job \in BatchJob
  <2>1. InCall
    BY <1>1, WorkingOrCall
  <2>2. QED BY <1>1, <2>1, KindOf DEF InCall, JobOk
<1>2. QED BY <1>1 DEF BatchesExact, BatchOk, Rises, Done

(* It says that what is reported as stored is stored.                      *)
LEMMA StoredHolds ==
    ASSUME IInv
    PROVE  Stored
<1>1. ASSUME job.kind = "save", job.state = "ok", job.selected => job.affected > 0
      PROVE  job.key \in job.touched \/ \E r \in table :
                 r.id = job.key /\ r.is = job.is /\ (~job.selected => ~r.gone)
  <2>1. InCall
    BY <1>1, WorkingOrCall
  <2>2. SaveOk(table, lastId, job)
    BY <1>1, <2>1 DEF InCall, JobOk
  <2>3. QED BY <1>1, <2>2 DEF SaveOk, SaveKept
<1>2. ASSUME job.kind = "create", job.state # "run", NEW kept,
             kept = {i \in job.made : i \in job.touched \/ \E r \in table : r.id = i}
      PROVE  Cardinality(kept) = IF job.state = "failed" /\ job.tx THEN 0 ELSE job.reported
  <2>1. InCall
    BY <1>2, WorkingOrCall
  <2>2. CreateOk(table, lastId, job)
    BY <1>2, <2>1 DEF InCall, JobOk
  <2>3. CASE job.state = "failed" /\ job.tx
    <3>1. kept = {}
      BY <1>2, <2>2, <2>3 DEF CreateOk, There
    <3>2. QED BY <2>3, <3>1, FS_EmptySet
  <2>4. CASE ~(job.state = "failed" /\ job.tx)
    <3>1. kept = job.made
      BY <1>2, <2>2, <2>4 DEF CreateOk, There
    <3>2. QED BY <2>2, <2>4, <3>1 DEF CreateOk
  <2>5. QED BY <2>3, <2>4
<1>3. QED BY <1>1, <1>2 DEF Stored

-----------------------------------------------------------------------------
(* FirstOrCreate.  What it returns, the same conditions find again: found  *)
(* rows because they keep satisfying them when a column is assigned, and   *)
(* created ones because the columns taken from the conditions satisfy      *)
(* them.  Both are so because of the kinds of expressions there are.       *)

Positive == {"is", "live"} \cup Nested
Chaining == Positive \cup {"not"}

(* One list after the other has the kinds of both.                         *)
LEMMA ConcatHas ==
    ASSUME NEW a \in Seq(Expr), NEW b \in Seq(Expr), NEW kinds, Has(a, kinds), Has(b, kinds)
    PROVE  Has(a \o b, kinds)
<1>1. \A i \in DOMAIN (a \o b) : \/ i \in 1..Len(a) /\ (a \o b)[i] = a[i]
                                 \/ i - Len(a) \in 1..Len(b) /\ (a \o b)[i] = b[i - Len(a)]
  BY Concat
<1>2. DOMAIN a = 1..Len(a) /\ DOMAIN b = 1..Len(b)
  BY SeqFacts
<1>3. ASSUME NEW i \in DOMAIN (a \o b) PROVE (a \o b)[i][1] \in kinds
  <2>1. CASE i \in 1..Len(a) /\ (a \o b)[i] = a[i]
    BY <1>2, <2>1 DEF Has
  <2>2. CASE i - Len(a) \in 1..Len(b) /\ (a \o b)[i] = b[i - Len(a)]
    BY <1>2, <2>2 DEF Has
  <2>3. QED BY <1>1, <2>1, <2>2
<1>4. QED BY <1>3 DEF Has

(* A list of one expression has its kind.                                  *)
LEMMA SingleHas ==
    ASSUME NEW e, NEW kinds, e[1] \in kinds
    PROVE  Has(<<e>>, kinds)
BY DEF Has

(* An array more.                                                          *)
LEMMA PutMadeOf ==
    ASSUME NEW arr, NEW id, NEW exprs, NEW kinds, MadeOf(arr, kinds), Has(exprs, kinds)
    PROVE  MadeOf(Put(arr, id, exprs), kinds)
<1> DEFINE new == Put(arr, id, exprs)
<1>1. /\ DOMAIN new = DOMAIN arr \cup {id} /\ new[id] = exprs
      /\ \A x \in DOMAIN arr : x # id => new[x] = arr[x]
  BY DEF Put
<1>2. ASSUME NEW i \in DOMAIN new PROVE Has(new[i], kinds)
  <2> HIDE DEF new
  <2>1. new[i] = exprs \/ (i \in DOMAIN arr /\ new[i] = arr[i])
    BY <1>1
  <2>2. QED BY <2>1 DEF MadeOf
<1> HIDE DEF new
<1>3. MadeOf(new, kinds)
  BY <1>2 DEF MadeOf
<1>4. QED BY <1>3 DEF new

(* The conditions of a statement are of the kinds there are.               *)
LEMMA WhereHas ==
    ASSUME NEW m, Memory(m), NEW s \in DOMAIN m.stmts, NEW kinds, MadeOf(m.arr, kinds)
    PROVE  Has(WhereOf(m, s), kinds) /\ WhereOf(m, s) \in Seq(Expr)
<1>1. /\ Within(m.arr, WhereOf(m, s))
      /\ WhereOf(m, s) = <<>> <=> m.stmts[s].where = NoArray
      /\ m.stmts[s].where # NoArray => /\ m.stmts[s].where \in DOMAIN m.arr
                                       /\ WhereOf(m, s) = m.arr[m.stmts[s].where]
  BY WhereWithin
<1>2. Has(<<>>, kinds)
  BY DEF Has
<1>3. QED BY <1>1, <1>2 DEF MadeOf, Within

(* MergeClause makes an array of the kinds that are added.                 *)
LEMMA AddWhereMadeOf ==
    ASSUME NEW m, Memory(m), NEW s \in DOMAIN m.stmts, NEW kinds, MadeOf(m.arr, kinds),
           NEW exprs \in Seq(Expr), Has(exprs, kinds)
    PROVE  MadeOf(AddWhere(m, s, exprs).arr, kinds)
<1>1. Has(WhereOf(m, s), kinds) /\ WhereOf(m, s) \in Seq(Expr)
  BY WhereHas
<1>2. Has(WhereOf(m, s) \o exprs, kinds)
  BY <1>1, ConcatHas
<1>3. AddWhere(m, s, exprs).arr = Put(m.arr, FreeId(m.arr), WhereOf(m, s) \o exprs)
  BY DEF AddWhere, Memory
<1>4. QED BY <1>2, <1>3, PutMadeOf

(* getInstance makes no array.                                             *)
LEMMA InstanceArrays ==
    ASSUME NEW m, Memory(m), NEW h
    PROVE  GetInstance(m, h).mem.arr = m.arr
BY DEF GetInstance, Memory

(* Scopes are carried out as plain conditions.                             *)
LEMMA ScopesMadeOf ==
    ASSUME NEW m, Memory(m), NEW g, g.stmt \in DOMAIN m.stmts, NEW kinds, Positive \subseteq kinds,
           MadeOf(m.arr, kinds)
    PROVE  MadeOf(ExecuteScopes(m, g).arr, kinds)
<1> DEFINE s  == g.stmt
           xs == m.stmts[s].scopes
<1>1. PICK n : n = [m EXCEPT !.stmts[s].scopes = <<>>]
  OBVIOUS
<1>2. Grown(m, n, s) /\ n.arr = m.arr
  BY <1>1, Cleared
<1>3. Memory(n) /\ s \in DOMAIN n.stmts
  BY <1>2 DEF Grown
<1>4. xs \in Seq(Atoms)
  BY DEF Memory, Statement
<1>5. ScopeExprs(xs) \in Seq(Expr)
  BY <1>4, ScopesAre DEF Within
<1>6. Has(ScopeExprs(xs), kinds)
  BY DEF Has, ScopeExprs, Positive
<1>7. MadeOf(AddWhere(n, s, ScopeExprs(xs)).arr, kinds)
  BY <1>2, <1>3, <1>5, <1>6, AddWhereMadeOf
<1>8. ExecuteScopes(m, g) = IF xs = <<>> \/ g.clone # 0 THEN n ELSE AddWhere(n, s, ScopeExprs(xs))
  BY <1>1 DEF ExecuteScopes, ScopeExprs
<1> HIDE DEF s, xs
<1>9. QED BY <1>2, <1>7, <1>8

(* So do Where and Or with what was built.                                 *)
LEMMA AddCondsMadeOf ==
    ASSUME NEW m, Memory(m), NEW s \in DOMAIN m.stmts, NEW kinds, Positive \subseteq kinds, MadeOf(m.arr, kinds),
           NEW exprs, Within(m.arr, exprs), Has(exprs, kinds), Starts(exprs), NEW op
    PROVE  MadeOf(AddConds(m, s, op, exprs).arr, kinds)
<1> DEFINE id == FreeId(m.arr)
           n  == [m EXCEPT !.arr = Put(@, id, exprs)]
           e  == <<"or", id>>
<1>1. exprs \in Seq(Expr) /\ exprs # <<>>
  BY DEF Within, Starts
<1>2. MadeOf(AddWhere(m, s, exprs).arr, kinds)
  BY <1>1, AddWhereMadeOf
<1>3. MadeOf(AddWhere(n, s, <<e>>).arr, kinds)
  <2>1. n.arr = Put(m.arr, id, exprs) /\ n.stmts = m.stmts
    BY DEF Memory
  <2>2. Arrays(n.arr) /\ Extends(m.arr, n.arr) /\ id \in Nat \ {0}
    BY <2>1, NewArray DEF Memory
  <2>3. Memory(n)
    <3>1. n = [arr |-> n.arr, stmts |-> n.stmts]
      BY DEF Memory
    <3>2. \A t \in DOMAIN n.stmts : WhereIn(n, t) = WhereIn(m, t)
      BY <2>1 DEF WhereIn
    <3>3. \A t \in DOMAIN n.stmts : WhereIn(n, t) \subseteq DOMAIN n.arr
      BY <2>1, <2>2, <3>2 DEF Memory, Extends
    <3> HIDE DEF n
    <3>4. QED BY <2>1, <2>2, <3>1, <3>3 DEF Memory
  <2>4. MadeOf(n.arr, kinds)
    BY <2>1, PutMadeOf
  <2>5. e \in Expr /\ e[1] \in kinds
    BY <2>2 DEF Expr, Positive, Nested, NoArray
  <2>6. <<e>> \in Seq(Expr) /\ Has(<<e>>, kinds)
    BY <2>5, SingleHas
  <2> HIDE DEF n, e
  <2>7. s \in DOMAIN n.stmts
    BY <2>1
  <2>8. QED BY <2>3, <2>4, <2>6, <2>7, AddWhereMadeOf
<1>4. AddConds(m, s, op, exprs) = IF op = "where" THEN AddWhere(m, s, exprs) ELSE AddWhere(n, s, <<e>>)
  BY <1>1 DEF AddConds
<1> HIDE DEF n, e
<1>5. QED BY <1>2, <1>3, <1>4

(* BuildCondition with a handle adds nothing of another kind.              *)
LEMMA GroupMadeOf ==
    ASSUME NEW m, Memory(m), NEW g, g.stmt \in DOMAIN m.stmts, NEW kinds, Positive \subseteq kinds,
           MadeOf(m.arr, kinds), Memory(ExecuteScopes(m, g)), g.stmt \in DOMAIN ExecuteScopes(m, g).stmts
    PROVE  MadeOf(BuildGroup(m, g).mem.arr, kinds) /\ Has(BuildGroup(m, g).exprs, kinds)
<1> DEFINE s  == g.stmt
           n  == ExecuteScopes(m, g)
           xs == WhereOf(n, s)
           id == n.stmts[s].where
           e  == IF Len(xs) = 1 THEN xs[1] ELSE <<"and", id>>
<1>1. MadeOf(n.arr, kinds)
  BY ScopesMadeOf
<1>2. BuildGroup(m, g) = IF xs = <<>> THEN [mem |-> n, exprs |-> <<>>]
           ELSE LET m2 == IF Len(xs) = 1 /\ xs[1][1] = "or" THEN [n EXCEPT !.arr[id][1][1] = "and"] ELSE n
                IN  [mem |-> m2, exprs |-> <<IF Len(xs) = 1 THEN m2.arr[id][1] ELSE <<"and", id>> >>]
  BY DEF BuildGroup
<1>3. Memory(n) /\ s \in DOMAIN n.stmts
  OBVIOUS
<1> HIDE DEF n
<1>4. /\ xs = <<>> \/ Starts(xs)
      /\ xs # <<>> => id # NoArray /\ xs = n.arr[id]
  BY <1>3, WhereWithin
<1>5. Has(xs, kinds) /\ xs \in Seq(Expr)
  BY <1>1, <1>3, WhereHas
<1> HIDE DEF s, xs, id
<1>6. CASE xs = <<>>
  <2>1. BuildGroup(m, g).mem = n /\ BuildGroup(m, g).exprs = <<>>
    BY <1>2, <1>6
  <2>2. QED BY <1>1, <2>1 DEF Has
<1>7. CASE xs # <<>>
  <2>1. xs[1][1] # "or"
    BY <1>4, <1>7 DEF Starts
  <2>2. BuildGroup(m, g).mem = n /\ BuildGroup(m, g).exprs = <<e>>
    BY <1>2, <1>4, <1>7, <2>1
  <2>3. e[1] \in kinds
    <3>1. CASE Len(xs) = 1
      <4>1. 1 \in DOMAIN xs
        BY <1>5, <3>1
      <4>2. QED BY <1>5, <3>1, <4>1 DEF Has
    <3>2. CASE Len(xs) # 1
      BY <3>2 DEF Positive, Nested
    <3>3. QED BY <3>1, <3>2
  <2> HIDE DEF e
  <2>4. QED BY <1>1, <2>2, <2>3, SingleHas
<1>8. QED BY <1>6, <1>7

(* The clause of soft deletion is of its own kind, and wraps in And.       *)
LEMMA LiveMadeOf ==
    ASSUME NEW m, Memory(m), NEW s \in DOMAIN m.stmts, NEW kinds, Positive \subseteq kinds, MadeOf(m.arr, kinds)
    PROVE  MadeOf(Live(m, s).arr, kinds)
<1> DEFINE id == FreeId(m.arr)
           ws == Ors(m.arr, WhereOf(m, s)) # {}
           n  == IF ws THEN Wrap(m, s, id) ELSE m
           q  == AddWhere(n, s, << <<"live">> >>)
<1>1. Memory(n) /\ s \in DOMAIN n.stmts
  <2>1. ws => Grown(m, Wrap(m, s, id), s)
    BY Wrapping
  <2>2. QED BY <2>1 DEF Grown
<1>2. MadeOf(n.arr, kinds)
  <2>1. Wrap(m, s, id).arr = Put(m.arr, id, << <<"and", m.stmts[s].where>> >>)
    BY DEF Wrap, Memory
  <2>2. Has(<< <<"and", m.stmts[s].where>> >>, kinds)
    BY DEF Has, Positive, Nested
  <2>3. MadeOf(Wrap(m, s, id).arr, kinds)
    BY <2>1, <2>2, PutMadeOf
  <2>4. QED BY <2>3
<1>3. << <<"live">> >> \in Seq(Expr)
  BY DEF Expr
<1>4. Has(<< <<"live">> >>, kinds)
  BY DEF Has, Positive
<1>5. Live(m, s) = m \/ SoftDeleteQuery(m, s) = m \/ Live(m, s) = [q EXCEPT !.stmts[s].softDelete = TRUE]
  <2>1. CASE ~soft \/ m.stmts[s].softDelete \/ m.stmts[s].unscoped
    BY <2>1 DEF Live, SoftDeleteQuery
  <2>2. CASE soft /\ ~(m.stmts[s].softDelete \/ m.stmts[s].unscoped)
    BY <2>2 DEF Live, SoftDeleteQuery, Wrap
  <2>3. QED BY <2>1, <2>2
<1> HIDE DEF n
<1>6. MadeOf(q.arr, kinds)
  BY <1>1, <1>2, <1>3, <1>4, AddWhereMadeOf
<1>7. "arr" \in DOMAIN q
  <2>1. DOMAIN q = DOMAIN n
    BY DEF AddWhere
  <2>2. DOMAIN n = {"arr", "stmts"}
    <3>1. n = [arr |-> n.arr, stmts |-> n.stmts]
      BY <1>1 DEF Memory
    <3>2. PICK as, fs : n = [arr |-> as, stmts |-> fs]
      BY <3>1
    <3>3. QED BY <3>2
  <2> HIDE DEF q
  <2>3. QED BY <2>1, <2>2
<1> HIDE DEF q
<1>8. [q EXCEPT !.stmts[s].softDelete = TRUE].arr = q.arr
  BY <1>7
<1>9. Live(m, s) = m \/ Live(m, s) = SoftDeleteQuery(m, s)
  BY DEF Live
<1>10. QED BY <1>5, <1>6, <1>8, <1>9

(* What is swept is of the kinds there were.                               *)
LEMMA SweptMadeOf ==
    ASSUME NEW m, NEW roots, NEW kinds, MadeOf(m.arr, kinds)
    PROVE  MadeOf(Swept(m, roots).arr, kinds)
<1> DEFINE C == Reached(m.arr, Nested, UNION {WhereIn(m, s) : s \in roots})
<1>1. Swept(m, roots).arr = [i \in C |-> m.arr[i]]
  BY DEF Swept
<1>2. C \subseteq DOMAIN m.arr
  BY DEF Reached
<1> HIDE DEF C
<1>3. QED BY <1>1, <1>2 DEF MadeOf

(* A query without a key makes nothing of another kind, and builds from    *)
(* the conditions it has then.                                             *)
LEMMA QueryMadeOf ==
    ASSUME NEW m, Memory(m), NEW s, NEW h, Saying(h), soft \in BOOLEAN, Says(soft, m, s, h),
           NEW kinds, Positive \subseteq kinds, MadeOf(m.arr, kinds)
    PROVE  /\ MadeOf(QueryOn(m, s, 0).mem.arr, kinds)
           /\ \A row : Selects(QueryOn(m, s, 0), row) <=> Chosen(QueryOn(m, s, 0).mem, s, row)
<1> DEFINE g == [clone |-> 0, stmt |-> s]
           n == ExecuteScopes(m, g)
           p == Live(n, s)
           b == QueryOn(m, s, 0)
<1>1. s \in DOMAIN m.stmts /\ g.stmt = s /\ Own(g, s)
  BY SaysTyped DEF Own
<1>2. Listens(soft, m, n, s, h)
  BY <1>1, ScopesListen
<1>3. Memory(n) /\ s \in DOMAIN n.stmts
  BY <1>1, <1>2 DEF Listens, Grown
<1>4. MadeOf(n.arr, kinds)
  BY <1>1, ScopesMadeOf
<1>5. p = Live(ExecuteScopes(m, [clone |-> 0, stmt |-> s]), s)
  OBVIOUS
<1>6. b = Built(p, s)
  BY DEF QueryOn, WithKey
<1> HIDE DEF n
<1>7. MadeOf(p.arr, kinds)
  BY <1>3, <1>4, LiveMadeOf
<1> HIDE DEF p
<1>8. Listens(soft, m, p, s, h)
  BY <1>5, Settled
<1>9. Memory(p) /\ s \in DOMAIN p.stmts
  BY <1>1, <1>8 DEF Listens, Grown
<1>10. Builds(p, s, Built(p, s))
  BY <1>9, BuiltIs
<1>11. b.mem = p /\ \A row : b.exprs = <<>> \/ Joined(p.arr, b.exprs, row) <=> Chosen(p, s, row)
  BY <1>6, <1>10 DEF Builds
<1> HIDE DEF b
<1>12. QED BY <1>7, <1>11 DEF Selects, b

(* AND of more parts that hold is no less.                                 *)
LEMMA MoreHolding ==
    ASSUME NEW n, NEW ors, NEW a, NEW b, a \subseteq b, AndBeforeOr(n, ors, a)
    PROVE  AndBeforeOr(n, ors, b)
BY DEF AndBeforeOr

(* A row that is all that another one is, and deleted as that is.          *)
Above(r, q) == r.is \subseteq q.is /\ (r.gone <=> q.gone)

(* A condition on a column that is no Not stays true of a row above.       *)
LEMMA PlainRises ==
    ASSUME NEW e, e[1] \in {"is", "live"}, NEW r, NEW q, Above(r, q), Plain(e, r)
    PROVE  Plain(e, q)
<1>1. CASE e[1] = "is"
  BY <1>1 DEF Plain, Above
<1>2. CASE e[1] = "live"
  BY <1>2 DEF Plain, Above
<1>3. QED BY <1>1, <1>2

(* A group that selects a row selects the rows above, if those within do.  *)
LEMMA GroupRises ==
    ASSUME NEW arr, NEW r, NEW q, Above(r, q), NEW e, Has(arr[e[2]], Positive), NEW f, NEW g,
           \A i \in DOMAIN arr[e[2]] : arr[e[2]][i][1] \in Nested /\ f[arr[e[2]][i]] => g[arr[e[2]][i]],
           GroupHolds(arr, r, f, e)
    PROVE  GroupHolds(arr, q, g, e)
<1> DEFINE exprs == arr[e[2]]
           hr == {i \in DOMAIN exprs : IF exprs[i][1] \in Nested THEN f[exprs[i]] ELSE Plain(exprs[i], r)}
           hq == {i \in DOMAIN exprs : IF exprs[i][1] \in Nested THEN g[exprs[i]] ELSE Plain(exprs[i], q)}
<1>1. hr \subseteq hq
  <2> SUFFICES ASSUME NEW i \in hr PROVE i \in hq
    OBVIOUS
  <2>1. CASE exprs[i][1] \in Nested
    BY <2>1
  <2>2. CASE exprs[i][1] \notin Nested
    <3>1. exprs[i][1] \in {"is", "live"}
      BY <2>2 DEF Has, Positive
    <3>2. Plain(exprs[i], r)
      BY <2>2
    <3>3. Plain(exprs[i], q)
      BY <3>1, <3>2, PlainRises
    <3>4. QED BY <2>2, <3>3
  <2>3. QED BY <2>1, <2>2
<1>2. /\ GroupHolds(arr, r, f, e) = (IF e[1] = "or" THEN hr # {} ELSE AndBeforeOr(Len(exprs), Ors(arr, exprs), hr))
      /\ GroupHolds(arr, q, g, e) = (IF e[1] = "or" THEN hq # {} ELSE AndBeforeOr(Len(exprs), Ors(arr, exprs), hq))
  BY DEF GroupHolds
<1> HIDE DEF hr, hq, exprs
<1>3. CASE e[1] = "or"
  BY <1>1, <1>2, <1>3
<1>4. CASE e[1] # "or"
  <2>1. AndBeforeOr(Len(exprs), Ors(arr, exprs), hr)
    BY <1>2, <1>4
  <2>2. AndBeforeOr(Len(exprs), Ors(arr, exprs), hq)
    BY <1>1, <2>1, MoreHolding
  <2>3. QED BY <1>2, <1>4, <2>2
<1>5. QED BY <1>3, <1>4

(* Without Not, groups that select a row select the rows above.            *)
LEMMA GroupsRise ==
    ASSUME NEW arr, Arrays(arr), MadeOf(arr, Positive), NEW r, NEW q, Above(r, q),
           NEW e \in Nested \X DOMAIN arr, Groups(arr, r)[e]
    PROVE  Groups(arr, q)[e]
<1> DEFINE D == Nested \X DOMAIN arr
           f == Groups(arr, r)
           g == Groups(arr, q)
<1>1. PICK n \in Nat : \E rank \in [DOMAIN arr -> 0..n] :
          \A i \in DOMAIN arr : \A j \in Refs(arr[i], Nested) : rank[j] < rank[i]
  BY DEF Arrays, Acyclic
<1>2. PICK rank \in [DOMAIN arr -> 0..n] :
          \A i \in DOMAIN arr : \A j \in Refs(arr[i], Nested) : rank[j] < rank[i]
  BY <1>1
<1> DEFINE T == {k \in Nat : \A x \in D : rank[x[2]] < k /\ f[x] => g[x]}
<1>3. 0 \in T
  <2>1. ASSUME NEW x \in D, rank[x[2]] < 0 PROVE FALSE
    <3>1. rank[x[2]] \in 0..n
      BY <1>2
    <3>2. QED BY <2>1, <3>1
  <2> HIDE DEF f, g, D
  <2>2. QED BY <2>1
<1>4. ASSUME NEW k \in Nat, k \in T PROVE k + 1 \in T
  <2> SUFFICES ASSUME NEW x \in D, rank[x[2]] < k + 1, f[x] PROVE g[x]
    OBVIOUS
  <2>1. f[x] = GroupHolds(arr, r, f, x) /\ g[x] = GroupHolds(arr, q, g, x)
    BY GroupIs
  <2>2. x[2] \in DOMAIN arr /\ rank[x[2]] \in 0..n
    BY <1>2
  <2>3. Within(arr, arr[x[2]]) /\ Has(arr[x[2]], Positive)
    BY <2>2 DEF Arrays, MadeOf
  <2>4. ASSUME NEW i \in DOMAIN arr[x[2]], arr[x[2]][i][1] \in Nested, f[arr[x[2]][i]]
        PROVE  g[arr[x[2]][i]]
    <3> DEFINE y == arr[x[2]][i]
    <3>1. y[2] \in DOMAIN arr /\ y \in D
      BY <2>3, <2>4, WithinMember
    <3>2. y[2] \in Refs(arr[x[2]], Nested)
      BY <2>4, RefsMember
    <3>3. rank[y[2]] < rank[x[2]] /\ rank[y[2]] \in 0..n
      BY <1>2, <2>2, <3>1, <3>2
    <3> HIDE DEF f, g, D, y
    <3>4. rank[y[2]] < k
      BY <2>2, <3>3
    <3>5. f[y]
      BY <2>4 DEF y
    <3>6. g[y]
      BY <1>4, <3>1, <3>4, <3>5
    <3>7. QED BY <3>6 DEF y
  <2> HIDE DEF f, g
  <2>5. GroupHolds(arr, r, f, x)
    BY <2>1
  <2>6. GroupHolds(arr, q, g, x)
    BY <2>3, <2>4, <2>5, GroupRises
  <2>7. QED BY <2>1, <2>6
<1> HIDE DEF T
<1>5. \A k \in Nat : k \in T
  BY <1>3, <1>4, Induction
<1>6. n + 1 \in T /\ rank[e[2]] < n + 1
  BY <1>2, <1>5
<1>7. QED BY <1>6 DEF T

(* So do conditions.                                                       *)
LEMMA ChosenRises ==
    ASSUME NEW m, Memory(m), NEW s \in DOMAIN m.stmts, MadeOf(m.arr, Positive),
           NEW r, NEW q, Above(r, q), Chosen(m, s, r)
    PROVE  Chosen(m, s, q)
<1> DEFINE arr == m.arr
           id  == m.stmts[s].where
<1>1. /\ WhereOf(m, s) = <<>> <=> id = NoArray
      /\ id # NoArray => id \in DOMAIN arr /\ WhereOf(m, s) = arr[id]
  BY WhereWithin
<1>2. Arrays(arr)
  BY DEF Memory
<1>3. CASE WhereOf(m, s) = <<>>
  BY <1>3 DEF Chosen
<1>4. CASE WhereOf(m, s) # <<>>
  <2>1. id \in DOMAIN arr /\ WhereOf(m, s) = arr[id]
    BY <1>1, <1>4
  <2> DEFINE e == <<"and", id>>
  <2>2. e \in Nested \X DOMAIN arr
    BY <2>1 DEF Nested
  <2>3. /\ Holds(arr, e, r) = Joined(arr, arr[id], r)
        /\ Holds(arr, e, q) = Joined(arr, arr[id], q)
    <3> HIDE DEF arr, id
    <3>1. QED BY <1>2, <2>1, HoldsAnd
  <2>4. /\ Holds(arr, e, r) = Groups(arr, r)[e]
        /\ Holds(arr, e, q) = Groups(arr, q)[e]
    BY DEF Holds, Nested
  <2>5. Joined(arr, arr[id], r)
    BY <1>4, <2>1 DEF Chosen
  <2> HIDE DEF arr, id, e
  <2>6. Groups(arr, r)[e]
    BY <2>3, <2>4, <2>5
  <2>7. Groups(arr, q)[e]
    BY <1>2, <2>2, <2>6, GroupsRise DEF arr
  <2>8. Joined(arr, arr[id], q)
    BY <2>3, <2>4, <2>7
  <2>9. QED BY <2>1, <2>8 DEF Chosen, arr
<1>5. QED BY <1>3, <1>4

(* The columns taken from the conditions.                                  *)
Sums(arr, C, row) ==
    ~row.gone /\ \A i \in C : \A k \in DOMAIN arr[i] : \A x \in Atoms : arr[i][k] = <<"is", x>> => x \in row.is

(* An And selects a row that has the columns of its conditions, up to the  *)
(* first Or, those of Ands among them included.                            *)
LEMMA AndHolds ==
    ASSUME NEW arr, Arrays(arr), MadeOf(arr, Positive), NEW C \in SUBSET DOMAIN arr, NEW row, Sums(arr, C, row),
           NEW id \in C, NEW f,
           \A i \in DOMAIN arr[id] : arr[id][i][1] = "and" => f[arr[id][i]]
    PROVE  GroupHolds(arr, row, f, <<"and", id>>)
<1> DEFINE exprs   == arr[id]
           holding == {i \in DOMAIN exprs : IF exprs[i][1] \in Nested THEN f[exprs[i]] ELSE Plain(exprs[i], row)}
           ors     == Ors(arr, exprs)
<1>1. Within(arr, exprs) /\ Starts(exprs) /\ Has(exprs, Positive)
  BY DEF Arrays, MadeOf
<1>2. ors = {i \in DOMAIN exprs : exprs[i][1] = "or"}
  BY <1>1, OrsAre
<1>3. exprs \in Seq(Expr) /\ DOMAIN exprs = 1..Len(exprs) /\ Len(exprs) \in Nat
  BY <1>1, SeqFacts DEF Within
<1>4. ASSUME NEW i \in DOMAIN exprs, exprs[i][1] # "or" PROVE i \in holding
  <2>1. exprs[i][1] \in Positive /\ exprs[i] \in Expr
    BY <1>1, <1>3 DEF Has
  <2>2. CASE exprs[i][1] = "and"
    BY <2>2 DEF Nested
  <2>3. CASE exprs[i][1] = "live"
    <3>1. Plain(exprs[i], row)
      BY <2>3 DEF Plain, Sums
    <3>2. QED BY <2>3, <3>1 DEF Nested
  <2>4. CASE exprs[i][1] = "is"
    <3>1. PICK x \in Atoms : exprs[i] = <<"is", x>>
      BY <2>1, <2>4 DEF Expr, Nested
    <3>2. x \in row.is
      BY <3>1 DEF Sums
    <3>3. Plain(exprs[i], row)
      BY <3>1, <3>2 DEF Plain
    <3>4. QED BY <2>4, <3>3 DEF Nested
  <2>5. QED BY <1>4, <2>1, <2>2, <2>3, <2>4 DEF Positive, Nested
<1>5. AndBeforeOr(Len(exprs), ors, holding)
  <2> DEFINE starts == {1} \cup ors
  <2> SUFFICES \A i \in 1..Len(exprs) : (\A t \in starts : t > 1 => i < t) => i \in holding
    BY DEF AndBeforeOr
  <2> SUFFICES ASSUME NEW i \in 1..Len(exprs), \A t \in starts : t > 1 => i < t PROVE i \in holding
    OBVIOUS
  <2>1. exprs[i][1] # "or"
    <3>1. CASE i = 1
      BY <1>1, <3>1 DEF Starts
    <3>2. CASE i # 1
      <4>1. i > 1 /\ ~(i < i)
        BY <1>3, <3>2
      <4>2. i \notin starts
        BY <4>1
      <4>3. QED BY <1>2, <1>3, <4>2
    <3>3. QED BY <3>1, <3>2
  <2>2. QED BY <1>3, <1>4, <2>1
<1>6. GroupHolds(arr, row, f, <<"and", id>>) = AndBeforeOr(Len(exprs), ors, holding)
  BY DEF GroupHolds
<1> HIDE DEF holding, ors, exprs
<1>7. QED BY <1>5, <1>6

(* Ands within Ands likewise, to any depth.                                *)
LEMMA AndsHold ==
    ASSUME NEW arr, Arrays(arr), MadeOf(arr, Positive), NEW C \in SUBSET DOMAIN arr,
           \A i \in C : Refs(arr[i], {"and"}) \subseteq C, NEW row, Sums(arr, C, row), NEW id \in C
    PROVE  Groups(arr, row)[<<"and", id>>]
<1> DEFINE f == Groups(arr, row)
<1>1. PICK n \in Nat : \E rank \in [DOMAIN arr -> 0..n] :
          \A i \in DOMAIN arr : \A j \in Refs(arr[i], Nested) : rank[j] < rank[i]
  BY DEF Arrays, Acyclic
<1>2. PICK rank \in [DOMAIN arr -> 0..n] :
          \A i \in DOMAIN arr : \A j \in Refs(arr[i], Nested) : rank[j] < rank[i]
  BY <1>1
<1> DEFINE T == {k \in Nat : \A i \in C : rank[i] < k => f[<<"and", i>>]}
<1>3. 0 \in T
  <2>1. ASSUME NEW i \in C, rank[i] < 0 PROVE FALSE
    <3>1. rank[i] \in 0..n
      BY <1>2
    <3>2. QED BY <2>1, <3>1
  <2> HIDE DEF f
  <2>2. QED BY <2>1
<1>4. ASSUME NEW k \in Nat, k \in T PROVE k + 1 \in T
  <2> SUFFICES ASSUME NEW i \in C, rank[i] < k + 1 PROVE f[<<"and", i>>]
    OBVIOUS
  <2> DEFINE e == <<"and", i>>
  <2>1. e \in Nested \X DOMAIN arr
    BY DEF Nested
  <2>2. f[e] = GroupHolds(arr, row, f, e)
    BY <2>1, GroupIs
  <2>3. i \in DOMAIN arr /\ rank[i] \in 0..n /\ Within(arr, arr[i])
    BY <1>2 DEF Arrays
  <2>4. ASSUME NEW x \in DOMAIN arr[i], arr[i][x][1] = "and" PROVE f[arr[i][x]]
    <3> DEFINE y == arr[i][x]
    <3>1. y = <<y[1], y[2]>> /\ y[2] \in DOMAIN arr
      BY <2>3, <2>4, WithinMember DEF Nested
    <3>2. y[2] \in Refs(arr[i], {"and"}) /\ y[2] \in Refs(arr[i], Nested)
      BY <2>4, RefsMember DEF Nested
    <3>3. y[2] \in C
      BY <3>2
    <3>4. rank[y[2]] < rank[i] /\ rank[y[2]] \in 0..n
      BY <1>2, <2>3, <3>1, <3>2
    <3>5. y = <<"and", y[2]>>
      BY <2>4, <3>1
    <3> HIDE DEF f, y
    <3>6. rank[y[2]] < k
      BY <2>3, <3>4
    <3>7. f[<<"and", y[2]>>]
      BY <1>4, <3>3, <3>6
    <3>8. QED BY <3>5, <3>7 DEF y
  <2> HIDE DEF f
  <2>5. GroupHolds(arr, row, f, <<"and", i>>)
    BY <2>4, AndHolds
  <2>6. QED BY <2>2, <2>5
<1> HIDE DEF T
<1>5. \A k \in Nat : k \in T
  BY <1>3, <1>4, Induction
<1>6. n + 1 \in T /\ rank[id] < n + 1
  BY <1>2, <1>5
<1>7. QED BY <1>6 DEF T

(* A row with the columns that assignInterfacesToValue takes from the      *)
(* conditions satisfies them (finisher_api.go:247-294).                    *)
LEMMA EqAtomsChosen ==
    ASSUME NEW m, Memory(m), NEW s \in DOMAIN m.stmts, MadeOf(m.arr, Positive),
           NEW row, EqAtoms(m, s) \subseteq row.is, ~row.gone
    PROVE  Chosen(m, s, row)
<1> DEFINE arr == m.arr
           id  == m.stmts[s].where
           C   == Reached(arr, {"and"}, WhereIn(m, s))
<1>1. /\ WhereOf(m, s) = <<>> <=> id = NoArray
      /\ id # NoArray => id \in DOMAIN arr /\ WhereOf(m, s) = arr[id]
  BY WhereWithin
<1>2. Arrays(arr) /\ WhereIn(m, s) \subseteq DOMAIN arr
  BY DEF Memory
<1>3. \A i \in DOMAIN arr : Refs(arr[i], {"and"}) \subseteq DOMAIN arr
  <2>1. \A i \in DOMAIN arr : Refs(arr[i], {"and"}) \subseteq Refs(arr[i], Nested)
    BY DEF Refs, Nested
  <2>2. \A i \in DOMAIN arr : Refs(arr[i], Nested) \subseteq DOMAIN arr
    BY <1>2 DEF Arrays, Within
  <2> HIDE DEF arr
  <2>3. QED BY <2>1, <2>2
<1>4. C \subseteq DOMAIN arr /\ WhereIn(m, s) \subseteq C /\ \A i \in C : Refs(arr[i], {"and"}) \subseteq C
  <2> DEFINE W  == WhereIn(m, s)
             nd == {"and"}
  <2>1. W \in SUBSET DOMAIN arr /\ C = Reached(arr, nd, W) /\ \A i \in DOMAIN arr : Refs(arr[i], nd) \subseteq DOMAIN arr
    BY <1>2, <1>3
  <2> HIDE DEF W, nd, arr, C
  <2>2. C \subseteq DOMAIN arr /\ W \subseteq C /\ \A i \in C : Refs(arr[i], nd) \subseteq C
    BY <2>1, ReachedClosed
  <2>3. QED BY <2>2 DEF W, nd
<1>5. Sums(arr, C, row)
  <2>1. EqAtoms(m, s) = {x \in Atoms : \E i \in C : \E k \in DOMAIN arr[i] : arr[i][k] = <<"is", x>>}
    BY DEF EqAtoms
  <2> HIDE DEF C, arr
  <2>2. QED BY <2>1 DEF Sums
<1>6. CASE WhereOf(m, s) = <<>>
  BY <1>6 DEF Chosen
<1>7. CASE WhereOf(m, s) # <<>>
  <2>1. id \in DOMAIN arr /\ WhereOf(m, s) = arr[id] /\ id \in WhereIn(m, s)
    BY <1>1, <1>7 DEF WhereIn
  <2>2. MadeOf(arr, Positive)
    OBVIOUS
  <2> DEFINE e == <<"and", id>>
  <2>3. Holds(arr, e, row) = Groups(arr, row)[e]
    BY DEF Holds, Nested
  <2> HIDE DEF arr, id, C
  <2>4. Holds(arr, e, row) = Joined(arr, arr[id], row)
    BY <1>2, <2>1, HoldsAnd
  <2>5. Groups(arr, row)[e]
    BY <1>2, <1>4, <1>5, <2>1, <2>2, AndsHold
  <2> HIDE DEF e
  <2>6. Joined(arr, arr[id], row)
    BY <2>3, <2>4, <2>5
  <2>7. QED BY <2>1, <2>6 DEF Chosen, arr
<1>8. QED BY <1>6, <1>7

-----------------------------------------------------------------------------
(* While the program works there are conditions on columns, groups and     *)
(* clauses of soft deletion only.                                          *)
KeepsChaining == MadeOf(mem.arr, Chaining) => MadeOf(mem'.arr, Chaining)

(* A chain method leaves the arrays it has made, if they are reached.      *)
LEMMA ChainedKinds ==
    ASSUME NEW m, NEW kinds, MadeOf(m.arr, kinds), NEW h, NEW s, NEW said, NEW drop, Chained(h, m, s, said, drop)
    PROVE  MadeOf(mem'.arr, kinds)
BY SweptMadeOf DEF Chained, Kept

(* The instance of a handle in use, and its arrays.                        *)
LEMMA InstanceKinds ==
    ASSUME Good, NEW h \in Used, NEW i, i = GetInstance(mem, handles[h]), NEW kinds, MadeOf(mem.arr, kinds)
    PROVE  Memory(i.mem) /\ i.stmt \in DOMAIN i.mem.stmts /\ MadeOf(i.mem.arr, kinds)
<1>1. Memory(i.mem) /\ Says(soft, i.mem, i.stmt, handles[h])
  BY Instance
<1>2. i.mem.arr = mem.arr
  BY InstanceArrays DEF Good
<1>3. QED BY <1>1, <1>2, SaysTyped

(* A condition on a column.                                                *)
LEMMA WhereKinds ==
    ASSUME Good, NEW h \in Used, NEW op \in {"where", "or", "not"}, NEW x \in Atoms, Where(h, op, x)
    PROVE  KeepsChaining
<1> SUFFICES ASSUME MadeOf(mem.arr, Chaining) PROVE MadeOf(mem'.arr, Chaining)
  BY DEF KeepsChaining
<1> DEFINE i  == GetInstance(mem, handles[h])
           e  == <<AtomExpr(op, x)>>
           by == IF op = "or" THEN "or" ELSE "where"
           m  == AddConds(i.mem, i.stmt, by, e)
           said == [handles[h] EXCEPT !.words = Append(@, <<op, Having(x)>>)]
<1>1. Chained(h, m, i.stmt, said, h)
  BY DEF Where, AtomExpr
<1>2. Memory(i.mem) /\ i.stmt \in DOMAIN i.mem.stmts /\ MadeOf(i.mem.arr, Chaining)
  BY InstanceKinds
<1>3. Within(i.mem.arr, e) /\ AtomExpr(op, x)[1] # "or"
  BY AtomIs
<1>4. AtomExpr(op, x)[1] \in Chaining
  BY DEF AtomExpr, Chaining, Positive
<1>5. Has(e, Chaining)
  BY <1>4, SingleHas
<1>6. Starts(e)
  BY <1>3 DEF Starts
<1>7. Positive \subseteq Chaining
  BY DEF Chaining
<1> HIDE DEF i, e, by
<1>8. MadeOf(m.arr, Chaining)
  BY <1>2, <1>3, <1>5, <1>6, <1>7, AddCondsMadeOf
<1> HIDE DEF m, said
<1>9. QED BY <1>1, <1>8, ChainedKinds

(* Scopes and Unscoped write to no array.                                  *)
LEMMA FlagKinds ==
    ASSUME Good, NEW h \in Used, Unscoped(h) \/ \E x \in Atoms : Scopes(h, x)
    PROVE  KeepsChaining
<1> SUFFICES ASSUME MadeOf(mem.arr, Chaining) PROVE MadeOf(mem'.arr, Chaining)
  BY DEF KeepsChaining
<1> DEFINE i == GetInstance(mem, handles[h])
<1>1. Memory(i.mem) /\ i.stmt \in DOMAIN i.mem.stmts /\ MadeOf(i.mem.arr, Chaining)
  BY InstanceKinds
<1>2. CASE Unscoped(h)
  <2> DEFINE m == [i.mem EXCEPT !.stmts[i.stmt].unscoped = TRUE]
             said == [handles[h] EXCEPT !.unscoped = TRUE]
  <2>1. Chained(h, m, i.stmt, said, h)
    BY <1>2 DEF Unscoped
  <2>2. m = Write(i.mem, i.mem.arr, i.stmt, [i.mem.stmts[i.stmt] EXCEPT !.unscoped = TRUE])
    <3> HIDE DEF i
    <3> QED BY <1>1, FieldsWritten
  <2>3. m.arr = i.mem.arr
    <3> HIDE DEF m
    <3> QED BY <2>2 DEF Write
  <2>4. MadeOf(m.arr, Chaining)
    BY <1>1, <2>3
  <2> HIDE DEF m, said
  <2>5. QED BY <2>1, <2>4, ChainedKinds
<1>3. ASSUME NEW x \in Atoms, Scopes(h, x) PROVE MadeOf(mem'.arr, Chaining)
  <2> DEFINE m == WithScope(i.mem, i.stmt, x)
             said == [handles[h] EXCEPT !.scopes = Append(@, x)]
  <2>1. Chained(h, m, i.stmt, said, h)
    BY <1>3 DEF Scopes, WithScope
  <2>2. m = Write(i.mem, i.mem.arr, i.stmt, MoreScopes(i.mem.stmts[i.stmt], x))
    <3> HIDE DEF i
    <3> QED BY <1>1, ScopeWritten
  <2>3. m.arr = i.mem.arr
    <3> HIDE DEF m
    <3> QED BY <2>2 DEF Write
  <2>4. MadeOf(m.arr, Chaining)
    BY <1>1, <2>3
  <2> HIDE DEF m, said
  <2>5. QED BY <2>1, <2>4, ChainedKinds
<1>4. QED BY <1>2, <1>3

(* A group adds And or Or, or what was in it.                              *)
LEMMA GroupKinds ==
    ASSUME Habits = {}, Good, NEW h \in Used, NEW g \in Used, NEW op \in {"where", "or"}, WhereGroup(h, op, g)
    PROVE  KeepsChaining
<1> SUFFICES ASSUME MadeOf(mem.arr, Chaining) PROVE MadeOf(mem'.arr, Chaining)
  BY DEF KeepsChaining
<1> DEFINE i == GetInstance(mem, handles[h])
           q == handles[g]
           b == BuildGroup(i.mem, q)
           n == ExecuteScopes(i.mem, q)
           m == AddConds(b.mem, i.stmt, op, b.exprs)
           said == [handles[h] EXCEPT !.words = Append(@, <<op, Means(AllWords(handles[g]))>>)]
<1>1. Chained(h, m, i.stmt, said, g)
  BY DEF WhereGroup
<1>2. Memory(i.mem) /\ i.stmt \in DOMAIN i.mem.stmts /\ MadeOf(i.mem.arr, Chaining)
  BY InstanceKinds
<1>3. Grouped(i, q)
  BY GroupInstance
<1>4. Positive \subseteq Chaining /\ soft \in BOOLEAN
  BY DEF Chaining, Good
<1> HIDE DEF i, q, said
<1>5. /\ Saying(q) /\ ~(soft /\ q.asked) /\ (q.clone # 0 => q.scopes = <<>>)
      /\ AllWords(q) # <<>> /\ q.stmt # i.stmt /\ Says(soft, i.mem, q.stmt, q)
  BY <1>3 DEF Grouped
<1>6. q.stmt \in DOMAIN i.mem.stmts
  BY <1>5, SaysTyped
<1>7. Memory(n) /\ q.stmt \in DOMAIN n.stmts
  <2>1. Grown(i.mem, n, q.stmt)
    BY <1>2, <1>4, <1>5, GroupScopes
  <2>2. QED BY <1>6, <2>1 DEF Grown
<1>8. MadeOf(b.mem.arr, Chaining) /\ Has(b.exprs, Chaining)
  BY <1>2, <1>4, <1>6, <1>7, GroupMadeOf
<1>9. PICK e : GroupBuilt(i.mem, q, b, e)
  BY <1>2, <1>4, <1>5, BuildGroupSays
<1> HIDE DEF n, b
<1>10. /\ Grown(i.mem, b.mem, q.stmt) /\ b.exprs = <<e>>
       /\ Within(b.mem.arr, <<e>>) /\ e[1] # "or"
  BY <1>9 DEF GroupBuilt
<1>11. Memory(b.mem) /\ i.stmt \in DOMAIN b.mem.stmts
  BY <1>2, <1>10 DEF Grown
<1>12. Within(b.mem.arr, b.exprs) /\ Starts(b.exprs)
  BY <1>10 DEF Starts
<1>13. MadeOf(m.arr, Chaining)
  BY <1>4, <1>8, <1>11, <1>12, AddCondsMadeOf
<1> HIDE DEF m
<1>14. QED BY <1>1, <1>13, ChainedKinds

(* Session copies no array.                                                *)
LEMMA SessionKinds ==
    ASSUME Good, NEW h, NEW kind, NEW allow, Session(h, kind, allow)
    PROVE  KeepsChaining
<1> SUFFICES ASSUME MadeOf(mem.arr, Chaining) PROVE MadeOf(mem'.arr, Chaining)
  BY DEF KeepsChaining
<1>1. PICK m : mem' = Kept(m, handles') /\ (m = mem \/ \E f : m = [mem EXCEPT !.stmts = f])
  BY DEF Session
<1>2. mem = [arr |-> mem.arr, stmts |-> mem.stmts]
  BY DEF Good, Memory
<1>3. m.arr = mem.arr
  BY <1>1, <1>2
<1>4. MadeOf(m.arr, Chaining)
  BY <1>3
<1>5. QED BY <1>1, <1>4, SweptMadeOf DEF Kept

(* Every chain method adds only what there is while the program works.     *)
LEMMA ChainKinds ==
    ASSUME Habits = {}, IInv, NEW h \in Used, Chain(h)
    PROVE  KeepsChaining
<1>1. Good
  BY DEF IInv
<1>2. ASSUME NEW w \in Words, IF w[1] = "scope" THEN Scopes(h, w[2]) ELSE Where(h, w[1], w[2])
      PROVE  KeepsChaining
  <2>1. w[1] \in {"where", "or", "not", "scope"} /\ w[2] \in Atoms
    BY BoundsAssumption
  <2> DEFINE op == w[1]
             x  == w[2]
  <2>2. CASE op = "scope"
    BY <1>1, <1>2, <2>1, <2>2, FlagKinds
  <2>3. CASE op # "scope"
    <3>1. Where(h, op, x) /\ x \in Atoms /\ op \in {"where", "or", "not"}
      BY <1>2, <2>1, <2>3
    <3> HIDE DEF op, x
    <3>2. QED BY <1>1, <3>1, WhereKinds
  <2>4. QED BY <2>2, <2>3
<1>3. ASSUME NEW op \in {"where", "or"}, NEW g \in Used, WhereGroup(h, op, g) PROVE KeepsChaining
  BY <1>1, <1>3, GroupKinds
<1>4. ASSUME Unscoped(h) PROVE KeepsChaining
  BY <1>1, <1>4, FlagKinds
<1>5. ASSUME NEW kind, NEW allow, Session(h, kind, allow) PROVE KeepsChaining
  BY <1>1, <1>5, SessionKinds
<1>6. QED BY <1>2, <1>3, <1>4, <1>5 DEF Chain

(* Find adds a clause of soft deletion, and scopes.                        *)
LEMMA FindKinds ==
    ASSUME Good, NEW h \in Used, Find(h)
    PROVE  KeepsChaining
<1> SUFFICES ASSUME MadeOf(mem.arr, Chaining) PROVE MadeOf(mem'.arr, Chaining)
  BY DEF KeepsChaining
<1> DEFINE k == handles[h]
<1>1. PICK i \in {GetInstance(mem, k)} : \E b \in {QueryOn(i.mem, i.stmt, 0)} :
          Finish(h, Said(k, FALSE, 0, 0), b, Picked(b, table), TRUE)
  BY DEF Find
<1>2. PICK b \in {QueryOn(i.mem, i.stmt, 0)} :
          Finish(h, Said(k, FALSE, 0, 0), b, Picked(b, table), TRUE)
  BY <1>1
<1>3. i = GetInstance(mem, k) /\ b = QueryOn(i.mem, i.stmt, 0)
  OBVIOUS
<1>4. Memory(i.mem) /\ Saying(k) /\ soft \in BOOLEAN /\ Says(soft, i.mem, i.stmt, k) /\ MadeOf(i.mem.arr, Chaining)
  BY <1>3, Instance, InstanceKinds
<1>5. Positive \subseteq Chaining
  BY DEF Chaining
<1>6. MadeOf(b.mem.arr, Chaining)
  <2> HIDE DEF k
  <2> QED BY <1>3, <1>4, <1>5, QueryMadeOf
<1>7. mem' = Kept(b.mem, handles')
  BY <1>2 DEF Finish
<1>8. QED BY <1>6, <1>7, SweptMadeOf DEF Kept

(* Finishers likewise, or they leave no array of their own.                *)
LEMMA FinisherKinds ==
    ASSUME Habits = {}, IInv, NEW h \in Used, Finisher(h)
    PROVE  KeepsChaining
<1>1. Good /\ TableInv(table, lastId) /\ TableOk(table)
  <2>1. Good /\ TableInv(table, lastId)
    BY DEF IInv
  <2>2. table \in SUBSET Row /\ Distinct(table)
    BY <2>1 DEF TableInv
  <2>3. QED BY <2>1, <2>2, RowsFinite
<1>2. KeepsKinds => KeepsChaining
  BY DEF KeepsKinds, KeepsChaining
<1>3. CASE Find(h)
  BY <1>1, <1>3, FindKinds
<1>4. ASSUME NEW key \in Nat, First(h, key) PROVE KeepsChaining
  BY <1>1, <1>2, <1>4, FirstSends
<1>5. ASSUME NEW key \in Nat, Delete(h, key) PROVE KeepsChaining
  BY <1>1, <1>2, <1>5, DeleteSends
<1>6. ASSUME NEW key \in Nat, NEW x \in Assigned, Update(h, key, x) PROVE KeepsChaining
  <2>1. x \in Atoms
    BY BoundsAssumption
  <2>2. QED BY <1>1, <1>2, <1>6, <2>1, UpdateSends
<1>7. \A key \in {0, 2} : key \in Nat
  OBVIOUS
<1>8. QED BY <1>3, <1>4, <1>5, <1>6, <1>7 DEF Finisher

(* FirstOrCreate begins with conditions that have no Not (its use with     *)
(* conditions that are no maps is left out).                               *)
LEMMA BeginsPositive ==
    ASSUME Habits = {}, Good, NEW h \in Used, NEW assign, FirstOrCreate(h, assign), MadeOf(mem.arr, Chaining)
    PROVE  MadeOf(mem'.arr, Positive)
<1> DEFINE i == GetInstance(mem, handles[h])
           m == i.mem
           s == i.stmt
           C == Reached(m.arr, Nested, WhereIn(m, s))
           bad == SaysNot(m, s)
<1>1. MadeOf(m.arr, Chaining)
  BY InstanceKinds
<1>2. mem' = Swept(m, {s}) /\ Fit("conds_not_maps", bad)
  BY DEF FirstOrCreate, Begin
<1>3. ~bad
  <2>1. bad \in BOOLEAN
    BY DEF SaysNot
  <2> HIDE DEF bad
  <2>2. QED BY <1>2, <2>1, FitMeans
<1> HIDE DEF m, s
<1>4. mem'.arr = [j \in C |-> m.arr[j]]
  <2>1. UNION {WhereIn(m, t) : t \in {s}} = WhereIn(m, s)
    OBVIOUS
  <2>2. QED BY <1>2, <2>1 DEF Swept
<1>5. C \subseteq DOMAIN m.arr
  BY DEF Reached
<1>6. ASSUME NEW j \in C, NEW k \in DOMAIN m.arr[j] PROVE m.arr[j][k][1] \in Positive
  <2>1. m.arr[j][k][1] \in Chaining
    BY <1>1, <1>5 DEF MadeOf, Has
  <2>2. m.arr[j][k][1] # "not"
    BY <1>3 DEF SaysNot
  <2>3. QED BY <2>1, <2>2 DEF Chaining
<1> HIDE DEF C
<1>7. QED BY <1>4, <1>6 DEF MadeOf, Has

-----------------------------------------------------------------------------
(* What FirstOrCreate knows between its statements.                        *)
AgainFound(sd, tbl, j, t) ==
    j.key \in j.touched \/ \E r \in tbl :
        /\ r.id = j.key /\ t \subseteq r.is
        /\ sd /\ ~j.base.unscoped => ~r.gone
        /\ r.is \in Means(AllWords(j.base))
Rising(h, t) == \A is \in Means(AllWords(h)) : is \cup t \in Means(AllWords(h))
Made(h, is)  == Ids # {} => is \in Means(AllWords(h))
Found(sd, m, tbl, j) ==
    /\ j.step = "find"   => MadeOf(m.arr, Positive)
    /\ j.step = "create" => j.assign \subseteq j.is /\ Made(j.base, j.is)
    /\ j.step = "update" => Rising(j.base, j.assign) /\ AgainFound(sd, tbl, j, {})
    /\ j.state = "ok"    => AgainFound(sd, tbl, j, j.assign)
(* The statement s selects what h asks for.                                *)
Answered(m, s, h) == \A row \in Row : Chosen(m, s, row) <=> Suits(h, 0, 0, row)

(* A row that is not deleted and has contents that the words ask for.      *)
LEMMA ContentsSuit ==
    ASSUME NEW h, NEW id \in Ids, NEW is \in SUBSET Atoms, NEW row, row = [id |-> id, is |-> is, gone |-> FALSE]
    PROVE  row \in Row /\ (Suits(h, 0, 0, row) <=> is \in Means(AllWords(h)))
<1>1. row.id = id /\ row.is = is /\ row.gone = FALSE /\ id > 0
  BY DEF Ids
<1>2. row \in Row
  BY DEF Row
<1>3. QED BY <1>1, <1>2 DEF Suits

(* Contents that the words ask for are still asked for with a column more, *)
(* as no word is a Not.                                                    *)
LEMMA RisingIs ==
    ASSUME NEW m, Memory(m), NEW s \in DOMAIN m.stmts, MadeOf(m.arr, Positive), NEW h, Answered(m, s, h),
           NEW t \in SUBSET Atoms, Ids # {}
    PROVE  Rising(h, t)
<1> SUFFICES ASSUME NEW is \in Means(AllWords(h))
             PROVE  is \cup t \in Means(AllWords(h))
  BY DEF Rising
<1>1. is \in SUBSET Atoms /\ is \cup t \in SUBSET Atoms
  BY DEF Means
<1>2. PICK id \in Ids : TRUE
  OBVIOUS
<1> DEFINE more == is \cup t
           r == [id |-> id, is |-> is, gone |-> FALSE]
           q == [id |-> id, is |-> more, gone |-> FALSE]
<1>3. Above(r, q)
  BY DEF Above
<1>4. more \in SUBSET Atoms
  BY <1>1
<1> HIDE DEF more
<1>5. r \in Row /\ (Suits(h, 0, 0, r) <=> is \in Means(AllWords(h)))
  BY <1>1, ContentsSuit
<1>6. q \in Row /\ (Suits(h, 0, 0, q) <=> more \in Means(AllWords(h)))
  BY <1>4, ContentsSuit
<1> HIDE DEF r, q
<1>7. Chosen(m, s, r)
  BY <1>5 DEF Answered
<1>8. Chosen(m, s, q)
  BY <1>3, <1>7, ChosenRises
<1>9. more \in Means(AllWords(h))
  BY <1>6, <1>8 DEF Answered
<1>10. QED BY <1>9 DEF more

(* Contents with the columns that the conditions give a value are asked    *)
(* for.                                                                    *)
LEMMA MadeIs ==
    ASSUME NEW m, Memory(m), NEW s \in DOMAIN m.stmts, MadeOf(m.arr, Positive), NEW h, Answered(m, s, h),
           NEW is \in SUBSET Atoms, EqAtoms(m, s) \subseteq is
    PROVE  Made(h, is)
<1> SUFFICES ASSUME Ids # {} PROVE is \in Means(AllWords(h))
  BY DEF Made
<1>1. PICK id \in Ids : TRUE
  OBVIOUS
<1>2. PICK row : row = [id |-> id, is |-> is, gone |-> FALSE]
  OBVIOUS
<1>3. row \in Row /\ (Suits(h, 0, 0, row) <=> is \in Means(AllWords(h)))
  BY <1>2, ContentsSuit
<1>4. EqAtoms(m, s) \subseteq row.is /\ ~row.gone
  BY <1>2
<1>5. Chosen(m, s, row)
  BY <1>4, EqAtomsChosen
<1>6. QED BY <1>3, <1>5 DEF Answered

(* The statement that looks for a row selects what is asked for and is     *)
(* made of what there is at the start of the call, and a clause of soft    *)
(* deletion.                                                               *)
LEMMA FindAnswered ==
    ASSUME NEW i, NEW h, NEW b, b = QueryOn(i.mem, i.stmt, 0), FindsWith(i, b, h), soft \in BOOLEAN,
           MadeOf(i.mem.arr, Positive)
    PROVE  /\ Memory(b.mem) /\ i.stmt \in DOMAIN b.mem.stmts
           /\ MadeOf(b.mem.arr, Positive) /\ Answered(b.mem, i.stmt, h)
<1>1. /\ Memory(i.mem) /\ Says(soft, i.mem, i.stmt, Copy(h)) /\ Saying(Copy(h))
      /\ Grown(i.mem, b.mem, i.stmt) /\ Chooses(b, h, 0, 0) /\ Memory(b.mem)
  BY DEF FindsWith
<1> DEFINE kinds == Positive
<1>2. Positive \subseteq kinds /\ MadeOf(i.mem.arr, kinds)
  OBVIOUS
<1> HIDE DEF kinds
<1>3. MadeOf(b.mem.arr, kinds) /\ \A row : Selects(b, row) <=> Chosen(b.mem, i.stmt, row)
  BY <1>1, <1>2, QueryMadeOf
<1>4. i.stmt \in DOMAIN b.mem.stmts
  BY <1>1, SaysTyped DEF Grown
<1>5. QED BY <1>1, <1>3, <1>4 DEF Chooses, Answered, kinds

(* FirstOrCreate finds a row that is asked for, or makes contents that     *)
(* are.                                                                    *)
LEMMA FirstFindFound ==
    ASSUME InCall, FirstFind, Found(soft, mem, table, job)
    PROVE  Found(soft, mem', table', job')
<1> DEFINE h    == job.base
           i    == GetInstance(mem, Copy(h))
           b    == QueryOn(i.mem, i.stmt, 0)
           rows == FirstOf(1, Picked(b, table))
           row  == CHOOSE r \in rows : TRUE
           is   == EqAtoms(b.mem, i.stmt) \cup job.assign
<1>1. /\ job.kind = "first" /\ job.state = "run" /\ job.step = "find" /\ table' = table
      /\ job' = IF rows = {}
                THEN [job EXCEPT !.step = "create", !.is = is]
                ELSE [job EXCEPT !.key = row.id,
                                 !.touched = {},
                                 !.step  = IF job.assign = {} THEN "done" ELSE "update",
                                 !.state = IF job.assign = {} THEN "ok" ELSE "run"]
  BY DEF FirstFind, Runs, Copy
<1>2. /\ job \in FirstJob /\ BaseOk(soft, mem, job) /\ FirstOk(job)
      /\ Memory(mem) /\ soft \in BOOLEAN /\ TableInv(table, lastId)
      /\ h \in Handle /\ Spoken(h.words) /\ job.assign \in SUBSET Atoms
  BY <1>1, FirstJobOk
<1>3. Says(soft, mem, h.stmt, h)
  BY <1>1, <1>2 DEF BaseOk, Sending
<1>4. i = GetInstance(mem, Copy(h)) /\ b = QueryOn(i.mem, i.stmt, 0)
  OBVIOUS
<1>5. MadeOf(i.mem.arr, Positive)
  <2>1. MadeOf(mem.arr, Positive)
    BY <1>1 DEF Found
  <2>2. i.mem.arr = mem.arr
    BY <1>2, InstanceArrays
  <2>3. QED BY <2>1, <2>2
<1> HIDE DEF h, i, b
<1>6. FindsWith(i, b, h)
  BY <1>2, <1>3, <1>4, FindStatement
<1> DEFINE m == b.mem
           s == i.stmt
<1>7. /\ Memory(m) /\ s \in DOMAIN m.stmts
      /\ MadeOf(m.arr, Positive) /\ Answered(m, s, h)
  BY <1>2, <1>4, <1>5, <1>6, FindAnswered
<1>8. is = EqAtoms(m, s) \cup job.assign
  OBVIOUS
<1> HIDE DEF m, s, is
<1>9. CASE rows = {}
  <2>1. job' = [job EXCEPT !.step = "create", !.is = is]
    BY <1>1, <1>9
  <2>2. job'.step = "create" /\ job'.is = is /\ job'.assign = job.assign /\ job'.state = "run" /\ job'.base = h
    BY <1>1, <1>2, <2>1 DEF FirstJob, h
  <2>3. is \in SUBSET Atoms /\ EqAtoms(m, s) \subseteq is /\ job.assign \subseteq is
    BY <1>2, <1>8 DEF EqAtoms
  <2>4. Made(h, is)
    BY <1>7, <2>3, MadeIs
  <2>5. QED BY <2>2, <2>3, <2>4 DEF Found
<1>10. CASE rows # {}
  <2>1. row \in rows
    BY <1>10
  <2>2. row \in table /\ Selects(b, row) /\ row \in Row
    BY <1>2, <2>1 DEF FirstOf, Picked, Selects, TableInv
  <2>3. Suits(h, 0, 0, row)
    BY <1>6, <2>2 DEF FindsWith, Chooses
  <2> HIDE DEF row, rows
  <2>4. Ids # {}
    BY <2>2 DEF Row
  <2>5. job' = [job EXCEPT !.key = row.id, !.touched = {},
                           !.step  = IF job.assign = {} THEN "done" ELSE "update",
                           !.state = IF job.assign = {} THEN "ok" ELSE "run"]
    BY <1>1, <1>10
  <2>6. /\ job'.key = row.id /\ job'.assign = job.assign /\ job'.base = h
        /\ job'.step = IF job.assign = {} THEN "done" ELSE "update"
        /\ job'.state = IF job.assign = {} THEN "ok" ELSE "run"
    BY <1>2, <2>5 DEF FirstJob, h
  <2>7. AgainFound(soft, table', job', {})
    BY <1>1, <2>2, <2>3, <2>6 DEF AgainFound, Suits
  <2>8. Rising(h, job.assign)
    BY <1>2, <1>7, <2>4, RisingIs
  <2>9. QED BY <2>6, <2>7, <2>8 DEF Found
<1>11. QED BY <1>9, <1>10

(* The row that it makes is found again.                                   *)
LEMMA FirstCreateFound ==
    ASSUME InCall, FirstCreate, Found(soft, mem, table, job)
    PROVE  Found(soft, mem', table', job')
<1>1. PICK row : row = [id |-> NextId, is |-> job.is, gone |-> FALSE]
  OBVIOUS
<1>2. /\ job.kind = "first" /\ job.state = "run" /\ job.step = "create" /\ NextId \in Ids
      /\ table' = table \cup {row}
      /\ job' = [job EXCEPT !.key = NextId, !.touched = {}, !.step = "done", !.state = "ok"]
  BY <1>1 DEF FirstCreate, Runs
<1>3. job \in FirstJob
  BY <1>2, FirstJobOk
<1>4. job.assign \subseteq job.is /\ job.is \in Means(AllWords(job.base))
  BY <1>2 DEF Found, Made
<1>5. job'.key = NextId /\ job'.assign = job.assign /\ job'.base = job.base /\ job'.step = "done" /\ job'.state = "ok"
  BY <1>2, <1>3 DEF FirstJob
<1>6. row.id = NextId /\ row.is = job.is /\ ~row.gone /\ row \in table'
  BY <1>1, <1>2
<1>7. AgainFound(soft, table', job', job'.assign)
  BY <1>4, <1>5, <1>6 DEF AgainFound
<1>8. QED BY <1>5, <1>7 DEF Found

(* The row that it found and assigns to is found again.                    *)
LEMMA FirstUpdateFound ==
    ASSUME InCall, FirstUpdate, Found(soft, mem, table, job)
    PROVE  Found(soft, mem', table', job')
<1> DEFINE b   == QueryOn(mem, job.base.stmt, job.key)
           hit == Picked(b, table)
<1>1. /\ job.kind = "first" /\ job.state = "run" /\ job.step = "update"
      /\ table' = Set(table, hit, job.assign)
      /\ job' = [job EXCEPT !.step = "done", !.state = "ok"]
  BY DEF FirstUpdate, Runs
<1>2. /\ job \in FirstJob /\ FirstOk(job) /\ BaseOk(soft, mem, job)
      /\ Memory(mem) /\ soft \in BOOLEAN /\ TableInv(table, lastId)
      /\ job.base \in Handle /\ Spoken(job.base.words) /\ job.key \in Nat
  BY <1>1, FirstJobOk
<1>3. Says(soft, mem, job.base.stmt, job.base) /\ job.key # 0
      /\ (~soft \/ job.base.unscoped => ~HasOr(job.base.words))
  BY <1>1, <1>2 DEF BaseOk, Sending, FirstOk
<1>4. hit = {r \in table : Suits(job.base, job.key, 0, r)}
  <2> DEFINE h == job.base
             s == job.base.stmt
             key == job.key
  <2>1. /\ h \in Handle /\ Spoken(h.words) /\ Says(soft, mem, s, h) /\ key \in Nat \ {0}
        /\ (~soft \/ h.unscoped => ~HasOr(h.words)) /\ b = QueryOn(mem, s, key)
    BY <1>2, <1>3
  <2> HIDE DEF h, s, key, b
  <2>2. Keyed(h, s, key, b)
    BY <1>2, <2>1, KeyedStatement
  <2>3. QED BY <2>2 DEF h, s, key, Keyed
<1>5. Rising(job.base, job.assign) /\ AgainFound(soft, table, job, {})
  BY <1>1 DEF Found
<1>6. /\ job'.key = job.key /\ job'.assign = job.assign /\ job'.base = job.base /\ job'.touched = job.touched
      /\ job'.step = "done" /\ job'.state = "ok"
  BY <1>1, <1>2 DEF FirstJob
<1> HIDE DEF hit
<1>7. AgainFound(soft, table', job', job'.assign)
  <2>1. CASE job.key \in job.touched
    BY <1>6, <2>1 DEF AgainFound
  <2>2. CASE job.key \notin job.touched
    <3>1. PICK r \in table : /\ r.id = job.key /\ (soft /\ ~job.base.unscoped => ~r.gone)
                             /\ r.is \in Means(AllWords(job.base))
      BY <1>5, <2>2 DEF AgainFound
    <3>2. r \in Row /\ r.id \in Nat /\ r.id > 0
      BY <1>2, <3>1 DEF TableInv, Row, Ids
    <3>3. r \in hit
      BY <1>4, <3>1, <3>2 DEF Suits
    <3>4. PICK q : q = [r EXCEPT !.is = @ \cup job.assign]
      OBVIOUS
    <3>5. q \in table'
      BY <1>1, <3>1, <3>3, <3>4 DEF Set
    <3>6. q.id = r.id /\ q.is = r.is \cup job.assign /\ q.gone = r.gone
      BY <3>2, <3>4 DEF Row
    <3>7. q.is \in Means(AllWords(job.base))
      BY <1>5, <3>1, <3>6 DEF Rising
    <3>8. QED BY <1>6, <3>1, <3>5, <3>6, <3>7 DEF AgainFound
  <2>3. QED BY <2>1, <2>2
<1>8. QED BY <1>6, <1>7 DEF Found

(* The other client touches the row or leaves it alone.                    *)
LEMMA VisitFound ==
    ASSUME InCall, Visits, job.kind = "first", Found(soft, mem, table, job)
    PROVE  Found(soft, mem', table', job')
<1>1. PICK T \in SUBSET Ids :
          /\ Elsewhere(table, lastId, table', lastId', job, T)
          /\ job' = Touched(job, T) /\ job.state = "run" /\ mem' = mem
  BY DEF Visits
<1>2. job \in Call
  BY DEF InCall, JobOk
<1>3. TouchesAs(job, job', T)
  BY <1>1, <1>2, TouchedIs
<1>4. /\ job'.state = "run" /\ job'.base = job.base /\ job'.touched = job.touched \cup T
      /\ job'.step = job.step /\ job'.key = job.key /\ job'.assign = job.assign /\ job'.is = job.is
  BY <1>1, <1>3 DEF TouchesAs
<1>5. \A r \in table : r.id \in T \/ r \in table'
  BY <1>1 DEF Elsewhere
<1>6. AgainFound(soft, table, job, {}) => AgainFound(soft, table', job', {})
  BY <1>4, <1>5 DEF AgainFound
<1>7. QED BY <1>1, <1>4, <1>6 DEF Found

(* A call that fails has changed nothing in between.                       *)
LEMMA FailedFound ==
    ASSUME InCall, NEW kind, JobFails(kind), job.kind = "first", Found(soft, mem, table, job)
    PROVE  Found(soft, mem', table', job')
<1>1. job' = Failed(job) /\ mem' = mem /\ table' = table
  BY DEF JobFails, Ends, Failed
<1>2. job \in Call
  BY DEF InCall, JobOk
<1>3. FailsAs(job, job')
  BY <1>1, <1>2, FailedIs
<1>4. /\ job'.state = "failed" /\ job'.base = job.base /\ job'.touched = job.touched
      /\ job'.step = job.step /\ job'.key = job.key /\ job'.assign = job.assign /\ job'.is = job.is
  BY <1>3 DEF FailsAs
<1>5. AgainFound(soft, table, job, {}) => AgainFound(soft, table', job', {})
  BY <1>1, <1>4 DEF AgainFound
<1>6. QED BY <1>1, <1>4, <1>5 DEF Found

-----------------------------------------------------------------------------
(* What holds beside the inductive invariant: the arrays are of the kinds  *)
(* that chain methods make, and FirstOrCreate is as far as it says.        *)
PInv ==
    /\ job = NoJob => MadeOf(mem.arr, Chaining)
    /\ job.kind = "first" => Found(soft, mem, table, job)

(* It holds at the start.                                                  *)
LEMMA InitFound ==
    ASSUME Init
    PROVE  PInv
<1>1. mem.arr = <<>> /\ job = NoJob
  BY DEF Init
<1>2. MadeOf(mem.arr, Chaining)
  BY <1>1 DEF MadeOf
<1>3. QED BY <1>1, <1>2 DEF PInv, NoJob

(* A step without a call keeps it.                                         *)
LEMMA WorksOnFound ==
    ASSUME IInv, PInv, Working, job' = job, KeepsChaining
    PROVE  PInv'
<1>1. job = NoJob
  BY WorkingOrCall
<1>2. MadeOf(mem.arr, Chaining)'
  BY <1>1 DEF PInv, KeepsChaining
<1>3. (job = NoJob)' /\ NoJob.kind = "none"
  BY <1>1 DEF NoJob
<1>4. QED BY <1>2, <1>3 DEF PInv

(* So does a step to, or of, a call of another kind.                       *)
LEMMA OtherKindFound ==
    ASSUME job'.kind \in {"batches", "save", "create"}
    PROVE  PInv'
<1>1. job' # NoJob
  BY DEF NoJob
<1>2. QED BY <1>1 DEF PInv

(* And one that keeps what FirstOrCreate knows.                            *)
LEMMA FirstFound ==
    ASSUME soft' = soft, job'.kind = "first", Found(soft, mem', table', job')
    PROVE  PInv'
<1>1. job' # NoJob
  BY DEF NoJob
<1>2. Found(soft, mem, table, job)'
  BY DEF Found, AgainFound, Made
<1>3. QED BY <1>1, <1>2 DEF PInv

(* A call begins.                                                          *)
LEMMA LastCallFound ==
    ASSUME Habits = {}, IInv, PInv, NEW h \in Used, LastCall(h)
    PROVE  PInv'
<1>1. Good
  BY DEF IInv
<1>2. ASSUME NEW m, NEW s, NEW j, Begin(m, s, j) PROVE job' = j /\ Working /\ soft' = soft
  BY <1>2 DEF Begin
<1>3. ASSUME NEW size, NEW total, NEW offset, FindInBatches(h, size, total, offset) PROVE PInv'
  <2>1. job'.kind = "batches"
    BY <1>3 DEF FindInBatches, Begin
  <2>2. QED BY <2>1, OtherKindFound
<1>4. ASSUME NEW key, NEW is, NEW selected, Save(h, key, is, selected) PROVE PInv'
  <2>1. job'.kind = "save"
    BY <1>4 DEF Save, Begin
  <2>2. QED BY <2>1, OtherKindFound
<1>5. ASSUME NEW n, NEW size, NEW skip, CreateInBatches(h, n, size, skip) PROVE PInv'
  <2>1. job'.kind = "create"
    BY <1>5 DEF CreateInBatches, Begin
  <2>2. QED BY <2>1, OtherKindFound
<1>6. ASSUME NEW assign, FirstOrCreate(h, assign) PROVE PInv'
  <2>1. job'.kind = "first" /\ job'.step = "find" /\ job'.state = "run" /\ soft' = soft /\ Working
    BY <1>6 DEF FirstOrCreate, Begin
  <2>2. MadeOf(mem.arr, Chaining)
    BY <2>1, WorkingOrCall DEF PInv
  <2>3. MadeOf(mem'.arr, Positive)
    BY <1>1, <1>6, <2>2, BeginsPositive
  <2>4. Found(soft, mem', table', job')
    BY <2>1, <2>3 DEF Found
  <2>5. QED BY <2>1, <2>4, FirstFound
<1>7. QED BY <1>3, <1>4, <1>5, <1>6 DEF LastCall

(* A call goes on.                                                         *)
LEMMA JobFound ==
    ASSUME IInv, PInv, Job
    PROVE  PInv'
<1>1. InCall /\ job \in Call
  <2>1. job.kind \in {"batches", "save", "create", "first"}
    BY DEF Job, NextBatch, SaveUpdate, SaveCreate, CreateBatch, CreateFails, FirstFind, FirstCreate,
           FirstUpdate, JobFails, Runs
  <2>2. QED BY <2>1, WorkingOrCall DEF InCall, JobOk
<1>2. CASE NextBatch
  <2>1. job'.kind = job.kind /\ job.kind = "batches"
    BY <1>2, <1>1, KindOf DEF NextBatch, Runs, BatchJob
  <2>2. QED BY <2>1, OtherKindFound
<1>3. CASE SaveUpdate
  <2>1. job'.kind = job.kind /\ job.kind = "save"
    BY <1>3, <1>1, KindOf DEF SaveUpdate, Runs, SaveJob
  <2>2. QED BY <2>1, OtherKindFound
<1>4. CASE SaveCreate
  <2>1. job'.kind = job.kind /\ job.kind = "save"
    BY <1>4, <1>1, KindOf DEF SaveCreate, Runs, SaveJob
  <2>2. QED BY <2>1, OtherKindFound
<1>5. CASE CreateBatch
  <2>1. job'.kind = job.kind /\ job.kind = "create"
    BY <1>5, <1>1, KindOf DEF CreateBatch, Runs, CreateJob
  <2>2. QED BY <2>1, OtherKindFound
<1>6. CASE CreateFails
  <2>1. job'.kind = job.kind /\ job.kind = "create"
    BY <1>6, <1>1, KindOf DEF CreateFails, Ends, Runs, CreateJob
  <2>2. QED BY <2>1, OtherKindFound
<1>7. CASE FirstFind \/ FirstCreate \/ FirstUpdate
  <2>1. job.kind = "first" /\ soft' = soft
    BY <1>7 DEF FirstFind, FirstCreate, FirstUpdate, Runs, InJob
  <2>2. Found(soft, mem, table, job) /\ job \in FirstJob
    BY <1>1, <2>1, KindOf DEF PInv
  <2>3. job'.kind = "first"
    BY <1>7, <2>1, <2>2 DEF FirstFind, FirstCreate, FirstUpdate, FirstJob
  <2>4. Found(soft, mem', table', job')
    BY <1>1, <1>7, <2>2, FirstFindFound, FirstCreateFound, FirstUpdateFound
  <2>5. QED BY <2>1, <2>3, <2>4, FirstFound
<1>8. ASSUME NEW kind \in {"batches", "save", "first"}, JobFails(kind) PROVE PInv'
  <2>1. job' = Failed(job) /\ job.kind = kind /\ soft' = soft
    BY <1>8 DEF JobFails, Runs, Ends, Failed
  <2>2. job'.kind = kind
    BY <1>1, <2>1, FailedIs DEF FailsAs
  <2>3. CASE kind = "first"
    <3>1. Found(soft, mem, table, job)
      BY <2>1, <2>3 DEF PInv
    <3>2. Found(soft, mem', table', job')
      BY <1>1, <1>8, <2>1, <2>3, <3>1, FailedFound
    <3>3. QED BY <2>1, <2>2, <2>3, <3>2, FirstFound
  <2>4. CASE kind # "first"
    BY <2>2, <2>4, OtherKindFound
  <2>5. QED BY <2>3, <2>4
<1>9. QED BY <1>2, <1>3, <1>4, <1>5, <1>6, <1>7, <1>8 DEF Job

(* The other client visits.                                                *)
LEMMA ClientFound ==
    ASSUME IInv, PInv, Client
    PROVE  PInv'
<1>1. InCall /\ Visits
  BY ClientVisits
<1>2. PICK T \in SUBSET Ids : job' = Touched(job, T) /\ soft' = soft
  BY <1>1 DEF Visits
<1>3. job \in Call
  BY <1>1 DEF InCall, JobOk
<1>4. job'.kind = job.kind /\ job.kind \in {"batches", "save", "create", "first"}
  BY <1>2, <1>3, TouchedIs, KindOf DEF TouchesAs
<1>5. CASE job.kind = "first"
  <2>1. Found(soft, mem, table, job)
    BY <1>5 DEF PInv
  <2>2. Found(soft, mem', table', job')
    BY <1>1, <1>5, <2>1, VisitFound
  <2>3. QED BY <1>2, <1>4, <1>5, <2>2, FirstFound
<1>6. CASE job.kind # "first"
  BY <1>4, <1>6, OtherKindFound
<1>7. QED BY <1>5, <1>6

(* Every step keeps it.                                                    *)
LEMMA NextFound ==
    ASSUME Habits = {}, IInv, PInv, [Next]_vars
    PROVE  PInv'
<1>1. ASSUME NEW h \in Used, Chain(h) PROVE PInv'
  <2>1. Working /\ job' = job
    BY <1>1 DEF Chain, Where, WhereGroup, Scopes, Unscoped, Session, Chained
  <2>2. KeepsChaining
    BY <1>1, ChainKinds
  <2>3. QED BY <2>1, <2>2, WorksOnFound
<1>2. ASSUME NEW h \in Used, Finisher(h) PROVE PInv'
  <2>1. Working /\ job' = job
    BY <1>2 DEF Finisher, Find, First, Update, Delete, Finish
  <2>2. KeepsChaining
    BY <1>2, FinisherKinds
  <2>3. QED BY <2>1, <2>2, WorksOnFound
<1>3. ASSUME NEW h \in Used, LastCall(h) PROVE PInv'
  BY <1>3, LastCallFound
<1>4. CASE Job \/ Client
  BY <1>4, JobFound, ClientFound
<1>5. CASE Over \/ UNCHANGED vars
  <2>1. soft' = soft /\ mem' = mem /\ table' = table /\ job' = job
    BY <1>5 DEF Over, vars
  <2>2. QED BY <2>1 DEF PInv, Found, AgainFound, Made
<1>6. QED BY <1>1, <1>2, <1>3, <1>4, <1>5 DEF Next

(* What FirstOrCreate returns is found again.                              *)
LEMMA FoundHolds ==
    ASSUME PInv
    PROVE  FoundAgain
<1> SUFFICES ASSUME job.kind = "first", job.state = "ok"
             PROVE  \/ job.key \in job.touched
                    \/ \E r \in table :
                           /\ r.id = job.key /\ job.assign \subseteq r.is
                           /\ soft /\ ~job.base.unscoped => ~r.gone
                           /\ r.is \in Means(AllWords(job.base))
  BY DEF FoundAgain
<1>1. AgainFound(soft, table, job, job.assign)
  BY DEF PInv, Found
<1>2. QED BY <1>1 DEF AgainFound

-----------------------------------------------------------------------------
(* What the runs check, for a program without the uses that the code       *)
(* answers wrongly.                                                        *)

(* Whatever the program chains, asks and calls, arrays are never empty nor *)
(* refer to arrays that are gone, and every handle has its statement       *)
(* (clause/where.go, gorm.go:432).                                         *)
THEOREM RecordsTypes ==
    ASSUME Habits = {}
    PROVE  Spec => []TypeOK
<1>1. Init => IInv
  BY InitInv
<1>2. IInv /\ [Next]_vars => IInv'
  BY NextSteps, StepsInv DEF IInv, Good
<1>3. IInv => TypeOK
  BY TypesHold
<1>4. QED BY <1>1, <1>2, <1>3, PTL DEF Spec

(* Every statement hits exactly the rows that the words on its own handle  *)
(* ask for, for every number of handles, calls and rows: conditions of one *)
(* chain never reach another, and deleted rows stay out of sight           *)
(* (gorm.go:247-347, 432-459; soft_delete.go:76).                          *)
THEOREM RecordsFaithful ==
    ASSUME Habits = {}
    PROVE  Spec => Faithful
<1>1. Init => IInv
  BY InitInv
<1>2. IInv /\ [Next]_vars => IInv'
  BY NextSteps, StepsInv DEF IInv, Good
<1>3. IInv /\ [Next]_vars => [sent'.n # sent.n => sent'.rows = Wanted(sent'.q, table)]_vars
  BY NextSteps DEF Steps, Sends
<1>4. QED BY <1>1, <1>2, <1>3, PTL DEF Spec, Faithful

(* FindInBatches hands out rising identifiers, no more than the Limit, and *)
(* every row that was there and left alone, whatever the other client does *)
(* in between (finisher_api.go:175-245).                                   *)
THEOREM RecordsBatchesExact ==
    ASSUME Habits = {}
    PROVE  Spec => []BatchesExact
<1>1. Init => IInv
  BY InitInv
<1>2. IInv /\ [Next]_vars => IInv'
  BY NextSteps, StepsInv DEF IInv, Good
<1>3. IInv => BatchesExact
  BY BatchesHold
<1>4. QED BY <1>1, <1>2, <1>3, PTL DEF Spec

(* What Save, CreateInBatches and FirstOrCreate report is in the table:    *)
(* the value saved, all batches or, after a failure in a transaction, none *)
(* of them, and a row that the conditions of FirstOrCreate find again,     *)
(* whatever the other client does in between (finisher_api.go:29-116,      *)
(* 296-399).                                                               *)
THEOREM RecordsReported ==
    ASSUME Habits = {}
    PROVE  Spec => []Reported
<1>1. Init => IInv /\ PInv
  BY InitInv, InitFound
<1>2. IInv /\ PInv /\ [Next]_vars => IInv' /\ PInv'
  BY NextSteps, StepsInv, NextFound DEF IInv, Good
<1>3. IInv /\ PInv => Reported
  BY StoredHolds, FoundHolds DEF Reported
<1>4. QED BY <1>1, <1>2, <1>3, PTL DEF Spec
=============================================================================
