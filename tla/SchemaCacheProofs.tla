------------------------- MODULE SchemaCacheProofs --------------------------
(***************************************************************************)
(* What SchemaCache keeps for any number of goroutines, types, special     *)
(* table names and calls, and whatever the models refer to.                *)
(***************************************************************************)
EXTENDS SchemaCache, SequenceTheorems, WellFoundedInduction, TLAPS

-----------------------------------------------------------------------------
(* The inductive invariant.  Lock-freedom rests on Newer, and Newer on     *)
(* Shape and HeldOnce: a schema is parsed by one call only, which is not   *)
(* done before all the calls above it are.                                 *)
Holding == {"relate", "delete", "close"}

RefsInIds == \A i \in Ids : schemas[i].refs \subseteq Ids

(* Where a call is in its stack, and what it has of its schema.            *)
FrameOK(f, n, len) ==
    /\ n < len => f.at = "relate" /\ f.key[1] \notin JoinTables
    /\ f.at = "get" => n > 1
    /\ f.at \in Holding \cup {"wait"} => f.id \in Ids /\ schemas[f.id].key = f.key
    /\ f.at \in Holding => ~schemas[f.id].initialized
    /\ world.bad = {} => f.at # "delete"
    /\ world.tables = {} =>
          /\ f.key[2] = NoTable
          /\ f.at \in {"relate", "delete"} => f.key \in DOMAIN cache /\ cache[f.key] = f.id
Shape == \A p \in Procs : \A n \in DOMAIN stack[p] : FrameOK(stack[p][n], n, Len(stack[p]))

HeldOnce ==
    \A p, q \in Procs : \A n \in DOMAIN stack[p], m \in DOMAIN stack[q] :
        /\ stack[p][n].at \in Holding /\ stack[q][m].at \in Holding
        /\ stack[p][n].id = stack[q][m].id
        => p = q /\ n = m

(* A call that is about to wait will wait for a schema younger than those  *)
(* its goroutine holds.                                                    *)
Newer ==
    \A p \in Procs : stack[p] # <<>> /\ Top(p).key[1] \notin JoinTables =>
        /\ Top(p).at \in {"load", "again", "store"} /\ Top(p).key \in DOMAIN cache =>
              \A n \in DOMAIN stack[p] :
                  stack[p][n].at \in Holding => stack[p][n].id < cache[Top(p).key]
        /\ Top(p).at = "wait" =>
              \A n \in DOMAIN stack[p] :
                  stack[p][n].at \in Holding => stack[p][n].id < Top(p).id

AllGood ==
    world.bad = {} =>
        \A i \in Ids : /\ ~schemas[i].err
                       /\ schemas[i].key \in DOMAIN cache /\ cache[schemas[i].key] = i

(* A failed schema that is still cached is about to be deleted.            *)
FailedLeaves ==
    \A t \in Types : Plain(t) \in DOMAIN cache /\ schemas[cache[Plain(t)]].err =>
        \E p \in Procs : At(p, "delete") /\ Top(p).id = cache[Plain(t)]

Inv == TypeOK /\ RefsInIds /\ Shape /\ HeldOnce /\ Newer /\ ReturnedComplete
       /\ AllGood /\ FailedLeaves

-----------------------------------------------------------------------------
(* Stacks.                                                                 *)

LEMMA Split ==
    ASSUME NEW s \in Seq(Frame), s # <<>>
    PROVE  /\ Len(s) \in Nat /\ Len(s) > 0 /\ DOMAIN s = 1..Len(s)
           /\ Last(s) = s[Len(s)] /\ Last(s) \in Frame
           /\ Front(s) \in Seq(Frame) /\ Len(Front(s)) = Len(s) - 1
           /\ \A n \in 1..Len(s) - 1 : Front(s)[n] = s[n]
<1>1. Len(s) \in Nat /\ Len(s) > 0 /\ DOMAIN s = 1..Len(s) BY EmptySeq, LenProperties
<1>2. Last(s) = s[Len(s)] /\ Last(s) \in Frame BY <1>1, ElementOfSeq DEF Last
<1> QED BY <1>1, <1>2, SubSeqProperties DEF Front

(* t is s with another top, with one more frame, or with the top gone and  *)
(* the one below changed.                                                  *)
ReplacedBy(s, f, t) ==
    /\ t \in Seq(Frame) /\ t # <<>> /\ Len(t) = Len(s) /\ DOMAIN t = 1..Len(s)
    /\ \A n \in 1..Len(s) - 1 : t[n] = s[n]
    /\ t[Len(s)] = f /\ Last(t) = f
PushedOn(s, f, t) ==
    /\ t \in Seq(Frame) /\ t # <<>> /\ Len(t) = Len(s) + 1 /\ DOMAIN t = 1..Len(s) + 1
    /\ \A n \in 1..Len(s) : t[n] = s[n]
    /\ t[Len(s) + 1] = f /\ Last(t) = f
PoppedTo(s, f, t) ==
    /\ t \in Seq(Frame) /\ t # <<>> /\ Len(t) = Len(s) - 1 /\ DOMAIN t = 1..Len(s) - 1
    /\ \A n \in 1..Len(s) - 2 : t[n] = s[n]
    /\ t[Len(s) - 1] = f /\ Last(t) = f

LEMMA Replaced ==
    ASSUME NEW s \in Seq(Frame), s # <<>>, NEW f \in Frame, NEW t, t = Front(s) \o <<f>>
    PROVE  ReplacedBy(s, f, t)
<1>1. <<f>> \in Seq(Frame) /\ Len(<<f>>) = 1 /\ <<f>>[1] = f OBVIOUS
<1>2. t \in Seq(Frame) /\ Len(t) = Len(s) BY <1>1, Split, ConcatProperties
<1>3. \A n \in 1..Len(s) - 1 : t[n] = s[n] BY <1>1, Split, ConcatProperties
<1>4. t[Len(s)] = f BY <1>1, Split, ConcatProperties
<1> QED BY <1>2, <1>3, <1>4, Split, LenProperties, EmptySeq DEF Last, ReplacedBy

LEMMA Pushed ==
    ASSUME NEW s \in Seq(Frame), NEW f \in Frame, NEW t, t = Append(s, f)
    PROVE  PushedOn(s, f, t)
<1>1. Len(s) \in Nat BY LenProperties
<1>2. t \in Seq(Frame) /\ Len(t) = Len(s) + 1 /\ t[Len(s) + 1] = f
  BY <1>1, AppendProperties
<1>3. \A n \in 1..Len(s) : t[n] = s[n] BY <1>1, AppendProperties
<1> QED BY <1>1, <1>2, <1>3, LenProperties, EmptySeq DEF Last, PushedOn

ChangedBelow(s, f) == [Front(s) EXCEPT ![Len(s) - 1] = f]

LEMMA Popped ==
    ASSUME NEW s \in Seq(Frame), Len(s) > 1, NEW f \in Frame, NEW t,
           t = ChangedBelow(s, f)
    PROVE  PoppedTo(s, f, t)
<1>1. s # <<>> BY EmptySeq
<1>2. Len(s) \in Nat /\ Len(s) - 1 \in 1..Len(Front(s)) BY <1>1, Split
<1>3. DOMAIN Front(s) = 1..Len(s) - 1 BY <1>1, Split, LenProperties
<1>4. t \in Seq(Frame) /\ Len(t) = Len(s) - 1 BY <1>1, <1>2, Split, ExceptSeq DEF ChangedBelow
<1>5. \A n \in 1..Len(s) - 2 : t[n] = s[n] BY <1>1, <1>2, <1>3, Split DEF ChangedBelow
<1>6. t[Len(s) - 1] = f BY <1>2, <1>3 DEF ChangedBelow
<1> QED BY <1>2, <1>4, <1>5, <1>6, LenProperties, EmptySeq DEF Last, PoppedTo

(* A step of p that only changes its innermost call to f.                  *)
Others(p) == \A q \in Procs : q # p => stack'[q] = stack[q] /\ Top(q)' = Top(q)
NewTop(p, f) ==
    /\ stack' \in [Procs -> Seq(Frame)] /\ Others(p) /\ f \in Frame
    /\ stack[p] # <<>> /\ stack'[p] # <<>>
    /\ Len(stack[p]) \in Nat /\ Len(stack[p]) > 0 /\ DOMAIN stack[p] = 1..Len(stack[p])
    /\ Len(stack[p]) \in DOMAIN stack[p] /\ Top(p) = stack[p][Len(stack[p])]
    /\ Len(stack'[p]) = Len(stack[p]) /\ DOMAIN stack'[p] = DOMAIN stack[p]
    /\ \A n \in DOMAIN stack[p] :
          n # Len(stack[p]) => stack'[p][n] = stack[p][n] /\ n < Len(stack[p])
    /\ stack'[p][Len(stack[p])] = f /\ Top(p)' = f

LEMMA NewTopIs ==
    ASSUME TypeOK, NEW p \in Procs, stack[p] # <<>>, NEW f \in Frame,
           stack' = [stack EXCEPT ![p] = Front(@) \o <<f>>]
    PROVE  NewTop(p, f)
<1> DEFINE s == stack[p]
           t == stack'[p]
<1>1. s \in Seq(Frame) BY DEF TypeOK
<1>2. ReplacedBy(s, f, t)
  <2>1. t = Front(s) \o <<f>> BY DEF TypeOK
  <2> QED BY <1>1, <2>1, Replaced
<1>3. stack' \in [Procs -> Seq(Frame)] BY <1>2 DEF TypeOK, ReplacedBy
<1>4. Others(p) BY DEF Others, TypeOK, Top
<1>5. Len(s) \in Nat /\ Len(s) > 0 /\ DOMAIN s = 1..Len(s) /\ Last(s) = s[Len(s)]
  BY <1>1, Split
<1>6. /\ t # <<>> /\ Len(t) = Len(s) /\ DOMAIN t = 1..Len(s)
      /\ \A n \in 1..Len(s) - 1 : t[n] = s[n]
      /\ t[Len(s)] = f /\ Last(t) = f
  BY <1>2 DEF ReplacedBy
<1>7. Top(p) = Last(s) /\ Top(p)' = Last(t) BY DEF Top
<1>8. \A n \in DOMAIN s : n # Len(s) => t[n] = s[n] /\ n < Len(s) BY <1>5, <1>6
<1>9. Len(s) \in DOMAIN s BY <1>5
<1> QED BY <1>3, <1>4, <1>5, <1>6, <1>7, <1>8, <1>9 DEF NewTop

(* The frames below the top of p, and those of the others, stay.           *)
LEMMA Stays ==
    ASSUME NEW p \in Procs, NEW f, NewTop(p, f),
           NEW q \in Procs, NEW n \in DOMAIN stack'[q], q # p \/ n # Len(stack[p])
    PROVE  /\ n \in DOMAIN stack[q] /\ stack'[q][n] = stack[q][n]
           /\ Len(stack'[q]) = Len(stack[q])
  BY DEF NewTop, Others

(* A call that looks for its schema goes on, or begins to wait.            *)
Looking(p, f) ==
    /\ Top(p).at \in Places \ Holding
    /\ f.key = Top(p).key /\ f.at \in {"load", "again", "store", "wait"}
    /\ f.at # "wait" => Top(p).key \notin DOMAIN cache
    /\ f.at = "wait" => /\ Top(p).at \in {"load", "again", "store"}
                        /\ Top(p).key \in DOMAIN cache /\ f.id = cache[Top(p).key]

LEMMA MoveKeeps ==
    ASSUME Inv, NEW p \in Procs, NEW f, Looking(p, f), NewTop(p, f),
           UNCHANGED <<world, cache, schemas, calls, returned>>
    PROVE  Inv'
<1> DEFINE s == stack[p]
           t == stack'[p]
<1>1. f.at \notin Holding /\ f.at # "get" /\ f.at # "delete" /\ f.key = Top(p).key
  BY DEF Holding, Looking
<1>2. TypeOK' BY DEF Inv, TypeOK, Ids, NewTop
<1>3. (RefsInIds /\ ReturnedComplete /\ AllGood)'
  BY DEF Inv, RefsInIds, ReturnedComplete, AllGood, Ids
<1>4. Shape'
  <2>1. f.at = "wait" => f.id \in Ids /\ schemas[f.id].key = f.key BY DEF Inv, TypeOK, Looking
  <2>2. FrameOK(f, Len(s), Len(s))'
    <3>1. FrameOK(Top(p), Len(s), Len(s)) BY DEF Inv, Shape, NewTop
    <3>2. Len(s) \in Nat /\ t[Len(s)] = f /\ Len(t) = Len(s) BY DEF NewTop
    <3> QED BY <1>1, <2>1, <3>1, <3>2 DEF FrameOK, Holding, Ids
  <2>3. ASSUME NEW q \in Procs, NEW n \in DOMAIN stack'[q], q # p \/ n # Len(s)
        PROVE  FrameOK(stack[q][n], n, Len(stack[q]))'
    BY <2>3, Stays DEF Inv, Shape, FrameOK, Ids
  <2> QED BY <2>2, <2>3 DEF Shape, NewTop
<1>5. \A q \in Procs : \A n \in DOMAIN stack'[q] : stack'[q][n].at \in Holding =>
          n \in DOMAIN stack[q] /\ stack[q][n] = stack'[q][n]
  <2> SUFFICES ASSUME NEW q \in Procs, NEW n \in DOMAIN stack'[q], stack'[q][n].at \in Holding
               PROVE  n \in DOMAIN stack[q] /\ stack[q][n] = stack'[q][n]
    OBVIOUS
  <2>1. q # p \/ n # Len(s) BY <1>1 DEF NewTop
  <2> QED BY <2>1, Stays
<1>6. HeldOnce'
  <2> SUFFICES ASSUME NEW q \in Procs, NEW r \in Procs,
                      NEW n \in DOMAIN stack'[q], NEW m \in DOMAIN stack'[r],
                      stack'[q][n].at \in Holding, stack'[r][m].at \in Holding,
                      stack'[q][n].id = stack'[r][m].id
               PROVE  q = r /\ n = m
    BY DEF HeldOnce
  <2> QED BY <1>5 DEF Inv, HeldOnce
<1>7. Newer'
  <2> SUFFICES ASSUME NEW q \in Procs, stack'[q] # <<>>, Top(q)'.key[1] \notin JoinTables,
                      NEW n \in DOMAIN stack'[q], stack'[q][n].at \in Holding
               PROVE  /\ Top(q)'.at \in {"load", "again", "store"} /\ Top(q)'.key \in DOMAIN cache =>
                            stack'[q][n].id < cache[Top(q)'.key]
                      /\ Top(q)'.at = "wait" => stack'[q][n].id < Top(q)'.id
    BY DEF Newer
  <2>1. n \in DOMAIN stack[q] /\ stack[q][n] = stack'[q][n] BY <1>5
  <2>2. CASE q = p
    <3>1. Top(p)' = f /\ stack[p] # <<>> BY DEF NewTop
    <3>2. Top(p).key[1] \notin JoinTables BY <1>1, <2>2, <3>1
    <3>3. Top(p).at \in {"load", "again", "store"} /\ Top(p).key \in DOMAIN cache =>
              s[n].id < cache[Top(p).key]
      BY <2>1, <2>2, <3>1, <3>2 DEF Inv, Newer
    <3> QED BY <2>1, <2>2, <3>1, <3>3 DEF Looking
  <2>3. CASE q # p BY <2>1, <2>3 DEF Inv, Newer, NewTop, Others
  <2> QED BY <2>2, <2>3
<1>8. FailedLeaves'
  <2>1. ~At(p, "delete") BY DEF At, Holding, Looking
  <2>2. \A q \in Procs : At(q, "delete") => At(q, "delete")' /\ Top(q)' = Top(q)
    BY <2>1 DEF At, NewTop, Others
  <2> QED BY <2>2 DEF Inv, FailedLeaves
<1> QED BY <1>2, <1>3, <1>4, <1>6, <1>7, <1>8 DEF Inv

(* A call has built its schema and stores it.                              *)
Storing(p, f, i, new) ==
    /\ Top(p).at = "store" /\ Top(p).key \notin DOMAIN cache
    /\ f.key = Top(p).key /\ f.at = "relate" /\ f.id = i
    /\ new \in Schema /\ new.key = f.key /\ ~new.initialized /\ ~new.err /\ new.refs = {}
    /\ i = Len(schemas) + 1 /\ schemas' = Append(schemas, new)
    /\ cache' = [k \in DOMAIN cache \cup {f.key} |-> IF k = f.key THEN i ELSE cache[k]]

LEMMA StoreKeeps ==
    ASSUME Inv, NEW p \in Procs, NEW f, NewTop(p, f), NEW i, NEW new, Storing(p, f, i, new),
           UNCHANGED <<world, calls, returned>>
    PROVE  Inv'
<1> DEFINE s == stack[p]
           t == stack'[p]
<1>1. /\ Ids' = Ids \cup {i} /\ i \notin Ids /\ \A j \in Ids : j \in Nat /\ j < i /\ schemas'[j] = schemas[j]
      /\ schemas' \in Seq(Schema) /\ schemas'[i] = new
  <2>1. schemas \in Seq(Schema) /\ new \in Schema /\ schemas' = Append(schemas, new)
        /\ i = Len(schemas) + 1
    BY DEF Inv, TypeOK, Storing
  <2>2. /\ Len(schemas) \in Nat /\ Ids = 1..Len(schemas)
        /\ Len(schemas') = i /\ Ids' = 1..i /\ schemas' \in Seq(Schema)
    BY <2>1, LenProperties, AppendProperties DEF Ids
  <2>3. schemas'[i] = new /\ \A j \in 1..Len(schemas) : schemas'[j] = schemas[j]
    BY <2>1, <2>2, AppendProperties
  <2> QED BY <2>1, <2>2, <2>3
<1>2. /\ f.key \in Keys /\ f.key \notin DOMAIN cache
      /\ DOMAIN cache' = DOMAIN cache \cup {f.key} /\ cache'[f.key] = i
      /\ \A k \in DOMAIN cache : cache'[k] = cache[k] /\ cache[k] \in Ids /\ schemas[cache[k]].key = k
  BY DEF Storing, NewTop, Frame, Inv, TypeOK
<1>3. f.at = "relate" /\ f.id = i /\ f.key = Top(p).key /\ new.key = f.key
      /\ ~new.initialized /\ ~new.err /\ new.refs = {}
  BY DEF Storing
<1>4. TypeOK'
  <2>1. DOMAIN cache' \subseteq Keys BY <1>2 DEF Inv, TypeOK
  <2>2. \A k \in DOMAIN cache' : cache'[k] \in Ids' /\ schemas'[cache'[k]].key = k
    BY <1>1, <1>2, <1>3
  <2> QED BY <1>1, <2>1, <2>2 DEF Inv, TypeOK, NewTop
<1>5. RefsInIds' BY <1>1, <1>3 DEF Inv, RefsInIds
<1>6. ReturnedComplete' BY <1>1 DEF Inv, ReturnedComplete, TypeOK
<1>7. AllGood' BY <1>1, <1>2, <1>3 DEF Inv, AllGood
<1>8. ASSUME NEW q \in Procs, NEW n \in DOMAIN stack'[q], q # p \/ n # Len(s)
      PROVE  /\ n \in DOMAIN stack[q] /\ stack'[q][n] = stack[q][n]
             /\ stack[q][n].at \in Holding => stack[q][n].id \in Ids
             /\ FrameOK(stack[q][n], n, Len(stack[q]))'
  <2>1. n \in DOMAIN stack[q] /\ stack'[q][n] = stack[q][n] /\ Len(stack'[q]) = Len(stack[q])
    BY <1>8, Stays
  <2>2. FrameOK(stack[q][n], n, Len(stack[q])) BY <2>1 DEF Inv, Shape
  <2>3. FrameOK(stack[q][n], n, Len(stack[q]))'
    BY <1>1, <1>2, <2>1, <2>2 DEF FrameOK, Holding
  <2> QED BY <2>1, <2>2, <2>3 DEF FrameOK, Holding
<1>9. Shape'
  <2>1. FrameOK(Top(p), Len(s), Len(s)) BY DEF Inv, Shape, NewTop
  <2>2. FrameOK(f, Len(s), Len(s))'
    BY <1>1, <1>2, <1>3, <2>1 DEF FrameOK, Holding, NewTop
  <2> QED BY <1>8, <2>2 DEF Shape, NewTop
<1>10. HeldOnce'
  <2> SUFFICES ASSUME NEW q \in Procs, NEW r \in Procs,
                      NEW n \in DOMAIN stack'[q], NEW m \in DOMAIN stack'[r],
                      stack'[q][n].at \in Holding, stack'[r][m].at \in Holding,
                      stack'[q][n].id = stack'[r][m].id
               PROVE  q = r /\ n = m
    BY DEF HeldOnce
  <2>1. t[Len(s)].id \notin Ids BY <1>1, <1>3 DEF NewTop
  <2>2. CASE q = p /\ n = Len(s) BY <1>8, <2>1, <2>2
  <2>3. CASE r = p /\ m = Len(s) BY <1>8, <2>1, <2>3
  <2>4. CASE (q # p \/ n # Len(s)) /\ (r # p \/ m # Len(s))
    BY <1>8, <2>4 DEF Inv, HeldOnce
  <2> QED BY <2>2, <2>3, <2>4
<1>11. Newer'
  <2> SUFFICES ASSUME NEW q \in Procs, stack'[q] # <<>>, Top(q)'.key[1] \notin JoinTables,
                      NEW n \in DOMAIN stack'[q], stack'[q][n].at \in Holding
               PROVE  /\ Top(q)'.at \in {"load", "again", "store"} /\ Top(q)'.key \in DOMAIN cache' =>
                            stack'[q][n].id < cache'[Top(q)'.key]
                      /\ Top(q)'.at = "wait" => stack'[q][n].id < Top(q)'.id
    BY DEF Newer
  <2>1. CASE q = p BY <1>3, <2>1 DEF NewTop
  <2>2. CASE q # p
    <3>1. stack'[q] = stack[q] /\ Top(q)' = Top(q) BY <2>2 DEF NewTop, Others
    <3>2. stack[q][n].id \in Ids BY <1>8, <2>2, <3>1
    <3>3. /\ Top(q).at \in {"load", "again", "store"} /\ Top(q).key \in DOMAIN cache =>
                  stack[q][n].id < cache[Top(q).key]
          /\ Top(q).at = "wait" => stack[q][n].id < Top(q).id
      BY <3>1 DEF Inv, Newer
    <3> QED BY <1>1, <1>2, <3>1, <3>2, <3>3
  <2> QED BY <2>1, <2>2
<1>12. FailedLeaves'
  <2>1. ~At(p, "delete") BY DEF At, Storing
  <2>2. \A q \in Procs : At(q, "delete") => At(q, "delete")' /\ Top(q)' = Top(q)
    BY <2>1 DEF At, NewTop, Others
  <2>3. ASSUME NEW y \in Types, Plain(y) \in DOMAIN cache', schemas'[cache'[Plain(y)]].err
        PROVE  Plain(y) \in DOMAIN cache /\ cache'[Plain(y)] = cache[Plain(y)]
               /\ schemas[cache[Plain(y)]].err
    BY <1>1, <1>2, <1>3, <2>3
  <2> QED BY <2>2, <2>3 DEF Inv, FailedLeaves, Plain
<1> QED BY <1>4, <1>5, <1>6, <1>7, <1>9, <1>10, <1>11, <1>12 DEF Inv

(* A relation calls back into the parser.                                  *)
PushTop(p, f) ==
    /\ stack' \in [Procs -> Seq(Frame)] /\ Others(p) /\ f \in Frame
    /\ Len(stack[p]) \in Nat /\ DOMAIN stack[p] = 1..Len(stack[p])
    /\ stack[p] # <<>> /\ stack'[p] # <<>> /\ Len(stack[p]) > 0 /\ Top(p) = stack[p][Len(stack[p])]
    /\ Len(stack'[p]) = Len(stack[p]) + 1 /\ DOMAIN stack'[p] = 1..Len(stack[p]) + 1
    /\ \A n \in 1..Len(stack[p]) : stack'[p][n] = stack[p][n]
    /\ stack'[p][Len(stack[p]) + 1] = f /\ Top(p)' = f

LEMMA PushTopIs ==
    ASSUME TypeOK, NEW p \in Procs, stack[p] # <<>>, NEW f \in Frame,
           stack' = [stack EXCEPT ![p] = Append(@, f)]
    PROVE  PushTop(p, f)
<1> DEFINE s == stack[p]
           t == stack'[p]
<1>1. s \in Seq(Frame) BY DEF TypeOK
<1>2. PushedOn(s, f, t)
  <2>1. t = Append(s, f) BY DEF TypeOK
  <2> QED BY <1>1, <2>1, Pushed
<1>3. stack' \in [Procs -> Seq(Frame)] BY <1>2 DEF TypeOK, PushedOn
<1>4. Others(p) BY DEF Others, TypeOK, Top
<1>5. Len(s) \in Nat /\ Len(s) > 0 /\ DOMAIN s = 1..Len(s) /\ Last(s) = s[Len(s)]
  BY <1>1, Split
<1>6. Top(p) = Last(s) /\ Top(p)' = Last(t) BY DEF Top
<1> QED BY <1>2, <1>3, <1>4, <1>5, <1>6 DEF PushTop, PushedOn

Relating(p, f) ==
    /\ Top(p).at = "relate" /\ Top(p).key[1] \notin JoinTables
    /\ f.key[2] = NoTable /\ f.at \in {"get", "load"}
    /\ f.at = "load" => f.key[1] \in JoinTables

LEMMA PushKeeps ==
    ASSUME Inv, NEW p \in Procs, NEW f, PushTop(p, f), Relating(p, f),
           UNCHANGED <<world, cache, schemas, calls, returned>>
    PROVE  Inv'
<1> DEFINE s == stack[p]
           t == stack'[p]
           top == Len(s) + 1
<1>1. TypeOK' BY DEF Inv, TypeOK, Ids, PushTop
<1>2. (RefsInIds /\ ReturnedComplete /\ AllGood)'
  BY DEF Inv, RefsInIds, ReturnedComplete, AllGood, Ids
<1>3. f.at \notin Holding /\ f.at # "delete" /\ f.at # "wait" /\ f.key[2] = NoTable
      /\ f.at # "relate"
  BY DEF Relating, Holding
<1>4. ASSUME NEW q \in Procs, NEW n \in DOMAIN stack'[q], q # p \/ n # top
      PROVE  n \in DOMAIN stack[q] /\ stack'[q][n] = stack[q][n]
  BY <1>4 DEF PushTop, Others
<1>5. Shape'
  <2>1. FrameOK(f, Len(s), Len(s))' BY <1>3 DEF FrameOK, PushTop
  <2>2. ASSUME NEW n \in 1..Len(s)
        PROVE  FrameOK(stack[p][n], n, Len(stack[p]))'
    <3>1. FrameOK(s[n], n, Len(s)) BY <2>2 DEF Inv, Shape, PushTop
    <3>2. s[n].at = "relate" /\ s[n].key[1] \notin JoinTables
      BY <2>2, <3>1 DEF FrameOK, Relating, PushTop
    <3>3. t[n] = s[n] /\ Len(t) \in Nat BY <2>2 DEF PushTop
    <3> QED BY <3>1, <3>2, <3>3 DEF FrameOK, Ids
  <2>3. ASSUME NEW q \in Procs, q # p, NEW n \in DOMAIN stack[q]
        PROVE  FrameOK(stack[q][n], n, Len(stack[q]))'
    <3>1. stack'[q] = stack[q] BY <2>3 DEF PushTop, Others
    <3>2. FrameOK(stack[q][n], n, Len(stack[q])) BY <2>3 DEF Inv, Shape
    <3> QED BY <3>1, <3>2 DEF FrameOK, Ids
  <2>4. ASSUME NEW q \in Procs, NEW n \in DOMAIN stack'[q]
        PROVE  FrameOK(stack[q][n], n, Len(stack[q]))'
    <3>1. CASE q = p /\ n = top BY <2>1, <3>1 DEF PushTop
    <3>2. CASE q = p /\ n # top
      <4>1. n \in 1..Len(s) BY <2>4, <3>2 DEF PushTop
      <4> QED BY <2>2, <3>2, <4>1 DEF PushTop
    <3>3. CASE q # p BY <2>3, <2>4, <3>3 DEF PushTop, Others
    <3> QED BY <3>1, <3>2, <3>3
  <2> QED BY <2>4 DEF Shape
<1>6. \A q \in Procs : \A n \in DOMAIN stack'[q] : stack'[q][n].at \in Holding =>
          n \in DOMAIN stack[q] /\ stack[q][n] = stack'[q][n]
  <2> SUFFICES ASSUME NEW q \in Procs, NEW n \in DOMAIN stack'[q], stack'[q][n].at \in Holding
               PROVE  n \in DOMAIN stack[q] /\ stack[q][n] = stack'[q][n]
    OBVIOUS
  <2>1. q # p \/ n # top BY <1>3 DEF PushTop
  <2> QED BY <1>4, <2>1
<1>7. HeldOnce'
  <2> SUFFICES ASSUME NEW q \in Procs, NEW r \in Procs,
                      NEW n \in DOMAIN stack'[q], NEW m \in DOMAIN stack'[r],
                      stack'[q][n].at \in Holding, stack'[r][m].at \in Holding,
                      stack'[q][n].id = stack'[r][m].id
               PROVE  q = r /\ n = m
    BY DEF HeldOnce
  <2> QED BY <1>6 DEF Inv, HeldOnce
<1>8. Newer'
  <2> SUFFICES ASSUME NEW q \in Procs, stack'[q] # <<>>, Top(q)'.key[1] \notin JoinTables,
                      NEW n \in DOMAIN stack'[q], stack'[q][n].at \in Holding
               PROVE  /\ Top(q)'.at \in {"load", "again", "store"} /\ Top(q)'.key \in DOMAIN cache =>
                            stack'[q][n].id < cache[Top(q)'.key]
                      /\ Top(q)'.at = "wait" => stack'[q][n].id < Top(q)'.id
    BY DEF Newer
  <2>1. CASE q = p BY <2>1 DEF PushTop, Relating
  <2>2. CASE q # p BY <1>6, <2>2 DEF Inv, Newer, PushTop, Others
  <2> QED BY <2>1, <2>2
<1>9. FailedLeaves'
  <2>1. ~At(p, "delete") BY DEF At, Relating
  <2>2. \A q \in Procs : At(q, "delete") => At(q, "delete")' /\ Top(q)' = Top(q)
    BY <2>1 DEF At, PushTop, Others
  <2> QED BY <2>2 DEF Inv, FailedLeaves
<1> QED BY <1>1, <1>2, <1>5, <1>7, <1>8, <1>9 DEF Inv

(* The last relation was parsed: the schema is complete or invalid.        *)
Ending(p, f, bad) ==
    /\ Top(p).at = "relate" /\ bad \in BOOLEAN /\ (world.bad = {} => ~bad)
    /\ f.key = Top(p).key /\ f.id = Top(p).id /\ f.at = IF bad THEN "delete" ELSE "close"
    /\ schemas' = [schemas EXCEPT ![f.id].err = bad]

LEMMA EndKeeps ==
    ASSUME Inv, NEW p \in Procs, NEW f, NewTop(p, f), NEW bad, Ending(p, f, bad),
           UNCHANGED <<world, cache, calls, returned>>
    PROVE  Inv'
<1> DEFINE s == stack[p]
           t == stack'[p]
<1>0. FrameOK(Top(p), Len(s), Len(s)) BY DEF Inv, Shape, NewTop
<1>1. f.key = Top(p).key /\ f.id = Top(p).id /\ bad \in BOOLEAN /\ Top(p).at = "relate"
      /\ f.at = (IF bad THEN "delete" ELSE "close") /\ (world.bad = {} => ~bad)
  BY DEF Ending
<1>2. f.id \in Ids /\ ~schemas[f.id].initialized BY <1>0, <1>1 DEF FrameOK, Holding
<1>3. /\ schemas' \in Seq(Schema) /\ Ids' = Ids
      /\ \A j \in Ids : /\ schemas'[j].key = schemas[j].key
                       /\ schemas'[j].initialized = schemas[j].initialized
                       /\ schemas'[j].refs = schemas[j].refs
                       /\ schemas'[j].err = IF j = f.id THEN bad ELSE schemas[j].err
  <2>1. schemas \in Seq(Schema) BY DEF Inv, TypeOK
  <2>2. schemas[f.id] \in Schema BY <1>2, <2>1, ElementOfSeq, LenProperties DEF Ids
  <2> DEFINE new == [schemas[f.id] EXCEPT !.err = bad]
  <2>3. /\ new \in Schema /\ new.key = schemas[f.id].key /\ new.err = bad
        /\ new.initialized = schemas[f.id].initialized /\ new.refs = schemas[f.id].refs
    BY <1>1, <2>2 DEF Schema
  <2>4. schemas' = [schemas EXCEPT ![f.id] = new] BY DEF Ending
  <2> HIDE DEF new
  <2>5. f.id \in 1..Len(schemas) /\ Ids = 1..Len(schemas) BY <1>2, <2>1, LenProperties DEF Ids
  <2>6. schemas' \in Seq(Schema) /\ Len(schemas') = Len(schemas)
        /\ \A j \in 1..Len(schemas) : schemas'[j] = IF j = f.id THEN new ELSE schemas[j]
    BY <2>1, <2>3, <2>4, <2>5, ExceptSeq
  <2>7. Ids' = 1..Len(schemas) BY <2>6, LenProperties DEF Ids
  <2> QED BY <2>3, <2>5, <2>6, <2>7
<1>4. TypeOK' BY <1>3 DEF Inv, TypeOK, NewTop
<1>5. RefsInIds' BY <1>3 DEF Inv, RefsInIds
<1>6. ReturnedComplete' BY <1>2, <1>3 DEF Inv, ReturnedComplete, TypeOK
<1>7. AllGood' BY <1>1, <1>3 DEF Inv, AllGood
<1>8. ASSUME NEW q \in Procs, NEW n \in DOMAIN stack'[q]
      PROVE  /\ n \in DOMAIN stack[q] /\ stack'[q][n].id = stack[q][n].id
             /\ stack'[q][n].at \in Holding <=> stack[q][n].at \in Holding
             /\ FrameOK(stack[q][n], n, Len(stack[q]))'
  <2>1. CASE q # p \/ n # Len(s)
    <3>1. n \in DOMAIN stack[q] /\ stack'[q][n] = stack[q][n] /\ Len(stack'[q]) = Len(stack[q])
      BY <1>8, <2>1, Stays
    <3>2. FrameOK(stack[q][n], n, Len(stack[q])) BY <3>1 DEF Inv, Shape
    <3>3. FrameOK(stack[q][n], n, Len(stack[q]))'
      BY <1>3, <3>1, <3>2 DEF FrameOK, Holding
    <3> QED BY <3>1, <3>3
  <2>2. CASE q = p /\ n = Len(s)
    <3>1. FrameOK(f, Len(s), Len(s))'
      BY <1>0, <1>1, <1>3 DEF FrameOK, Holding, NewTop
    <3>2. stack'[q][n] = f /\ stack[q][n] = Top(p) /\ n \in DOMAIN stack[q]
          /\ Len(stack'[q]) = Len(s)
      BY <2>2 DEF NewTop
    <3> QED BY <1>1, <2>2, <3>1, <3>2 DEF Holding
  <2> QED BY <2>1, <2>2
<1>9. Shape' BY <1>8 DEF Shape
<1>10. HeldOnce'
  <2> SUFFICES ASSUME NEW q \in Procs, NEW r \in Procs,
                      NEW n \in DOMAIN stack'[q], NEW m \in DOMAIN stack'[r],
                      stack'[q][n].at \in Holding, stack'[r][m].at \in Holding,
                      stack'[q][n].id = stack'[r][m].id
               PROVE  q = r /\ n = m
    BY DEF HeldOnce
  <2> QED BY <1>8 DEF Inv, HeldOnce
<1>11. Newer'
  <2> SUFFICES ASSUME NEW q \in Procs, stack'[q] # <<>>, Top(q)'.key[1] \notin JoinTables,
                      NEW n \in DOMAIN stack'[q], stack'[q][n].at \in Holding
               PROVE  /\ Top(q)'.at \in {"load", "again", "store"} /\ Top(q)'.key \in DOMAIN cache =>
                            stack'[q][n].id < cache[Top(q)'.key]
                      /\ Top(q)'.at = "wait" => stack'[q][n].id < Top(q)'.id
    BY DEF Newer
  <2>1. CASE q = p BY <1>1, <2>1 DEF NewTop
  <2>2. CASE q # p BY <1>8, <2>2 DEF Inv, Newer, NewTop, Others
  <2> QED BY <2>1, <2>2
<1>12. FailedLeaves'
  <2> SUFFICES ASSUME NEW y \in Types, Plain(y) \in DOMAIN cache, schemas'[cache[Plain(y)]].err
               PROVE  \E q \in Procs : At(q, "delete")' /\ Top(q)'.id = cache[Plain(y)]
    BY DEF FailedLeaves, Plain
  <2>1. cache[Plain(y)] \in Ids BY DEF Inv, TypeOK
  <2>2. CASE cache[Plain(y)] = f.id
    <3>1. f.at = "delete" BY <1>1, <1>3, <2>1, <2>2
    <3> QED BY <2>2, <3>1 DEF NewTop, At
  <2>3. CASE cache[Plain(y)] # f.id
    <3>1. schemas[cache[Plain(y)]].err BY <1>3, <2>1, <2>3
    <3>2. PICK q \in Procs : At(q, "delete") /\ Top(q).id = cache[Plain(y)]
      BY <3>1 DEF Inv, FailedLeaves
    <3>3. q # p BY <1>1, <3>2 DEF At
    <3> QED BY <3>2, <3>3 DEF At, NewTop, Others
  <2> QED BY <2>2, <2>3
<1> QED BY <1>4, <1>5, <1>6, <1>7, <1>9, <1>10, <1>11, <1>12 DEF Inv

(* The schema that failed is deleted.                                      *)
Deleting(p, f) ==
    /\ Top(p).at = "delete" /\ f.key = Top(p).key /\ f.id = Top(p).id /\ f.at = "close"
    /\ cache' = [k \in DOMAIN cache \ {Plain(Top(p).key[1])} |-> cache[k]]

LEMMA DeleteKeeps ==
    ASSUME Inv, NEW p \in Procs, NEW f, NewTop(p, f), Deleting(p, f),
           UNCHANGED <<world, schemas, calls, returned>>
    PROVE  Inv'
<1> DEFINE s == stack[p]
           t == stack'[p]
<1>0. FrameOK(Top(p), Len(s), Len(s)) BY DEF Inv, Shape, NewTop
<1>1. Top(p).at = "delete" /\ f.key = Top(p).key /\ f.id = Top(p).id /\ f.at = "close"
  BY DEF Deleting
<1>2. f.key \in Keys /\ f.id \in Ids /\ schemas[f.id].key = f.key /\ world.bad # {}
      /\ (world.tables = {} => f.key[2] = NoTable /\ f.key \in DOMAIN cache /\ cache[f.key] = f.id)
  BY <1>0, <1>1 DEF FrameOK, Holding, NewTop, Frame
<1>3. /\ \A k \in DOMAIN cache' : k \in DOMAIN cache /\ cache'[k] = cache[k] /\ k # Plain(f.key[1])
      /\ \A k \in DOMAIN cache : k # Plain(f.key[1]) => k \in DOMAIN cache' /\ cache'[k] = cache[k]
  BY <1>1 DEF Deleting
<1>4. TypeOK' BY <1>3 DEF Inv, TypeOK, NewTop, Ids
<1>5. (RefsInIds /\ ReturnedComplete)' BY DEF Inv, RefsInIds, ReturnedComplete, Ids
<1>6. AllGood' BY <1>2 DEF AllGood
<1>7. ASSUME NEW q \in Procs, NEW n \in DOMAIN stack'[q]
      PROVE  /\ n \in DOMAIN stack[q] /\ stack'[q][n].id = stack[q][n].id
             /\ stack'[q][n].at \in Holding <=> stack[q][n].at \in Holding
             /\ FrameOK(stack[q][n], n, Len(stack[q]))'
  <2>1. CASE q # p \/ n # Len(s)
    <3>1. n \in DOMAIN stack[q] /\ stack'[q][n] = stack[q][n] /\ Len(stack'[q]) = Len(stack[q])
      BY <1>7, <2>1, Stays
    <3>2. FrameOK(stack[q][n], n, Len(stack[q])) BY <3>1 DEF Inv, Shape
    <3>3. ASSUME world.tables = {}, stack[q][n].at \in {"relate", "delete"}
          PROVE  stack[q][n].key \in DOMAIN cache' /\ cache'[stack[q][n].key] = stack[q][n].id
      <4>1. stack[q][n].key \in DOMAIN cache /\ cache[stack[q][n].key] = stack[q][n].id
        BY <3>2, <3>3 DEF FrameOK
      <4>2. stack[q][n].id # f.id
        <5>1. s[Len(s)] = Top(p) /\ Len(s) \in DOMAIN s BY DEF NewTop
        <5> QED BY <1>1, <2>1, <3>1, <3>3, <5>1 DEF Inv, HeldOnce, Holding
      <4>3. f.key = Plain(f.key[1]) BY <1>2, <3>3 DEF Plain, Keys
      <4> QED BY <1>2, <1>3, <3>3, <4>1, <4>2, <4>3
    <3>4. FrameOK(stack[q][n], n, Len(stack[q]))'
      BY <3>1, <3>2, <3>3 DEF FrameOK, Ids
    <3> QED BY <3>1, <3>4
  <2>2. CASE q = p /\ n = Len(s)
    <3>1. FrameOK(f, Len(s), Len(s))'
      BY <1>0, <1>1 DEF FrameOK, Holding, NewTop, Ids
    <3>2. stack'[q][n] = f /\ stack[q][n] = Top(p) /\ n \in DOMAIN stack[q]
          /\ Len(stack'[q]) = Len(s)
      BY <2>2 DEF NewTop
    <3> QED BY <1>1, <2>2, <3>1, <3>2 DEF Holding
  <2> QED BY <2>1, <2>2
<1>8. Shape' BY <1>7 DEF Shape
<1>9. HeldOnce'
  <2> SUFFICES ASSUME NEW q \in Procs, NEW r \in Procs,
                      NEW n \in DOMAIN stack'[q], NEW m \in DOMAIN stack'[r],
                      stack'[q][n].at \in Holding, stack'[r][m].at \in Holding,
                      stack'[q][n].id = stack'[r][m].id
               PROVE  q = r /\ n = m
    BY DEF HeldOnce
  <2> QED BY <1>7 DEF Inv, HeldOnce
<1>10. Newer'
  <2> SUFFICES ASSUME NEW q \in Procs, stack'[q] # <<>>, Top(q)'.key[1] \notin JoinTables,
                      NEW n \in DOMAIN stack'[q], stack'[q][n].at \in Holding
               PROVE  /\ Top(q)'.at \in {"load", "again", "store"} /\ Top(q)'.key \in DOMAIN cache' =>
                            stack'[q][n].id < cache'[Top(q)'.key]
                      /\ Top(q)'.at = "wait" => stack'[q][n].id < Top(q)'.id
    BY DEF Newer
  <2>1. CASE q = p BY <1>1, <2>1 DEF NewTop
  <2>2. CASE q # p BY <1>3, <1>7, <2>2 DEF Inv, Newer, NewTop, Others
  <2> QED BY <2>1, <2>2
<1>11. FailedLeaves'
  <2> SUFFICES ASSUME NEW y \in Types, Plain(y) \in DOMAIN cache', schemas[cache'[Plain(y)]].err
               PROVE  \E q \in Procs : At(q, "delete")' /\ Top(q)'.id = cache'[Plain(y)]
    BY DEF FailedLeaves, Plain
  <2>1. Plain(y) \in DOMAIN cache /\ cache'[Plain(y)] = cache[Plain(y)] /\ Plain(y) # Plain(f.key[1])
        /\ schemas[cache[Plain(y)]].key = Plain(y)
    BY <1>3 DEF Inv, TypeOK
  <2>2. PICK q \in Procs : At(q, "delete") /\ Top(q).id = cache[Plain(y)]
    BY <2>1 DEF Inv, FailedLeaves
  <2>3. q # p
    <3> SUFFICES ASSUME q = p PROVE FALSE OBVIOUS
    <3>1. f.key = Plain(y) BY <1>1, <1>2, <2>1, <2>2
    <3> QED BY <2>1, <3>1 DEF Plain
  <2> QED BY <2>1, <2>2, <2>3 DEF At, NewTop, Others
<1> QED BY <1>4, <1>5, <1>6, <1>8, <1>9, <1>10, <1>11 DEF Inv

(* The innermost call of p returns schema i, to the call below, which gives*)
(* up on an error, or to a caller outside.                                 *)
PopTop(p, err) ==
    LET top == Len(stack[p])
    IN  /\ stack' \in [Procs -> Seq(Frame)] /\ Others(p)
        /\ stack[p] # <<>> /\ top \in Nat /\ top \in DOMAIN stack[p] /\ Top(p) = stack[p][top]
        /\ Len(stack'[p]) = top - 1 /\ DOMAIN stack'[p] = 1..top - 1
        /\ \A n \in DOMAIN stack'[p] :
              /\ n \in DOMAIN stack[p] /\ n # top /\ n < top
              /\ stack'[p][n].id = stack[p][n].id /\ stack'[p][n].key = stack[p][n].key
              /\ stack'[p][n].at = IF n = top - 1 /\ err THEN "delete" ELSE stack[p][n].at
        /\ stack'[p] # <<>> => top - 1 \in DOMAIN stack'[p] /\ Top(p)' = stack'[p][top - 1]

Returning(p, i, err) ==
    /\ Top(p).at \in {"get", "wait", "close"} /\ i \in Ids /\ err \in BOOLEAN
    /\ world.bad = {} => ~err
    /\ returned' = IF stack'[p] = <<>> /\ ~err THEN returned \cup {i} ELSE returned
    /\ stack'[p] = <<>> => schemas'[i].initialized /\ (~err => ~schemas[i].err)

SchemasNow(p, i, err) ==
    /\ schemas' \in Seq(Schema) /\ Ids' = Ids
    /\ \A j \in Ids :
          /\ schemas'[j].key = schemas[j].key
          /\ schemas'[j].refs \subseteq schemas[j].refs \cup {i}
          /\ schemas[j].initialized => schemas'[j].initialized
          /\ schemas'[j].initialized /\ ~schemas[j].initialized =>
                Top(p).at = "close" /\ j = Top(p).id
          /\ schemas'[j].err <=>
                (schemas[j].err \/ (err /\ stack'[p] # <<>> /\ j = Top(p)'.id))

LEMMA ReturnKeeps ==
    ASSUME Inv, NEW p \in Procs, NEW i, NEW err, PopTop(p, err), Returning(p, i, err),
           SchemasNow(p, i, err), UNCHANGED <<world, cache, calls>>
    PROVE  Inv'
<1> DEFINE s == stack[p]
           t == stack'[p]
           top == Len(s)
<1>1. TypeOK'
  <2>1. returned' \subseteq Ids BY DEF Returning, Inv, TypeOK
  <2> QED BY <2>1 DEF Inv, TypeOK, PopTop, SchemasNow
<1>2. RefsInIds' BY DEF Inv, RefsInIds, SchemasNow, Returning
<1>3. ASSUME NEW q \in Procs, NEW n \in DOMAIN stack'[q]
      PROVE  /\ n \in DOMAIN stack[q] /\ ~(q = p /\ n = top)
             /\ stack'[q][n].id = stack[q][n].id /\ stack'[q][n].key = stack[q][n].key
             /\ stack'[q][n].at \in Holding <=> stack[q][n].at \in Holding
             /\ FrameOK(stack[q][n], n, Len(stack[q]))
             /\ q = p => stack[q][n].at = "relate" /\ stack[q][n].key[1] \notin JoinTables
  <2>1. n \in DOMAIN stack[q] /\ ~(q = p /\ n = top) BY <1>3 DEF PopTop, Others
  <2>2. FrameOK(stack[q][n], n, Len(stack[q])) BY <2>1 DEF Inv, Shape
  <2>3. q = p => stack[q][n].at = "relate" /\ stack[q][n].key[1] \notin JoinTables
    BY <1>3, <2>2 DEF FrameOK, PopTop
  <2>4. q = p => stack'[q][n].at \in {"relate", "delete"} BY <1>3, <2>3 DEF PopTop
  <2>5. /\ stack'[q][n].id = stack[q][n].id /\ stack'[q][n].key = stack[q][n].key
        /\ stack'[q][n].at \in Holding <=> stack[q][n].at \in Holding
    BY <1>3, <2>3, <2>4 DEF PopTop, Others, Holding
  <2> QED BY <2>1, <2>2, <2>3, <2>5
<1>4. ASSUME NEW q \in Procs, NEW n \in DOMAIN stack'[q], stack[q][n].at \in Holding
      PROVE  stack[q][n].id \in Ids /\ ~schemas[stack[q][n].id].initialized
             /\ ~schemas'[stack[q][n].id].initialized
  <2>1. stack[q][n].id \in Ids /\ ~schemas[stack[q][n].id].initialized
    BY <1>3, <1>4 DEF FrameOK
  <2>2. CASE Top(p).at = "close"
    <3>1. stack[q][n].id # Top(p).id
      BY <1>3, <1>4, <2>2 DEF Inv, HeldOnce, PopTop, Holding
    <3> QED BY <2>1, <3>1 DEF SchemasNow
  <2>3. CASE Top(p).at # "close" BY <2>1, <2>3 DEF SchemasNow
  <2> QED BY <2>1, <2>2, <2>3
<1>5. t # <<>> => /\ top - 1 \in DOMAIN t /\ Top(p)' = t[top - 1]
                  /\ Top(p)'.id = s[top - 1].id
                  /\ Top(p)'.at \in {"relate", "delete"}
                  /\ err => Top(p)'.at = "delete"
                  /\ s[top - 1].at = "relate"
  BY <1>3 DEF PopTop
<1>6. Shape'
  <2> SUFFICES ASSUME NEW q \in Procs, NEW n \in DOMAIN stack'[q]
               PROVE  FrameOK(stack[q][n], n, Len(stack[q]))'
    BY DEF Shape
  <2>1. FrameOK(stack[q][n], n, Len(stack[q])) BY <1>3
  <2>2. CASE q # p
    <3>1. stack'[q] = stack[q] BY <2>2 DEF PopTop, Others
    <3> QED BY <1>4, <2>1, <3>1 DEF FrameOK, SchemasNow, Holding
  <2>3. CASE q = p /\ ~(n = top - 1 /\ err)
    <3>1. stack'[q][n].at = stack[q][n].at BY <2>3 DEF PopTop
    <3>2. stack[q][n].at = "relate" /\ stack[q][n].key[1] \notin JoinTables BY <1>3, <2>3
    <3> QED BY <1>3, <1>4, <2>1, <3>1, <3>2 DEF FrameOK, SchemasNow, Holding
  <2>4. CASE q = p /\ n = top - 1 /\ err
    <3>1. stack'[q][n].at = "delete" BY <2>4 DEF PopTop
    <3>2. stack[q][n].at = "relate" BY <1>3, <2>4
    <3>3. ~(n < Len(stack'[q])) BY <2>4 DEF PopTop
    <3>4. world.bad # {} BY <2>4 DEF Returning
    <3> QED BY <1>3, <1>4, <2>1, <3>1, <3>2, <3>3, <3>4 DEF FrameOK, SchemasNow, Holding
  <2> QED BY <2>2, <2>3, <2>4
<1>7. HeldOnce'
  <2> SUFFICES ASSUME NEW q \in Procs, NEW r \in Procs,
                      NEW n \in DOMAIN stack'[q], NEW m \in DOMAIN stack'[r],
                      stack'[q][n].at \in Holding, stack'[r][m].at \in Holding,
                      stack'[q][n].id = stack'[r][m].id
               PROVE  q = r /\ n = m
    BY DEF HeldOnce
  <2> QED BY <1>3 DEF Inv, HeldOnce
<1>8. Newer'
  <2> SUFFICES ASSUME NEW q \in Procs, stack'[q] # <<>>, Top(q)'.key[1] \notin JoinTables,
                      NEW n \in DOMAIN stack'[q], stack'[q][n].at \in Holding
               PROVE  /\ Top(q)'.at \in {"load", "again", "store"} /\ Top(q)'.key \in DOMAIN cache =>
                            stack'[q][n].id < cache[Top(q)'.key]
                      /\ Top(q)'.at = "wait" => stack'[q][n].id < Top(q)'.id
    BY DEF Newer
  <2>1. CASE q = p BY <1>5, <2>1
  <2>2. CASE q # p BY <2>2 DEF Inv, Newer, PopTop, Others
  <2> QED BY <2>1, <2>2
<1>9. ReturnedComplete'
  <2> SUFFICES ASSUME NEW j \in returned' PROVE schemas'[j].initialized /\ ~schemas'[j].err
    BY DEF ReturnedComplete
  <2>1. CASE j \in returned
    <3>1. j \in Ids /\ schemas[j].initialized /\ ~schemas[j].err
      BY <2>1 DEF Inv, TypeOK, ReturnedComplete
    <3>2. t # <<>> => j # Top(p)'.id BY <1>4, <1>5, <3>1 DEF Holding
    <3> QED BY <3>1, <3>2 DEF SchemasNow
  <2>2. CASE j \notin returned
    <3>1. j = i /\ t = <<>> /\ ~err BY <2>2 DEF Returning
    <3> QED BY <3>1 DEF Returning, SchemasNow
  <2> QED BY <2>1, <2>2
<1>10. AllGood' BY DEF Inv, AllGood, SchemasNow, Returning
<1>11. FailedLeaves'
  <2> SUFFICES ASSUME NEW y \in Types, Plain(y) \in DOMAIN cache, schemas'[cache[Plain(y)]].err
               PROVE  \E q \in Procs : At(q, "delete")' /\ Top(q)'.id = cache[Plain(y)]
    BY DEF FailedLeaves, Plain
  <2>1. cache[Plain(y)] \in Ids BY DEF Inv, TypeOK
  <2>2. CASE schemas[cache[Plain(y)]].err
    <3>1. PICK q \in Procs : At(q, "delete") /\ Top(q).id = cache[Plain(y)]
      BY <2>2 DEF Inv, FailedLeaves
    <3>2. q # p BY <3>1 DEF At, Returning
    <3> QED BY <3>1, <3>2 DEF At, PopTop, Others
  <2>3. CASE ~schemas[cache[Plain(y)]].err
    <3>1. err /\ t # <<>> /\ cache[Plain(y)] = Top(p)'.id BY <2>1, <2>3 DEF SchemasNow
    <3> QED BY <1>5, <3>1 DEF At
  <2> QED BY <2>2, <2>3
<1> QED BY <1>1, <1>2, <1>6, <1>7, <1>8, <1>9, <1>10, <1>11 DEF Inv

PopsIn(p, err, g) ==
    LET n == Len(stack[p]) - 1
    IN  /\ n # 0 /\ stack' = [stack EXCEPT ![p] = [Front(@) EXCEPT ![n] = g]]
        /\ g \in Frame /\ g.id = stack[p][n].id /\ g.key = stack[p][n].key
        /\ g.at = IF err THEN "delete" ELSE stack[p][n].at

LEMMA Above ==
    ASSUME NEW k \in Nat, k > 0, k # 1
    PROVE  k > 1 /\ k - 1 \in 1..k - 1 /\ k - 1 \in 1..k
  OBVIOUS

LEMMA NotAbove == ASSUME NEW k \in Nat, k > 0, k - 1 = 0 PROVE k = 1
  OBVIOUS

LEMMA PopTopIs ==
    ASSUME TypeOK, NEW p \in Procs, stack[p] # <<>>, NEW err, NEW g,
           \/ Len(stack[p]) = 1 /\ stack' = [stack EXCEPT ![p] = <<>>]
           \/ PopsIn(p, err, g)
    PROVE  PopTop(p, err) /\ (stack'[p] = <<>> <=> Len(stack[p]) = 1)
<1> DEFINE s == stack[p]
           t == stack'[p]
           top == Len(s)
<1>1. s \in Seq(Frame) BY DEF TypeOK
<1>2. top \in Nat /\ top > 0 /\ DOMAIN s = 1..top /\ Top(p) = s[top]
      /\ Front(s) \in Seq(Frame) /\ Len(Front(s)) = top - 1
      /\ \A n \in 1..top - 1 : Front(s)[n] = s[n]
  BY <1>1, Split DEF Top
<1>4. CASE top = 1 /\ stack' = [stack EXCEPT ![p] = <<>>]
  <2>1. Others(p) BY <1>4 DEF Others, TypeOK, Top
  <2>2. t = <<>> /\ stack' \in [Procs -> Seq(Frame)] /\ Len(t) = 0 /\ DOMAIN t = {}
    BY <1>4, EmptySeq DEF TypeOK
  <2> QED BY <1>2, <1>4, <2>1, <2>2 DEF PopTop
<1>5. CASE PopsIn(p, err, g)
  <2>1. /\ stack' = [stack EXCEPT ![p] = [Front(s) EXCEPT ![top - 1] = g]] /\ top # 1
        /\ g \in Frame /\ g.id = s[top - 1].id /\ g.key = s[top - 1].key
        /\ g.at = IF err THEN "delete" ELSE s[top - 1].at
    BY <1>2, <1>5 DEF PopsIn
  <2>2. t = ChangedBelow(s, g) BY <2>1 DEF TypeOK, ChangedBelow
  <2>3. PoppedTo(s, g, t)
    <3>1. top \in Nat /\ top > 0 BY <1>2
    <3>2. top # 1 /\ g \in Frame BY <2>1
    <3>3. top > 1 BY <3>1, <3>2, Above
    <3> QED BY <1>1, <2>2, <3>2, <3>3, Popped
  <2>4. stack' \in [Procs -> Seq(Frame)] BY <2>1, <2>2, <2>3 DEF TypeOK, PoppedTo
  <2>5. t # <<>> /\ Len(t) = top - 1 /\ DOMAIN t = 1..top - 1 /\ t[top - 1] = g /\ Last(t) = g
        /\ \A n \in 1..top - 2 : t[n] = s[n]
    BY <2>3 DEF PoppedTo
  <2>6. ASSUME NEW n \in DOMAIN t
        PROVE  /\ n \in DOMAIN s /\ n # top /\ n < top
               /\ t[n].id = s[n].id /\ t[n].key = s[n].key
               /\ t[n].at = IF n = top - 1 /\ err THEN "delete" ELSE s[n].at
    <3>0. n \in DOMAIN s /\ n # top /\ n < top BY <1>2, <2>5, <2>6
    <3>1. CASE n = top - 1 BY <2>1, <2>5, <3>0, <3>1
    <3>2. CASE n # top - 1
      <4>1. n \in 1..top - 2 BY <1>2, <2>5, <2>6, <3>2
      <4>2. t[n] = s[n] BY <2>5, <4>1
      <4> QED BY <3>0, <3>2, <4>2
    <3> QED BY <3>1, <3>2
  <2>7. top - 1 \in DOMAIN t /\ Top(p)' = t[top - 1] /\ top \in DOMAIN s
    BY <1>2, <2>1, <2>5 DEF Top
  <2>8. Others(p) BY <2>1 DEF Others, TypeOK, Top
  <2> QED BY <1>2, <2>1, <2>4, <2>5, <2>6, <2>7, <2>8 DEF PopTop
<1> QED BY <1>4, <1>5

(* What Return does, with the schemas that the action leaves it.           *)
AfterOK(p, i, after) ==
    /\ after \in Seq(Schema) /\ DOMAIN after = Ids
    /\ \A j \in Ids :
          /\ after[j].key = schemas[j].key /\ after[j].refs = schemas[j].refs
          /\ after[j].err = schemas[j].err
          /\ schemas[j].initialized => after[j].initialized
          /\ after[j].initialized /\ ~schemas[j].initialized =>
                Top(p).at = "close" /\ j = Top(p).id

Given(p, i, err, after) ==
    /\ stack[p] # <<>> /\ Top(p).at \in {"get", "wait", "close"}
    /\ i \in Ids /\ err \in BOOLEAN /\ AfterOK(p, i, after)
    /\ err => schemas[i].err
    /\ Len(stack[p]) = 1 => after[i].initialized /\ (~err => ~schemas[i].err)
    /\ Return(p, i, err, after)

LEMMA ReturnIs ==
    ASSUME Inv, NEW p \in Procs, NEW i, NEW err, NEW after, Given(p, i, err, after),
           UNCHANGED <<world, cache, calls>>
    PROVE  Inv'
<1> DEFINE s == stack[p]
           t == stack'[p]
           top == Len(s)
           below == Front(s)
           n == top - 1
           g == IF err THEN [below[n] EXCEPT !.at = "delete"]
                ELSE [below[n] EXCEPT !.next = below[n].next + 1]
<1>1. TypeOK /\ s \in Seq(Frame) /\ s # <<>> BY DEF Inv, TypeOK, Given
<1>2. top \in Nat /\ top > 0 /\ DOMAIN s = 1..top /\ Top(p) = s[top]
      /\ below \in Seq(Frame) /\ Len(below) = n
      /\ \A m \in 1..top - 1 : below[m] = s[m]
  BY <1>1, Split DEF Top
<1>3. world.bad = {} => ~err
  <2> SUFFICES ASSUME world.bad = {}, err PROVE FALSE OBVIOUS
  <2>1. i \in Ids /\ schemas[i].err BY DEF Given
  <2>2. ~schemas[i].err BY <2>1 DEF Inv, AllGood
  <2> QED BY <2>1, <2>2
<1>4. CASE top = 1
  <2>1. /\ stack' = [stack EXCEPT ![p] = <<>>] /\ schemas' = after
        /\ returned' = IF err THEN returned ELSE returned \cup {i}
    BY <1>2, <1>4 DEF Return, Given
  <2>2. Len(s) = 1 BY <1>2, <1>4
  <2>3. PopTop(p, err) /\ t = <<>> BY <1>1, <2>1, <2>2, PopTopIs
  <2>4. Returning(p, i, err) BY <1>3, <2>1, <2>2, <2>3 DEF Returning, Given
  <2>5. SchemasNow(p, i, err) BY <2>1, <2>3 DEF SchemasNow, AfterOK, Ids, Given
  <2> QED BY <2>3, <2>4, <2>5, ReturnKeeps
<1>5. CASE top # 1
  <2>0. n \in 1..top - 1 /\ n \in 1..top
    <3>1. top \in Nat /\ top > 0 BY <1>2
    <3> QED BY <1>5, <3>1, Above
  <2>1. below[n] = s[n] /\ n \in DOMAIN s /\ s[n] \in Frame
    BY <1>1, <1>2, <2>0, ElementOfSeq
  <2>2. FrameOK(s[n], n, top) BY <2>1 DEF Inv, Shape
  <2>3. s[n].id \in Ids BY <1>2, <2>2 DEF FrameOK, Holding
  <2>4. g \in Frame /\ g.id = s[n].id /\ g.key = s[n].key
        /\ g.at = IF err THEN "delete" ELSE s[n].at
    BY <2>1 DEF Frame, Places
  <2>5. Len(below) # 0 /\ Return(p, i, err, after) BY <1>2, <1>5, NotAbove DEF Given
  <2>6. /\ stack' = [stack EXCEPT ![p] = [below EXCEPT ![n] = g]]
        /\ schemas' = [after EXCEPT ![s[n].id] =
                          IF err THEN [after[s[n].id] EXCEPT !.err = TRUE]
                          ELSE [after[s[n].id] EXCEPT !.refs = after[s[n].id].refs \cup {i}]]
        /\ returned' = returned
    <3>1. CASE err
      <4>1. g = [below[n] EXCEPT !.at = "delete"] BY <3>1
      <4>2. [below EXCEPT ![n] = g] = [below EXCEPT ![n].at = "delete"] BY <4>1
      <4> QED BY <1>2, <2>1, <2>5, <3>1, <4>2 DEF Return
    <3>2. CASE ~err
      <4>1. g = [below[n] EXCEPT !.next = below[n].next + 1] BY <3>2
      <4>2. [below EXCEPT ![n] = g] = [below EXCEPT ![n].next = below[n].next + 1] BY <4>1
      <4> QED BY <1>2, <2>1, <2>5, <3>2, <4>2 DEF Return
    <3> QED BY <3>1, <3>2
  <2> HIDE DEF g
  <2>7. PopTop(p, err) /\ t # <<>>
    <3>1. PopsIn(p, err, g) BY <1>5, <2>1, <2>4, <2>6 DEF PopsIn
    <3>2. top # 1 BY <1>2, <1>5
    <3> QED BY <1>1, <3>1, <3>2, PopTopIs
  <2>8. Returning(p, i, err) BY <1>3, <2>6, <2>7 DEF Returning, Given
  <2>9. Top(p)'.id = s[n].id BY <1>2, <2>7 DEF PopTop
  <2>10. SchemasNow(p, i, err)
    <3> DEFINE c == s[n].id
               new == IF err THEN [after[c] EXCEPT !.err = TRUE]
                      ELSE [after[c] EXCEPT !.refs = after[c].refs \cup {i}]
    <3>1. after \in Seq(Schema) /\ Ids = 1..Len(after) /\ c \in 1..Len(after) /\ i \in Nat
      BY <2>3, LenProperties DEF AfterOK, Given
    <3>2. after[c] \in Schema BY <3>1, ElementOfSeq
    <3>3. /\ new \in Schema /\ new.key = after[c].key /\ new.initialized = after[c].initialized
          /\ new.err = (after[c].err \/ err) /\ new.refs \subseteq after[c].refs \cup {i}
      BY <3>1, <3>2 DEF Schema
    <3>4. schemas' = [after EXCEPT ![c] = new] BY <2>6
    <3> HIDE DEF new
    <3>5. schemas' \in Seq(Schema) /\ Len(schemas') = Len(after)
          /\ \A j \in 1..Len(after) : schemas'[j] = IF j = c THEN new ELSE after[j]
      BY <3>1, <3>3, <3>4, ExceptSeq
    <3>6. Ids' = Ids BY <3>1, <3>5, LenProperties DEF Ids
    <3>7. \A j \in Ids : j # c => schemas'[j] = after[j] BY <3>1, <3>5
    <3>8. schemas'[c] = new /\ c \in Ids BY <3>1, <3>5
    <3>9. c = Top(p)'.id /\ t # <<>> BY <2>7, <2>9
    <3>10. AfterOK(p, i, after) BY DEF Given
    <3>11. ASSUME NEW j \in Ids
           PROVE  /\ schemas'[j].key = after[j].key
                  /\ schemas'[j].refs \subseteq after[j].refs \cup {i}
                  /\ schemas'[j].initialized = after[j].initialized
                  /\ schemas'[j].err <=> (after[j].err \/ (err /\ j = c))
      <4>1. CASE j = c BY <3>3, <3>8, <4>1
      <4>2. CASE j # c
        <5>1. schemas'[j] = after[j] BY <3>7, <4>2
        <5> QED BY <4>2, <5>1
      <4> QED BY <4>1, <4>2
    <3>12. ASSUME NEW j \in Ids
           PROVE  /\ schemas'[j].key = schemas[j].key
                  /\ schemas'[j].refs \subseteq schemas[j].refs \cup {i}
                  /\ schemas[j].initialized => schemas'[j].initialized
                  /\ schemas'[j].initialized /\ ~schemas[j].initialized =>
                        Top(p).at = "close" /\ j = Top(p).id
                  /\ schemas'[j].err <=> (schemas[j].err \/ (err /\ j = c))
      BY <3>10, <3>11 DEF AfterOK
    <3> QED BY <3>5, <3>6, <3>9, <3>12 DEF SchemasNow
  <2> QED BY <2>7, <2>8, <2>10, ReturnKeeps
<1> QED BY <1>4, <1>5

(* A call from outside.                                                    *)
Entering(p, f) ==
    /\ stack' \in [Procs -> Seq(Frame)] /\ Others(p) /\ DOMAIN stack[p] = {}
    /\ Len(stack'[p]) = 1 /\ DOMAIN stack'[p] = {1} /\ stack'[p][1] = f /\ Top(p)' = f
    /\ f.at = "load" /\ (world.tables = {} => f.key[2] = NoTable) /\ calls' \in 0..MaxCalls

LEMMA EnterKeeps ==
    ASSUME Inv, NEW p \in Procs, NEW f, Entering(p, f), stack[p] = <<>>,
           UNCHANGED <<world, cache, schemas, returned>>
    PROVE  Inv'
<1>1. TypeOK' BY DEF Inv, TypeOK, Ids, Entering
<1>2. (RefsInIds /\ ReturnedComplete /\ AllGood)'
  BY DEF Inv, RefsInIds, ReturnedComplete, AllGood, Ids
<1>3. f.at \notin Holding /\ f.at = "load" /\ (world.tables = {} => f.key[2] = NoTable)
  BY DEF Entering, Holding
<1>4. ASSUME NEW q \in Procs, NEW n \in DOMAIN stack'[q]
      PROVE  \/ q = p /\ n = 1 /\ stack'[q][n] = f
             \/ q # p /\ stack'[q] = stack[q] /\ n \in DOMAIN stack[q]
  BY <1>4 DEF Entering, Others
<1>5. Shape'
  <2> SUFFICES ASSUME NEW q \in Procs, NEW n \in DOMAIN stack'[q]
               PROVE  FrameOK(stack[q][n], n, Len(stack[q]))'
    BY DEF Shape
  <2>1. CASE q = p
    <3>1. stack'[q][n] = f /\ n = 1 /\ Len(stack'[q]) = 1 BY <1>4, <2>1 DEF Entering
    <3> QED BY <1>3, <3>1 DEF FrameOK
  <2>2. CASE q # p
    <3>1. stack'[q] = stack[q] /\ n \in DOMAIN stack[q] BY <1>4, <2>2
    <3>2. FrameOK(stack[q][n], n, Len(stack[q])) BY <3>1 DEF Inv, Shape
    <3> QED BY <3>1, <3>2 DEF FrameOK, Ids
  <2> QED BY <2>1, <2>2
<1>6. \A q \in Procs : \A n \in DOMAIN stack'[q] : stack'[q][n].at \in Holding =>
          q # p /\ n \in DOMAIN stack[q] /\ stack[q][n] = stack'[q][n]
  BY <1>3, <1>4
<1>7. HeldOnce'
  <2> SUFFICES ASSUME NEW q \in Procs, NEW r \in Procs,
                      NEW n \in DOMAIN stack'[q], NEW m \in DOMAIN stack'[r],
                      stack'[q][n].at \in Holding, stack'[r][m].at \in Holding,
                      stack'[q][n].id = stack'[r][m].id
               PROVE  q = r /\ n = m
    BY DEF HeldOnce
  <2> QED BY <1>6 DEF Inv, HeldOnce
<1>8. Newer'
  <2> SUFFICES ASSUME NEW q \in Procs, stack'[q] # <<>>, Top(q)'.key[1] \notin JoinTables,
                      NEW n \in DOMAIN stack'[q], stack'[q][n].at \in Holding
               PROVE  /\ Top(q)'.at \in {"load", "again", "store"} /\ Top(q)'.key \in DOMAIN cache =>
                            stack'[q][n].id < cache[Top(q)'.key]
                      /\ Top(q)'.at = "wait" => stack'[q][n].id < Top(q)'.id
    BY DEF Newer
  <2> QED BY <1>6 DEF Inv, Newer, Entering, Others
<1>9. FailedLeaves'
  <2>1. ~At(p, "delete") BY DEF At
  <2>2. \A q \in Procs : At(q, "delete") => At(q, "delete")' /\ Top(q)' = Top(q)
    BY <2>1 DEF At, Entering, Others
  <2> QED BY <2>2 DEF Inv, FailedLeaves
<1> QED BY <1>1, <1>2, <1>5, <1>7, <1>8, <1>9 DEF Inv

-----------------------------------------------------------------------------
(* The actions.                                                            *)

LEMMA TopFacts ==
    ASSUME Inv, NEW p \in Procs, stack[p] # <<>>
    PROVE  /\ Top(p) \in Frame /\ FrameOK(Top(p), Len(stack[p]), Len(stack[p]))
           /\ Len(stack[p]) \in Nat /\ TypeOK
<1>1. stack[p] \in Seq(Frame) /\ TypeOK BY DEF Inv, TypeOK
<1>2. Len(stack[p]) \in DOMAIN stack[p] /\ Top(p) = stack[p][Len(stack[p])] /\ Top(p) \in Frame
      /\ Len(stack[p]) \in Nat
  BY <1>1, Split DEF Top
<1> QED BY <1>1, <1>2 DEF Inv, Shape

Moved(p, at)   == [Top(p) EXCEPT !.at = at]
Waiting(p, i)  == [Top(p) EXCEPT !.at = "wait", !.id = i]

LEMMA GoToIs ==
    ASSUME Inv, NEW p \in Procs, stack[p] # <<>>, NEW at \in Places, GoTo(p, at)
    PROVE  /\ NewTop(p, Moved(p, at)) /\ Moved(p, at).at = at
           /\ Moved(p, at).key = Top(p).key /\ Moved(p, at).id = Top(p).id
<1>1. Top(p) \in Frame /\ TypeOK BY TopFacts
<1>2. /\ Moved(p, at) \in Frame /\ Moved(p, at).at = at
      /\ Moved(p, at).key = Top(p).key /\ Moved(p, at).id = Top(p).id
  BY <1>1 DEF Moved, Frame
<1>3. stack' = [stack EXCEPT ![p] = Front(@) \o <<Moved(p, at)>>] BY DEF GoTo, Moved, Top
<1> QED BY <1>1, <1>2, <1>3, NewTopIs

LEMMA WaitForIs ==
    ASSUME Inv, NEW p \in Procs, stack[p] # <<>>, NEW i \in Nat, WaitFor(p, i)
    PROVE  /\ NewTop(p, Waiting(p, i)) /\ Waiting(p, i).at = "wait"
           /\ Waiting(p, i).key = Top(p).key /\ Waiting(p, i).id = i
<1>1. Top(p) \in Frame /\ TypeOK BY TopFacts
<1>2. /\ Waiting(p, i) \in Frame /\ Waiting(p, i).at = "wait"
      /\ Waiting(p, i).key = Top(p).key /\ Waiting(p, i).id = i
  BY <1>1 DEF Waiting, Frame, Places
<1>3. stack' = [stack EXCEPT ![p] = Front(@) \o <<Waiting(p, i)>>] BY DEF WaitFor, Waiting, Top
<1> QED BY <1>1, <1>2, <1>3, NewTopIs

LEMMA Cached ==
    ASSUME Inv, NEW k \in DOMAIN cache
    PROVE  cache[k] \in Ids /\ cache[k] \in Nat /\ schemas[cache[k]].key = k
<1>1. schemas \in Seq(Schema) /\ cache[k] \in Ids /\ schemas[cache[k]].key = k
  BY DEF Inv, TypeOK
<1> QED BY <1>1, LenProperties DEF Ids

LEMMA CallKeeps ==
    ASSUME Inv, NEW p \in Procs, NEW key \in Keys, Call(p, key) PROVE Inv'
<1> DEFINE f == Entered(key, "load")
<1>1. f \in Frame /\ f.at = "load" /\ f.key = key BY DEF Entered, Frame, Places
<1>2. stack[p] = <<>> /\ stack' = [stack EXCEPT ![p] = <<f>>] /\ stack \in [Procs -> Seq(Frame)]
  BY DEF Call, Inv, TypeOK
<1> HIDE DEF f
<1>3. <<f>> \in Seq(Frame) /\ Len(<<f>>) = 1 /\ DOMAIN <<f>> = {1} /\ Last(<<f>>) = f
      /\ <<f>>[1] = f
  BY <1>1 DEF Last
<1>4. stack' \in [Procs -> Seq(Frame)] /\ stack'[p] = <<f>> BY <1>2, <1>3
<1>5. Others(p) BY <1>2 DEF Others, Top
<1>6. DOMAIN stack[p] = {} BY <1>2
<1>7. calls' \in 0..MaxCalls BY CallsAssumption DEF Call, Inv, TypeOK
<1>8. world.tables = {} => f.key[2] = NoTable BY <1>1 DEF Call
<1>9. Entering(p, f) BY <1>1, <1>3, <1>4, <1>5, <1>6, <1>7, <1>8 DEF Entering, Top
<1> QED BY <1>2, <1>9, EnterKeeps DEF Call


LEMMA GetKeeps == ASSUME Inv, NEW p \in Procs, Get(p) PROVE Inv'
<1>1. At(p, "get") /\ stack[p] # <<>> /\ Top(p).at = "get" BY DEF Get, At
<1>2. Top(p) \in Frame /\ FrameOK(Top(p), Len(stack[p]), Len(stack[p])) /\ Len(stack[p]) \in Nat
  BY <1>1, TopFacts
<1>3. CASE Top(p).key \in DOMAIN cache
  <2> DEFINE i == cache[Top(p).key]
  <2>1. i \in Ids BY <1>3, Cached
  <2>2. AfterOK(p, i, schemas) BY DEF AfterOK, Ids, Inv, TypeOK
  <2>3. Len(stack[p]) # 1 BY <1>1, <1>2 DEF FrameOK
  <2>4. Return(p, i, FALSE, schemas) /\ UNCHANGED <<world, cache, calls>> BY <1>3 DEF Get
  <2> HIDE DEF i
  <2>5. Given(p, i, FALSE, schemas) BY <1>1, <2>1, <2>2, <2>3, <2>4 DEF Given
  <2> QED BY <2>4, <2>5, ReturnIs
<1>4. CASE Top(p).key \notin DOMAIN cache
  <2>1. GoTo(p, "load") /\ UNCHANGED <<world, cache, schemas, calls, returned>>
    BY <1>4 DEF Get
  <2>2. "load" \in Places BY DEF Places
  <2>3. Looking(p, Moved(p, "load"))
    BY <1>1, <1>4, <2>1, <2>2, GoToIs DEF Looking, Places, Holding
  <2> QED BY <1>1, <2>1, <2>2, <2>3, GoToIs, MoveKeeps
<1> QED BY <1>3, <1>4

LEMMA LoadKeeps == ASSUME Inv, NEW p \in Procs, Load(p) PROVE Inv'
<1>1. PICK a \in {"load", "again"} :
          /\ At(p, a)
          /\ IF Top(p).key \in DOMAIN cache THEN WaitFor(p, cache[Top(p).key])
             ELSE GoTo(p, IF a = "load" THEN "again" ELSE "store")
  BY DEF Load
<1>2. stack[p] # <<>> /\ Top(p).at = a BY <1>1 DEF At
<1>3. UNCHANGED <<world, cache, schemas, calls, returned>> BY DEF Load
<1>4. CASE Top(p).key \in DOMAIN cache
  <2>1. cache[Top(p).key] \in Nat /\ WaitFor(p, cache[Top(p).key]) BY <1>1, <1>4, Cached
  <2>2. /\ NewTop(p, Waiting(p, cache[Top(p).key]))
        /\ Waiting(p, cache[Top(p).key]).at = "wait"
        /\ Waiting(p, cache[Top(p).key]).key = Top(p).key
        /\ Waiting(p, cache[Top(p).key]).id = cache[Top(p).key]
    BY <1>2, <2>1, WaitForIs
  <2>3. Looking(p, Waiting(p, cache[Top(p).key]))
    BY <1>2, <1>4, <2>2 DEF Looking, Places, Holding
  <2> QED BY <1>3, <2>2, <2>3, MoveKeeps
<1>5. CASE Top(p).key \notin DOMAIN cache
  <2>1. PICK b \in {"again", "store"} : GoTo(p, b) BY <1>1, <1>5
  <2>2. b \in Places BY DEF Places
  <2>3. NewTop(p, Moved(p, b)) /\ Moved(p, b).at = b /\ Moved(p, b).key = Top(p).key
    BY <1>2, <2>1, <2>2, GoToIs
  <2>4. Looking(p, Moved(p, b)) BY <1>2, <1>5, <2>3 DEF Looking, Places, Holding
  <2> QED BY <1>3, <2>3, <2>4, MoveKeeps
<1> QED BY <1>4, <1>5

LEMMA StoringKeeps == ASSUME Inv, NEW p \in Procs, Store(p) PROVE Inv'
<1>1. stack[p] # <<>> /\ Top(p).at = "store" /\ UNCHANGED <<world, calls, returned>>
  BY DEF Store, At
<1>2. CASE Top(p).key \in DOMAIN cache
  <2>1. cache[Top(p).key] \in Nat /\ WaitFor(p, cache[Top(p).key])
        /\ UNCHANGED <<cache, schemas>>
    BY <1>2, Cached DEF Store
  <2>2. /\ NewTop(p, Waiting(p, cache[Top(p).key]))
        /\ Waiting(p, cache[Top(p).key]).at = "wait"
        /\ Waiting(p, cache[Top(p).key]).key = Top(p).key
        /\ Waiting(p, cache[Top(p).key]).id = cache[Top(p).key]
    BY <1>1, <2>1, WaitForIs
  <2>3. Looking(p, Waiting(p, cache[Top(p).key]))
    BY <1>1, <1>2, <2>2 DEF Looking, Places, Holding
  <2> QED BY <1>1, <2>1, <2>2, <2>3, MoveKeeps
<1>3. CASE Top(p).key \notin DOMAIN cache
  <2> DEFINE i   == Len(schemas) + 1
             new == [key |-> Top(p).key, initialized |-> FALSE, err |-> FALSE, refs |-> {}]
             f   == [Top(p) EXCEPT !.at = "relate", !.id = i]
  <2>1. Top(p) \in Frame /\ TypeOK BY <1>1, TopFacts
  <2>2. i \in Nat BY LenProperties DEF Inv, TypeOK
  <2>3. new \in Schema /\ new.key = Top(p).key /\ ~new.initialized /\ ~new.err /\ new.refs = {}
    BY <2>1 DEF Schema, Frame
  <2>4. f \in Frame /\ f.key = Top(p).key /\ f.at = "relate" /\ f.id = i
    BY <2>1, <2>2 DEF Frame, Places
  <2>5. /\ schemas' = Append(schemas, new)
        /\ cache' = [k \in DOMAIN cache \cup {Top(p).key} |->
                        IF k = Top(p).key THEN i ELSE cache[k]]
        /\ stack' = [stack EXCEPT ![p] = Front(@) \o <<f>>]
    BY <1>3 DEF Store, Top
  <2> HIDE DEF i, new, f
  <2>6. NewTop(p, f) BY <1>1, <2>1, <2>4, <2>5, NewTopIs
  <2>7. i = Len(schemas) + 1 BY DEF i
  <2>8. Storing(p, f, i, new) BY <1>1, <1>3, <2>3, <2>4, <2>5, <2>7 DEF Storing
  <2> QED BY <1>1, <2>6, <2>8, StoreKeeps
<1> QED BY <1>2, <1>3

LEMMA WaitedKeeps == ASSUME Inv, NEW p \in Procs, Waited(p) PROVE Inv'
<1> DEFINE i == Top(p).id
<1>1. stack[p] # <<>> /\ Top(p).at = "wait" BY DEF Waited, At
<1>2. FrameOK(Top(p), Len(stack[p]), Len(stack[p])) /\ TypeOK BY <1>1, TopFacts
<1>3. i \in Ids BY <1>1, <1>2 DEF FrameOK
<1>4. schemas[i].initialized /\ Return(p, i, schemas[i].err, schemas)
      /\ UNCHANGED <<world, cache, calls>>
  BY DEF Waited
<1>5. AfterOK(p, i, schemas) BY <1>2 DEF AfterOK, Ids, TypeOK
<1>6. schemas[i].err \in BOOLEAN
  <2>1. schemas[i] \in Schema BY <1>2, <1>3, ElementOfSeq, LenProperties DEF Ids, TypeOK
  <2> QED BY <2>1 DEF Schema
<1> HIDE DEF i
<1>7. Given(p, i, schemas[i].err, schemas)
  BY <1>1, <1>3, <1>4, <1>5, <1>6 DEF Given
<1> QED BY <1>4, <1>7, ReturnIs

LEMMA CloseKeeps == ASSUME Inv, NEW p \in Procs, Close(p) PROVE Inv'
<1> DEFINE i     == Top(p).id
           after == [schemas EXCEPT ![i].initialized = TRUE]
           new   == [schemas[i] EXCEPT !.initialized = TRUE]
<1>1. stack[p] # <<>> /\ Top(p).at = "close" BY DEF Close, At
<1>2. FrameOK(Top(p), Len(stack[p]), Len(stack[p])) /\ TypeOK BY <1>1, TopFacts
<1>3. i \in Ids BY <1>1, <1>2 DEF FrameOK, Holding
<1>4. Return(p, i, schemas[i].err, after) /\ UNCHANGED <<world, cache, calls>> BY DEF Close
<1>5. schemas[i] \in Schema /\ schemas \in Seq(Schema) /\ i \in 1..Len(schemas)
      /\ Ids = 1..Len(schemas)
  BY <1>2, <1>3, ElementOfSeq, LenProperties DEF Ids, TypeOK
<1>6. /\ new \in Schema /\ new.key = schemas[i].key /\ new.refs = schemas[i].refs
      /\ new.err = schemas[i].err /\ new.initialized
  BY <1>5 DEF Schema
<1>7. after = [schemas EXCEPT ![i] = new] OBVIOUS
<1>8. schemas[i].err \in BOOLEAN BY <1>5 DEF Schema
<1>9. i = Top(p).id OBVIOUS
<1> HIDE DEF i, after, new
<1>10. /\ after \in Seq(Schema) /\ Len(after) = Len(schemas)
       /\ \A j \in 1..Len(schemas) : after[j] = IF j = i THEN new ELSE schemas[j]
  BY <1>5, <1>6, <1>7, ExceptSeq
<1>11. DOMAIN after = Ids BY <1>5, <1>10, LenProperties
<1>12. after[i] = new /\ \A j \in Ids : j # i => after[j] = schemas[j] BY <1>5, <1>10
<1>13. AfterOK(p, i, after) BY <1>1, <1>6, <1>9, <1>10, <1>11, <1>12 DEF AfterOK
<1>14. Given(p, i, schemas[i].err, after)
  BY <1>1, <1>3, <1>4, <1>6, <1>8, <1>12, <1>13 DEF Given
<1> QED BY <1>4, <1>14, ReturnIs

LEMMA DeletingKeeps == ASSUME Inv, NEW p \in Procs, Delete(p) PROVE Inv'
<1>1. stack[p] # <<>> /\ Top(p).at = "delete" /\ GoTo(p, "close")
      /\ UNCHANGED <<world, schemas, calls, returned>>
      /\ cache' = [k \in DOMAIN cache \ {Plain(Top(p).key[1])} |-> cache[k]]
  BY DEF Delete, At
<1>2. "close" \in Places BY DEF Places
<1>3. NewTop(p, Moved(p, "close")) /\ Moved(p, "close").at = "close"
      /\ Moved(p, "close").key = Top(p).key /\ Moved(p, "close").id = Top(p).id
  BY <1>1, <1>2, GoToIs
<1>4. Deleting(p, Moved(p, "close")) BY <1>1, <1>3 DEF Deleting
<1> QED BY <1>1, <1>3, <1>4, DeleteKeeps

LEMMA RelateKeeps == ASSUME Inv, NEW p \in Procs, Relate(p) PROVE Inv'
<1> DEFINE t    == Top(p).key[1]
           rels == world.relations[t]
           n    == Top(p).next
<1>1. stack[p] # <<>> /\ Top(p).at = "relate" /\ UNCHANGED <<world, cache, calls, returned>>
  BY DEF Relate, At
<1>2. Top(p) \in Frame /\ TypeOK BY <1>1, TopFacts
<1>3. t \in Types /\ n \in Nat \ {0} BY <1>2 DEF Frame, Keys
<1>4. world \in World /\ world \in Worlds BY <1>2, TypesAssumption DEF TypeOK
<1>5. rels \in Seq(Types) BY <1>3, <1>4 DEF World
<1>6. CASE n \leq Len(rels)
  <2> DEFINE to == rels[n]
             at == IF to \in JoinTables THEN "load" ELSE "get"
             f  == Entered(Plain(to), at)
  <2>1. to \in Types BY <1>3, <1>5, <1>6, ElementOfSeq, LenProperties
  <2>2. t \notin JoinTables
    <3> SUFFICES ASSUME t \in JoinTables PROVE FALSE OBVIOUS
    <3>1. rels = <<>> BY <1>4, TypesAssumption
    <3> QED BY <1>3, <1>6, <3>1
  <2>3. at \in {"load", "get"} /\ (at = "load" => to \in JoinTables) OBVIOUS
  <2>4. f.key[2] = NoTable /\ f.key[1] = to /\ f.at = at BY DEF Entered, Plain
  <2>5. f \in Frame BY <2>1, <2>3 DEF Entered, Plain, Frame, Places, Keys
  <2>6. stack' = [stack EXCEPT ![p] = Append(@, f)] /\ UNCHANGED schemas
    BY <1>6 DEF Relate
  <2> HIDE DEF to, at, f
  <2>7. PushTop(p, f) BY <1>1, <1>2, <2>5, <2>6, PushTopIs
  <2>8. Relating(p, f) BY <1>1, <2>2, <2>3, <2>4 DEF Relating
  <2> QED BY <1>1, <2>6, <2>7, <2>8, PushKeeps
<1>7. CASE ~(n \leq Len(rels))
  <2>1. /\ schemas' = [schemas EXCEPT ![Top(p).id].err = t \in world.bad]
        /\ GoTo(p, IF t \in world.bad THEN "delete" ELSE "close")
    BY <1>7 DEF Relate
  <2>2. CASE t \in world.bad
    <3>1. GoTo(p, "delete") /\ schemas' = [schemas EXCEPT ![Top(p).id].err = TRUE]
      BY <2>1, <2>2
    <3>2. "delete" \in Places BY DEF Places
    <3>3. NewTop(p, Moved(p, "delete")) /\ Moved(p, "delete").at = "delete"
          /\ Moved(p, "delete").key = Top(p).key /\ Moved(p, "delete").id = Top(p).id
      BY <1>1, <3>1, <3>2, GoToIs
    <3>4. world.bad # {} BY <2>2
    <3>5. Ending(p, Moved(p, "delete"), TRUE) BY <1>1, <3>1, <3>3, <3>4 DEF Ending
    <3> QED BY <1>1, <3>3, <3>5, EndKeeps
  <2>3. CASE t \notin world.bad
    <3>0. (t \in world.bad) = FALSE BY <2>3
    <3>1. GoTo(p, "close") /\ schemas' = [schemas EXCEPT ![Top(p).id].err = FALSE]
      <4>1. GoTo(p, "close") BY <2>1, <2>3
      <4>2. schemas' = [schemas EXCEPT ![Top(p).id].err = FALSE] BY <2>1, <3>0, Zenon
      <4> QED BY <4>1, <4>2
    <3>2. "close" \in Places BY DEF Places
    <3>3. NewTop(p, Moved(p, "close")) /\ Moved(p, "close").at = "close"
          /\ Moved(p, "close").key = Top(p).key /\ Moved(p, "close").id = Top(p).id
      BY <1>1, <3>1, <3>2, GoToIs
    <3>4. Ending(p, Moved(p, "close"), FALSE) BY <1>1, <3>1, <3>3 DEF Ending
    <3> QED BY <1>1, <3>3, <3>4, EndKeeps
  <2> QED BY <2>2, <2>3
<1> QED BY <1>6, <1>7

LEMMA InitInv == Init => Inv
<1> SUFFICES ASSUME Init PROVE Inv OBVIOUS
<1>1. schemas = <<>> /\ Ids = {} /\ cache = [k \in {} |-> 0] /\ DOMAIN cache = {} /\ returned = {}
  BY DEF Init, Ids
<1>2. \A p \in Procs : stack[p] = <<>> /\ DOMAIN stack[p] = {} BY DEF Init
<1>3. TypeOK
  <2>1. stack \in [Procs -> Seq(Frame)] BY DEF Init
  <2>2. 0 \in 0..MaxCalls BY CallsAssumption
  <2> QED BY <1>1, <2>1, <2>2 DEF Init, TypeOK
<1> QED BY <1>1, <1>2, <1>3 DEF Inv, RefsInIds, Shape, HeldOnce, Newer, ReturnedComplete,
                               AllGood, FailedLeaves

LEMMA NextInv == Inv /\ [Next]_vars => Inv'
<1> SUFFICES ASSUME Inv, [Next]_vars PROVE Inv' OBVIOUS
<1>1. CASE UNCHANGED vars
  BY <1>1 DEF vars, Inv, TypeOK, RefsInIds, Shape, FrameOK, HeldOnce, Newer, ReturnedComplete,
              AllGood, FailedLeaves, Ids, At, Top
<1>2. ASSUME NEW p \in Procs, Step(p) PROVE Inv'
  <2>1. CASE Get(p)    BY <2>1, GetKeeps
  <2>2. CASE Load(p)   BY <2>2, LoadKeeps
  <2>3. CASE Store(p)  BY <2>3, StoringKeeps
  <2>4. CASE Waited(p) BY <2>4, WaitedKeeps
  <2>5. CASE Relate(p) BY <2>5, RelateKeeps
  <2>6. CASE Delete(p) BY <2>6, DeletingKeeps
  <2>7. CASE Close(p)  BY <2>7, CloseKeeps
  <2> QED BY <1>2, <2>1, <2>2, <2>3, <2>4, <2>5, <2>6, <2>7 DEF Step
<1>3. ASSUME NEW p \in Procs, NEW key \in Keys, Call(p, key) PROVE Inv' BY <1>3, CallKeeps
<1> QED BY <1>1, <1>2, <1>3 DEF Next

-----------------------------------------------------------------------------
(* Of finitely many schemas one is the youngest.                           *)
LEMMA Youngest ==
    ASSUME NEW k \in Nat, NEW T, T \subseteq 1..k, T # {}
    PROVE  \E x \in T : \A y \in T : y \leq x
<1> DEFINE D == {k - x : x \in T}
           R == {ss \in Nat \X Nat : ss[1] < ss[2]}
<1>1. D \subseteq Nat /\ D # {}
  <2>1. ASSUME NEW x \in T PROVE k - x \in Nat OBVIOUS
  <2>2. PICK x \in T : TRUE OBVIOUS
  <2>3. k - x \in D OBVIOUS
  <2> QED BY <2>1, <2>3
<1>2. \E d \in D : \A e \in D : <<e, d>> \notin R
  <2>1. IsWellFoundedOn(R, Nat) BY NatLessThanWellFounded DEF OpToRel
  <2> HIDE DEF D, R
  <2> QED BY <1>1, <2>1, WFMin
<1>3. PICK d \in D : \A e \in D : ~(e < d) BY <1>1, <1>2
<1>4. PICK x \in T : d = k - x BY <1>3
<1>5. ASSUME NEW y \in T PROVE y \leq x
  <2>1. k - y \in D OBVIOUS
  <2>2. ~(k - y < k - x) BY <1>3, <1>4, <2>1
  <2>3. x \in Int /\ y \in Int OBVIOUS
  <2> QED BY <2>2, <2>3
<1> QED BY <1>5

(* Who holds the schema of a join table does not wait.                     *)
LEMMA HeldAt ==
    ASSUME Inv, NEW p \in Procs, NEW i, i \in Holds(p), At(p, "wait")
    PROVE  /\ i \in Ids /\ schemas[i].key[1] \notin JoinTables
           /\ Top(p).key[1] \notin JoinTables => i < Top(p).id
<1>1. PICK n \in DOMAIN stack[p] : stack[p][n].at \in Holding /\ stack[p][n].id = i
  BY DEF Holds, Holding
<1>2. stack[p] # <<>> /\ Top(p).at = "wait" BY DEF At
<1>3. stack[p] \in Seq(Frame) BY DEF Inv, TypeOK
<1>4. DOMAIN stack[p] = 1..Len(stack[p]) /\ Len(stack[p]) \in Nat
      /\ Top(p) = stack[p][Len(stack[p])]
  BY <1>2, <1>3, Split DEF Top
<1>5. n # Len(stack[p]) BY <1>1, <1>2, <1>4 DEF Holding
<1>6. n < Len(stack[p]) BY <1>4, <1>5
<1>7. FrameOK(stack[p][n], n, Len(stack[p])) BY DEF Inv, Shape
<1>8. i \in Ids /\ schemas[i].key[1] \notin JoinTables BY <1>1, <1>6, <1>7 DEF FrameOK
<1>9. Top(p).key[1] \notin JoinTables => i < Top(p).id BY <1>1, <1>2 DEF Inv, Newer
<1> QED BY <1>8, <1>9

LEMMA InvNoCircularWait == Inv => NoCircularWait
<1> SUFFICES ASSUME Inv, NEW S \in SUBSET Procs, S # {},
                    \A p \in S : At(p, "wait") /\ \E q \in S : Top(p).id \in Holds(q)
             PROVE  FALSE
  BY DEF NoCircularWait
<1> DEFINE T == {Top(p).id : p \in S}
<1>1. ASSUME NEW p \in S
      PROVE  /\ Top(p).id \in Ids /\ Top(p).key[1] \notin JoinTables
  <2>1. stack[p] # <<>> /\ Top(p).at = "wait" BY DEF At
  <2>2. FrameOK(Top(p), Len(stack[p]), Len(stack[p])) BY <2>1, TopFacts
  <2>3. Top(p).id \in Ids /\ schemas[Top(p).id].key = Top(p).key BY <2>1, <2>2 DEF FrameOK
  <2>4. PICK q \in S : Top(p).id \in Holds(q) OBVIOUS
  <2>5. schemas[Top(p).id].key[1] \notin JoinTables BY <2>4, HeldAt
  <2> QED BY <2>3, <2>5
<1>2. Ids = 1..Len(schemas) /\ Len(schemas) \in Nat
  BY LenProperties DEF Inv, TypeOK, Ids
<1>3. T \subseteq 1..Len(schemas) /\ T # {} BY <1>1, <1>2
<1>4. PICK x \in T : \A y \in T : y \leq x BY <1>2, <1>3, Youngest
<1>5. PICK p \in S : x = Top(p).id OBVIOUS
<1>6. PICK q \in S : x \in Holds(q) BY <1>5
<1>7. x < Top(q).id BY <1>1, <1>6, HeldAt
<1>8. Top(q).id \leq x BY <1>4
<1>9. x \in Int /\ Top(q).id \in Int BY <1>1, <1>2, <1>3
<1> QED BY <1>7, <1>8, <1>9

LEMMA InvOneGoodSchema == Inv => OneGoodSchema
<1> SUFFICES ASSUME Inv PROVE OneGoodSchema OBVIOUS
<1>1. ReturnedComplete BY DEF Inv
<1>2. OneSchemaPerKey
  <2> DEFINE used == returned \cup UNION {schemas[i].refs : i \in returned}
  <2> SUFFICES ASSUME world.bad = {}, NEW i \in used, NEW j \in used,
                      schemas[i].key = schemas[j].key
               PROVE  i = j
    BY DEF OneSchemaPerKey
  <2>1. used \subseteq Ids BY DEF Inv, TypeOK, RefsInIds
  <2>2. cache[schemas[i].key] = i /\ cache[schemas[j].key] = j BY <2>1 DEF Inv, AllGood
  <2> QED BY <2>2
<1>3. FailedNotCached
  <2> SUFFICES ASSUME NEW y \in Types, Plain(y) \in DOMAIN cache,
                      schemas[cache[Plain(y)]].initialized, schemas[cache[Plain(y)]].err
               PROVE  FALSE
    BY DEF FailedNotCached
  <2>1. PICK p \in Procs : At(p, "delete") /\ Top(p).id = cache[Plain(y)]
    BY DEF Inv, FailedLeaves
  <2>2. FrameOK(Top(p), Len(stack[p]), Len(stack[p])) BY <2>1, TopFacts DEF At
  <2> QED BY <2>1, <2>2 DEF FrameOK, Holding, At
<1> QED BY <1>1, <1>2, <1>3 DEF OneGoodSchema

(* What a step does to the cache and to the schema of a cached key.        *)
LEMMA CacheStep ==
    ASSUME Inv, Next, world.tables = {}, NEW k \in DOMAIN cache,
           schemas[cache[k]].initialized
    PROVE  k \in DOMAIN cache' /\ cache'[k] = cache[k]
<1>1. CASE UNCHANGED cache BY <1>1
<1>2. ASSUME NEW p \in Procs, Store(p) PROVE k \in DOMAIN cache' /\ cache'[k] = cache[k]
  BY <1>2 DEF Store
<1>3. ASSUME NEW p \in Procs, Delete(p) PROVE k \in DOMAIN cache' /\ cache'[k] = cache[k]
  <2>1. stack[p] # <<>> /\ Top(p).at = "delete"
        /\ cache' = [l \in DOMAIN cache \ {Plain(Top(p).key[1])} |-> cache[l]]
    BY <1>3 DEF Delete, At
  <2>2. FrameOK(Top(p), Len(stack[p]), Len(stack[p])) /\ Top(p) \in Frame BY <2>1, TopFacts
  <2>3. /\ ~schemas[Top(p).id].initialized /\ cache[Top(p).key] = Top(p).id
        /\ Top(p).key[2] = NoTable
    BY <2>1, <2>2 DEF FrameOK, Holding
  <2>4. Top(p).key = Plain(Top(p).key[1]) BY <2>2, <2>3 DEF Plain, Frame, Keys
  <2>5. k # Plain(Top(p).key[1]) BY <2>3, <2>4
  <2> QED BY <2>1, <2>5
<1> QED BY <1>1, <1>2, <1>3 DEF Next, Step, Call, Get, Load, Waited, Relate, Close

-----------------------------------------------------------------------------
LEMMA SpecInv == Spec => []Inv
<1> QED BY InitInv, NextInv, PTL DEF Spec

(* Every cached entry is a schema that was parsed for its key, and every   *)
(* schema returned is one of those parsed (schema.go:122-371).             *)
THEOREM SchemaTypes == Spec => []TypeOK
<1>1. Inv => TypeOK BY DEF Inv
<1> QED BY <1>1, SpecInv, PTL

(* However many goroutines parse models that refer to one another in       *)
(* whatever way, and whatever join tables and special table names they     *)
(* have, no set of goroutines waits for schemas that only they could       *)
(* complete (schema.go:157-163, relationship.go:82, 419-421).              *)
THEOREM SchemaNoCircularWait == Spec => []NoCircularWait
<1> QED BY SpecInv, InvNoCircularWait, PTL

(* Callers get complete schemas, one for each key, and those that failed   *)
(* are gone before anybody who waited is told (schema.go:122-371, 406-424).*)
THEOREM SchemaOneGood == Spec => []OneGoodSchema
<1> QED BY SpecInv, InvOneGoodSchema, PTL

(* A schema that was parsed well stays in the cache as long as no special  *)
(* table name is in use: a deferred Delete only takes the schema that its  *)
(* own call has stored (schema.go:332-337).                                *)
THEOREM SchemaGoodStays == Spec => GoodStays
<1> DEFINE Stay == world.tables = {} => \A k \in DOMAIN cache :
                       schemas[cache[k]].initialized /\ ~schemas[cache[k]].err =>
                           k \in DOMAIN cache' /\ cache'[k] = cache[k]
<1>1. Inv /\ [Next]_vars => [Stay]_vars BY CacheStep DEF vars
<1> QED BY <1>1, SpecInv, PTL DEF GoodStays, Spec
=============================================================================
