-------------------------- MODULE AssociationProofs -------------------------
(***************************************************************************)
(* What Association keeps for any number of programs, owners and targets,  *)
(* however many calls they make and statements fail.                       *)
(***************************************************************************)
EXTENDS Association, SequenceTheorems, FiniteSetTheorems, TLAPS

-----------------------------------------------------------------------------
(* The inductive invariant.                                                *)
Pairs == Owners \X Targets
Call  == [step : Steps, op : Ops, list : Seq(Owners), values : Seq(SUBSET Targets),
          unscoped : BOOLEAN, clones : BOOLEAN, i : Nat, old : SUBSET Targets,
          read : (SUBSET Targets) \cup (SUBSET Pairs)]
Ghost == [links : SUBSET Pairs, alone : BOOLEAN, fresh : BOOLEAN, fault : BOOLEAN,
          ever : SUBSET Pairs, always : SUBSET Pairs]

(* The database: only the foreign key of a belongs_to may lead nowhere.    *)
DbTypes ==
    /\ kind \in {"belongs_to", "has_one", "has_many", "many_to_many"}
    /\ rows \in [owners : SUBSET Owners, targets : SUBSET Targets]
    /\ links \subseteq Pairs /\ OneKey(kind, links)
    /\ kind # "belongs_to" => \A x \in links : x[2] \in rows.targets
MemTypes ==
    /\ mem \in [Programs -> [Owners -> SUBSET Targets]]
    /\ fk \in [Programs -> [Owners -> Targets \cup {None}]]
CallTypes ==
    /\ call \in [Programs -> Call] /\ ghost \in [Programs -> Ghost]
    /\ bounds \in [calls : 0..MaxCalls, faults : 0..MaxFaults]

(* What a call was asked, and where it may be.                             *)
Asking(p) ==
    LET c == call[p]
    IN  /\ \A j, k \in DOMAIN c.list : c.list[j] = c.list[k] => j = k
        /\ c.op \in {"append", "replace", "delete"} => DOMAIN c.values = DOMAIN c.list
        /\ c.op \in {"append", "replace"} =>
              /\ Has => \A j, k \in DOMAIN c.list : j # k => c.values[j] \cap c.values[k] = {}
              /\ Single => \A j \in DOMAIN c.list : \A s, t \in c.values[j] : s = t
        /\ c.op = "append" => ~Single
        /\ c.old # {} => kind = "belongs_to" /\ c.unscoped
        /\ OneKey(kind, ghost[p].links)
AtStep(p) ==
    LET c == call[p]
    IN  /\ c.step = "save" =>
              /\ c.op \in {"append", "replace"} /\ c.i \in DOMAIN c.list
              /\ Single => \A j \in DOMAIN c.list : c.values[j] # {}
        /\ c.step = "unlink" => c.op = "replace"
        /\ c.step = "purge" => kind = "belongs_to" /\ c.unscoped /\ c.op \in {"replace", "delete"}
        /\ c.step = "delete" => c.op \in {"delete", "remove"}
        /\ c.step \in {"owners", "joins"} => c.op = "preload"
        /\ c.step = "joins" => kind = "many_to_many"
        /\ c.step = "targets" => c.op \in {"preload", "find"}
Shape(p) == Asking(p) /\ AtStep(p)

(* A call that nobody disturbs, and whose errors are not overwritten.      *)
Clean(p) == Undisturbed(p) /\ ~Overwrites(p)

Put(p, j)   == IF call[p].op = "append" THEN Before(p, call[p].list[j]) \cup call[p].values[j]
               ELSE call[p].values[j]
Taken(p, j) == UNION {call[p].values[k] : k \in DOMAIN call[p].list \ {j}}

(* The owner at place j of the list has been saved, or not yet.            *)
SavedAt(p, j, done) ==
    LET o   == call[p].list[j]
        val == IF done THEN call[p].values[j] ELSE {}
    IN  /\ o \in rows.owners
        /\ mem[p][o] = IF done THEN Put(p, j) ELSE Before(p, o)
        /\ kind = "belongs_to" => IF done THEN Now(o) = val ELSE Before(p, o) \subseteq Now(o)
        /\ kind # "belongs_to" =>
              /\ Now(o) \subseteq Before(p, o) \cup val
              /\ Before(p, o) \ Taken(p, j) \subseteq Now(o)
              /\ kind = "many_to_many" \/ (call[p].op = "append" /\ ~Crossed(p)) =>
                    Before(p, o) \subseteq Now(o)
              /\ ~Crossed(p) => val \subseteq Now(o)
SavedTo(p, n) == \A j \in DOMAIN call[p].list : SavedAt(p, j, j < n)

(* Nothing has been written.                                               *)
Untouched(p) ==
    \A o \in Listed(p) :
        /\ o \in rows.owners /\ mem[p][o] = Before(p, o) /\ Now(o) = Before(p, o)
        /\ kind = "belongs_to" => {fk[p][o]} \ {None} = Before(p, o)

(* The owners of a preload have been read, and their links.                *)
OwnersRead(p) ==
    \A o \in Listed(p) :
        /\ Now(o) = Before(p, o)
        /\ mem[p][o] = Before(p, o) \/ (IsSlice(p) /\ mem[p][o] = {})
        /\ call[p].step = "targets" =>
              /\ kind = "belongs_to" => {fk[p][o]} \ {None} = Linked(links, Targets, o)
              /\ kind = "many_to_many" => \A t \in Targets : (<<o, t>> \in call[p].read) = (<<o, t>> \in links)

Neither(p) ==
    \A j \in DOMAIN call[p].list :
        LET o == call[p].list[j]
        IN  Before(p, o) \ Taken(p, j) \subseteq Now(o) \/ call[p].values[j] \ call[p].old \subseteq Now(o)

Tracked(p) ==
    LET c == call[p]
    IN  /\ Running(p) => ~ghost[p].fault
        /\ c.step = "save" => SavedTo(p, c.i)
        /\ c.step = "unlink" =>
              IF kind = "belongs_to"
              THEN \A j \in DOMAIN c.list : c.values[j] = {} /\ mem[p][c.list[j]] = {}
              ELSE SavedTo(p, Len(c.list) + 1)
        /\ c.step = "purge" =>
              IF c.op = "replace"
              THEN \A j \in DOMAIN c.list :
                       /\ Now(c.list[j]) = c.values[j] /\ mem[p][c.list[j]] = c.values[j]
                       /\ Nobody(c.values) => Linked(links, Targets, c.list[j]) = {}
              ELSE \A o \in Listed(p) :
                       /\ Now(o) = Before(p, o) \ Values(p) /\ mem[p][o] = Before(p, o)
                       /\ Linked(links, Values(p), o) = {}
        /\ c.step \in {"delete", "owners"} \/ (c.step = "targets" /\ c.op = "find") => Untouched(p)
        /\ c.step \in {"joins", "targets"} /\ c.op = "preload" => OwnersRead(p)
        /\ c.step \in {"ok", "failed"} /\ c.op \in {"append", "replace"} => Neither(p)
        /\ c.step = "ok" /\ ~Crossed(p) => \A j \in DOMAIN c.list : Asked(p, j)

(* What a preload has read was there, and what was there it has read.      *)
Between(p, o) ==
    \/ kind = "belongs_to" /\ fk[p][o] = None /\ ~IsSlice(p)
    \/ /\ \A t \in mem[p][o] : <<o, t>> \in ghost[p].ever
       /\ (\E t \in Targets : <<o, t>> \in ghost[p].always) => mem[p][o] # {}
       /\ ~Single => \A t \in Targets : <<o, t>> \in ghost[p].always => t \in mem[p][o]
Reads(p) ==
    LET c == call[p]
    IN  /\ Running(p) /\ c.op = "preload" =>
              /\ ghost[p].always \subseteq Solid(links, rows.targets)
              /\ links \subseteq ghost[p].ever
        /\ c.op = "preload" /\ c.step = "ok" => \A o \in Listed(p) : Between(p, o)
        /\ c.op = "preload" /\ c.step \in {"joins", "targets"} /\ IsSlice(p) =>
              \A o \in Listed(p) : mem[p][o] = {}
        /\ c.op = "preload" /\ c.step = "targets" => \A o \in Listed(p) :
              /\ kind = "belongs_to" =>
                    /\ fk[p][o] # None => <<o, fk[p][o]>> \in ghost[p].ever
                    /\ \A t \in Targets : <<o, t>> \in ghost[p].always => t = fk[p][o]
              /\ kind = "many_to_many" =>
                    /\ c.read \subseteq ghost[p].ever
                    /\ \A t \in Targets : <<o, t>> \in ghost[p].always => <<o, t>> \in c.read

Inv == /\ DbTypes /\ MemTypes /\ CallTypes
       /\ \A p \in Programs : Shape(p) /\ Reads(p) /\ (Clean(p) => Tracked(p))

-----------------------------------------------------------------------------
(* What the lists and values that may be passed are.                       *)

(* SetToSeq lists a finite set, each of its elements once.                 *)
LEMMA OwnersListed ==
    ASSUME NEW S \in SUBSET Owners
    PROVE  /\ SetToSeq(S) \in Seq(Owners) /\ ToSet(SetToSeq(S)) \subseteq S
           /\ \A j, k \in DOMAIN SetToSeq(S) : SetToSeq(S)[j] = SetToSeq(S)[k] => j = k
<1>1. Cardinality(S) \in Nat /\ ExistsBijection(1..Cardinality(S), S)
  BY FS_Subset, FS_CardinalityType, ObjectsAssumption
<1>2. PICK f \in Bijection(1..Cardinality(S), S) : TRUE
  BY <1>1 DEF ExistsBijection
<1>3. f \in [1..Cardinality(S) -> S] /\ IsInjective(f)
  BY <1>2 DEF Bijection, Injection, IsInjective
<1>4. /\ SetToSeq(S) \in [1..Cardinality(S) -> S]
      /\ IsInjective(SetToSeq(S))
  BY <1>3 DEF SetToSeq
<1>5. SetToSeq(S) \in Seq(Owners)  BY <1>1, <1>4
<1> QED BY <1>4, <1>5 DEF IsInjective, ToSet

LEMMA ListsListed ==
    ASSUME NEW list \in Lists
    PROVE  /\ list \in Seq(Owners)
           /\ \A j, k \in DOMAIN list : list[j] = list[k] => j = k
<1>1. CASE list = SetToSeq(Owners)  BY <1>1, OwnersListed
<1>2. CASE \E o \in Owners : list = <<o>>
  BY <1>2
<1> QED BY <1>1, <1>2 DEF Lists

(* A set of at most one element.                                           *)
LEMMA AtMostOne ==
    ASSUME NEW S \in SUBSET Targets, Cardinality(S) <= 1, NEW s \in S, NEW t \in S
    PROVE  s = t
<1>1. IsFiniteSet(S) /\ IsFiniteSet(S \ {s}) /\ Cardinality(S) \in Nat /\ Cardinality(S \ {s}) \in Nat
  BY FS_Subset, FS_CardinalityType, ObjectsAssumption
<1>2. Cardinality(S \ {s}) = 0  BY <1>1, FS_RemoveElement
<1>3. S \ {s} = {}  BY <1>1, <1>2, FS_EmptySet
<1> QED BY <1>3

LEMMA PassedValues ==
    ASSUME DbTypes, NEW list \in Lists, NEW values \in Passed(list)
    PROVE  /\ values \in Seq(SUBSET Targets) /\ DOMAIN values = DOMAIN list
           /\ Has => \A j, k \in DOMAIN list : j # k => values[j] \cap values[k] = {}
           /\ Single => \A j \in DOMAIN list : \A s, t \in values[j] : s = t
           /\ Single /\ ~Nobody(values) => \A j \in DOMAIN list : values[j] # {}
<1>1. list \in Seq(Owners) /\ DOMAIN list = 1..Len(list) /\ Len(list) \in Nat  BY ListsListed
<1> DEFINE most == IF Single \/ Len(list) > 1 \/ \E q \in Programs : Running(q) THEN 1 ELSE 2
           some == {S \in SUBSET (rows.targets \cup Unsaved) : Cardinality(S) <= most}
<1>2. /\ values \in [1..Len(list) -> some]
      /\ Single => \A i, j \in 1..Len(list) : (values[i] = {}) = (values[j] = {})
      /\ Has => \A i, j \in 1..Len(list) : i # j => values[i] \cap values[j] = {}
  BY Zenon DEF Passed
<1>3. \A S \in some : S \subseteq Targets /\ Cardinality(S) <= most
  BY ObjectsAssumption DEF DbTypes
<1> HIDE DEF some
<1>4. values \in [1..Len(list) -> SUBSET Targets]  BY <1>2, <1>3
<1>5. values \in Seq(SUBSET Targets) /\ DOMAIN values = DOMAIN list  BY <1>1, <1>4
<1>6. ASSUME Single, NEW j \in DOMAIN list, NEW s \in values[j], NEW t \in values[j]
      PROVE  s = t
  <2>1. values[j] \in SUBSET Targets /\ Cardinality(values[j]) <= 1
    BY <1>1, <1>2, <1>3, <1>6
  <2> QED BY <2>1, AtMostOne
<1>7. ASSUME Single, ~Nobody(values), NEW j \in DOMAIN list PROVE values[j] # {}
  BY <1>1, <1>2, <1>5, <1>7 DEF Nobody
<1> QED BY <1>1, <1>2, <1>5, <1>6, <1>7

-----------------------------------------------------------------------------
(* What a step leaves as it is.                                            *)

(* The call of p is still the same call, and its ghost of the same start.  *)
SameCall(p) ==
    /\ kind' = kind
    /\ call'[p].op = call[p].op /\ call'[p].list = call[p].list
    /\ call'[p].values = call[p].values /\ call'[p].unscoped = call[p].unscoped
    /\ call'[p].clones = call[p].clones /\ call'[p].old = call[p].old
    /\ ghost'[p].links = ghost[p].links

LEMMA Carried ==
    ASSUME NEW p, SameCall(p)
    PROVE  /\ Listed(p)' = Listed(p) /\ IsSlice(p)' = IsSlice(p) /\ Values(p)' = Values(p)
           /\ Single' = Single /\ Has' = Has
           /\ \A o : Before(p, o)' = Before(p, o)
           /\ \A j : Put(p, j)' = Put(p, j) /\ Taken(p, j)' = Taken(p, j)
           /\ Crossed(p)' = Crossed(p)
<1> USE DEF SameCall
<1>1. Listed(p)' = Listed(p) /\ IsSlice(p)' = IsSlice(p) /\ Values(p)' = Values(p)
  BY DEF Listed, IsSlice, Values
<1>2. Single' = Single /\ Has' = Has  BY DEF Single, Has
<1>3. \A o : Before(p, o)' = Before(p, o)  BY DEF Before
<1>4. \A j : Put(p, j)' = Put(p, j)  BY <1>3 DEF Put
<1>5. \A j : Taken(p, j)' = Taken(p, j)  BY DEF Taken
<1>6. Crossed(p)' = Crossed(p)  BY <1>2, <1>3 DEF Crossed
<1> QED BY <1>1, <1>2, <1>3, <1>4, <1>5, <1>6

(* A call that is clean after a step of it was so before.                  *)
LEMMA CleanBack ==
    ASSUME NEW p, SameCall(p), Clean(p)', ghost[p].alone \in BOOLEAN,
           ghost'[p].alone => ghost[p].alone, ghost'[p].fresh = ghost[p].fresh,
           ghost[p].fault => ghost'[p].fault
    PROVE  Clean(p)
<1> SUFFICES Undisturbed(p) /\ ~Overwrites(p)  BY DEF Clean
<1>1. Undisturbed(p)' /\ ~Overwrites(p)'  BY DEF Clean
<1>2. Undisturbed(p)  BY <1>1 DEF Undisturbed
<1>3. ~Overwrites(p)  BY <1>1, Carried DEF Overwrites, SameCall
<1> QED BY <1>2, <1>3

(* A program whose call, memory and foreign keys a step leaves alone,      *)
(* while the database stays, or another program writes to it.              *)
Aside(r) ==
    /\ kind' = kind
    /\ call'[r] = call[r] /\ mem'[r] = mem[r] /\ fk'[r] = fk[r]
Quiet == UNCHANGED <<links, rows>>
Noted(r) ==
    ghost'[r] = [ghost[r] EXCEPT !.alone = FALSE,
                     !.ever = IF Running(r) THEN @ \cup links' ELSE @,
                     !.always = IF Running(r) THEN @ \cap Solid(links', rows'.targets) ELSE @]

LEMMA AsideSame ==
    ASSUME NEW r \in Programs, Aside(r), ghost \in [Programs -> Ghost],
           (Quiet /\ ghost'[r] = ghost[r]) \/ Noted(r)
    PROVE  /\ SameCall(r) /\ Running(r)' = Running(r)
           /\ ghost'[r].alone => ghost[r].alone
           /\ ghost'[r].fresh = ghost[r].fresh /\ ghost'[r].fault = ghost[r].fault
<1>1. ghost[r] \in Ghost  OBVIOUS
<1>2. ghost'[r].links = ghost[r].links /\ ghost'[r].fresh = ghost[r].fresh
      /\ ghost'[r].fault = ghost[r].fault /\ (ghost'[r].alone => ghost[r].alone)
  <2>1. CASE ghost'[r] = ghost[r]  BY <2>1
  <2>2. CASE Noted(r)  BY <1>1, <2>2 DEF Noted, Ghost
  <2> QED BY <2>1, <2>2
<1>3. Running(r)' = Running(r)  BY DEF Running, Aside
<1> QED BY <1>2, <1>3 DEF SameCall, Aside

LEMMA AsideShape ==
    ASSUME NEW r \in Programs, Aside(r), ghost \in [Programs -> Ghost],
           (Quiet /\ ghost'[r] = ghost[r]) \/ Noted(r), Shape(r)
    PROVE  Shape(r)'
<1>1. SameCall(r) /\ call'[r] = call[r]  BY AsideSame DEF Aside
<1>2. Single' = Single /\ Has' = Has /\ kind' = kind /\ ghost'[r].links = ghost[r].links
  BY <1>1, Carried DEF SameCall
<1>3. Asking(r)'  BY <1>1, <1>2 DEF Shape, Asking, OneKey
<1>4. AtStep(r)'  BY <1>1, <1>2 DEF Shape, AtStep
<1> QED BY <1>3, <1>4 DEF Shape

LEMMA AsideReads ==
    ASSUME NEW r \in Programs, Aside(r), ghost \in [Programs -> Ghost],
           (Quiet /\ ghost'[r] = ghost[r]) \/ Noted(r), Reads(r)
    PROVE  Reads(r)'
<1>1. SameCall(r) /\ call'[r] = call[r] /\ mem'[r] = mem[r] /\ fk'[r] = fk[r] /\ kind' = kind
  BY AsideSame DEF Aside
<1>2. Listed(r)' = Listed(r) /\ IsSlice(r)' = IsSlice(r) /\ Single' = Single /\ Running(r)' = Running(r)
  BY <1>1, Carried, AsideSame
<1>3. /\ ghost[r].ever \subseteq ghost'[r].ever /\ ghost'[r].always \subseteq ghost[r].always
      /\ Running(r) /\ Noted(r) => /\ links' \subseteq ghost'[r].ever
                                   /\ ghost'[r].always \subseteq Solid(links', rows'.targets)
      /\ ~Running(r) => ghost'[r].ever = ghost[r].ever /\ ghost'[r].always = ghost[r].always
  <2>1. CASE ghost'[r] = ghost[r] /\ Quiet  BY <2>1 DEF Noted, Ghost, Quiet
  <2>2. CASE Noted(r)
    <3>1. ghost[r] \in Ghost  OBVIOUS
    <3>2. /\ ghost'[r].ever = IF Running(r) THEN ghost[r].ever \cup links' ELSE ghost[r].ever
          /\ ghost'[r].always = IF Running(r) THEN ghost[r].always \cap Solid(links', rows'.targets) ELSE ghost[r].always
      BY <2>2, <3>1 DEF Noted, Ghost
    <3> QED BY <3>2
  <2> QED BY <2>1, <2>2
<1>4. Running(r)' /\ call'[r].op = "preload" =>
        /\ ghost'[r].always \subseteq Solid(links', rows'.targets)
        /\ links' \subseteq ghost'[r].ever
  <2>1. CASE Quiet /\ ghost'[r] = ghost[r]  BY <1>1, <1>2, <2>1 DEF Reads, Quiet
  <2>2. CASE Noted(r)  BY <1>2, <1>3, <2>2
  <2> QED BY <2>1, <2>2
<1>5. call'[r].op = "preload" /\ call'[r].step = "ok" => \A o \in Listed(r)' : Between(r, o)'
  <2> SUFFICES ASSUME call[r].op = "preload", call[r].step = "ok", NEW o \in Listed(r)
               PROVE  Between(r, o)'
    BY <1>1, <1>2
  <2>1. Between(r, o)  BY DEF Reads
  <2>2. ghost'[r].ever = ghost[r].ever /\ ghost'[r].always = ghost[r].always
    BY <1>3 DEF Running
  <2> QED BY <1>1, <1>2, <2>1, <2>2 DEF Between
<1>6. call'[r].op = "preload" /\ call'[r].step \in {"joins", "targets"} /\ IsSlice(r)' =>
        \A o \in Listed(r)' : mem'[r][o] = {}
  BY <1>1, <1>2 DEF Reads
<1>7. call'[r].op = "preload" /\ call'[r].step = "targets" => \A o \in Listed(r)' :
        /\ kind' = "belongs_to" =>
              /\ fk'[r][o] # None => <<o, fk'[r][o]>> \in ghost'[r].ever
              /\ \A t \in Targets : <<o, t>> \in ghost'[r].always => t = fk'[r][o]
        /\ kind' = "many_to_many" =>
              /\ call'[r].read \subseteq ghost'[r].ever
              /\ \A t \in Targets : <<o, t>> \in ghost'[r].always => <<o, t>> \in call'[r].read
  BY <1>1, <1>2, <1>3 DEF Reads
<1> QED BY <1>4, <1>5, <1>6, <1>7, Zenon DEF Reads

LEMMA AsideTracked ==
    ASSUME NEW r \in Programs, Aside(r), ghost \in [Programs -> Ghost],
           (Quiet /\ ghost'[r] = ghost[r]) \/ Noted(r), Clean(r) => Tracked(r), Clean(r)'
    PROVE  Tracked(r)'
<1>1. Quiet /\ ghost'[r] = ghost[r]
  BY DEF Noted, Clean, Undisturbed, Ghost
<1>2. SameCall(r) /\ Clean(r)
  BY AsideSame, CleanBack DEF Ghost
<1>3. Tracked(r)  BY <1>2
<1>4. /\ call'[r] = call[r] /\ mem'[r] = mem[r] /\ fk'[r] = fk[r] /\ kind' = kind
      /\ links' = links /\ rows' = rows /\ ghost'[r] = ghost[r]
  BY <1>1 DEF Aside, Quiet
<1>5. /\ Listed(r)' = Listed(r) /\ IsSlice(r)' = IsSlice(r) /\ Values(r)' = Values(r)
      /\ Single' = Single /\ Running(r)' = Running(r) /\ Crossed(r)' = Crossed(r)
      /\ \A o : Before(r, o)' = Before(r, o) /\ Now(o)' = Now(o)
      /\ \A j : Put(r, j)' = Put(r, j) /\ Taken(r, j)' = Taken(r, j)
  BY <1>2, <1>4, Carried, AsideSame DEF Now
<1>6. \A n : SavedTo(r, n)' = SavedTo(r, n)
  <2>1. ASSUME NEW j, NEW done PROVE SavedAt(r, j, done)' = SavedAt(r, j, done)
    BY <1>4, <1>5 DEF SavedAt
  <2> QED BY <1>4, <2>1 DEF SavedTo
<1>7. Untouched(r)' = Untouched(r)  BY <1>4, <1>5 DEF Untouched
<1>8. OwnersRead(r)' = OwnersRead(r)  BY <1>4, <1>5 DEF OwnersRead
<1>9. Neither(r)' = Neither(r)  BY <1>4, <1>5 DEF Neither
<1>10. \A j : Asked(r, j)' = Asked(r, j)
  BY <1>4, <1>5 DEF Asked, Fitting
<1> QED BY <1>3, <1>4, <1>5, <1>6, <1>7, <1>8, <1>9, <1>10, Zenon DEF Tracked

-----------------------------------------------------------------------------
(* A step of p: what it has to show, the other programs being aside.       *)
Moved(p) ==
    /\ call' \in [Programs -> Call] /\ \A r \in Programs \ {p} : call'[r] = call[r]
    /\ call'[p].op = call[p].op /\ call'[p].list = call[p].list
    /\ call'[p].values = call[p].values /\ call'[p].unscoped = call[p].unscoped
    /\ call'[p].clones = call[p].clones /\ call'[p].old = call[p].old
Others(p) ==
    \A r \in Programs \ {p} :
        /\ mem'[r] = mem[r] /\ fk'[r] = fk[r]
        /\ (Quiet /\ ghost'[r] = ghost[r]) \/ Noted(r)

LEMMA OthersInv ==
    ASSUME Inv, NEW p \in Programs, kind' = kind, Others(p),
           \A r \in Programs \ {p} : call'[r] = call[r],
           NEW r \in Programs, r # p
    PROVE  Shape(r)' /\ Reads(r)' /\ (Clean(r)' => Tracked(r)')
<1>1. ghost \in [Programs -> Ghost] /\ Shape(r) /\ Reads(r) /\ (Clean(r) => Tracked(r))
  BY DEF Inv, CallTypes
<1>2. Aside(r) /\ ((Quiet /\ ghost'[r] = ghost[r]) \/ Noted(r))
  BY DEF Aside, Others
<1> QED BY <1>1, <1>2, AsideShape, AsideReads, AsideTracked

LEMMA StepTo ==
    ASSUME Inv, NEW p \in Programs, kind' = kind, Others(p),
           \A r \in Programs \ {p} : call'[r] = call[r],
           DbTypes', MemTypes', CallTypes', Shape(p)', Reads(p)', Clean(p)' => Tracked(p)'
    PROVE  Inv'
<1> SUFFICES ASSUME NEW r \in Programs
             PROVE  Shape(r)' /\ Reads(r)' /\ (Clean(r)' => Tracked(r)')
  BY DEF Inv
<1>1. CASE r = p  BY <1>1
<1>2. CASE r # p  BY <1>2, OthersInv
<1> QED BY <1>1, <1>2

LEMMA Step ==
    ASSUME Inv, NEW p \in Programs, kind' = kind, Moved(p), Others(p),
           DbTypes', MemTypes', CallTypes', ghost'[p].links = ghost[p].links,
           AtStep(p)', Reads(p)', Clean(p)' => Tracked(p)'
    PROVE  Inv'
<1>1. SameCall(p) /\ Shape(p)  BY DEF SameCall, Moved, Inv
<1>2. Asking(p)'
  <2>1. Single' = Single /\ Has' = Has  BY <1>1, Carried
  <2> QED BY <1>1, <2>1 DEF SameCall, Shape, Asking, OneKey
<1> QED BY <1>2, StepTo DEF Shape, Moved

LEMMA CallIs ==
    ASSUME CallTypes, NEW p \in Programs
    PROVE  /\ call[p] \in Call /\ call[p].list \in Seq(Owners) /\ Listed(p) \subseteq Owners
           /\ \A j \in DOMAIN call[p].list : call[p].list[j] \in Owners /\ call[p].list[j] \in Listed(p)
           /\ \A o \in Listed(p) : \E j \in DOMAIN call[p].list : o = call[p].list[j]
<1>1. call[p] \in Call  BY DEF CallTypes
<1>2. call[p].list \in Seq(Owners)  BY <1>1 DEF Call
<1>3. \A j \in DOMAIN call[p].list : call[p].list[j] \in Owners  BY <1>2
<1> QED BY <1>1, <1>2, <1>3 DEF Listed, ToSet

(* The ways a call goes on.                                                *)
LEMMA CallGoes ==
    ASSUME CallTypes, NEW p \in Programs, NEW s \in Steps, Goes(p, s)
    PROVE  /\ Moved(p)
           /\ call'[p].step = s /\ call'[p].i = call[p].i /\ call'[p].read = call[p].read
<1>1. call \in [Programs -> Call] /\ call' = [call EXCEPT ![p].step = s]  BY DEF CallTypes, Goes
<1>2. call[p] \in Call  BY <1>1
<1>3. call'[p] = [call[p] EXCEPT !.step = s]  BY <1>1
<1>4. call'[p] \in Call  BY <1>2, <1>3 DEF Call
<1> QED BY <1>1, <1>2, <1>3, <1>4 DEF Moved, Call

LEMMA CallNext ==
    ASSUME CallTypes, NEW p \in Programs, call' = [call EXCEPT ![p].i = @ + 1]
    PROVE  /\ Moved(p)
           /\ call'[p].step = call[p].step /\ call'[p].i = call[p].i + 1 /\ call'[p].read = call[p].read
<1>1. call \in [Programs -> Call] /\ call[p] \in Call  BY DEF CallTypes
<1> DEFINE n == call[p].i + 1
<1>n. n \in Nat  BY <1>1 DEF Call
<1>2. call'[p] = [call[p] EXCEPT !.i = n]  BY <1>1
<1> HIDE DEF n
<1>3. call'[p] \in Call  BY <1>1, <1>n, <1>2 DEF Call
<1>4. call'[p].i = n  BY <1>1, <1>2 DEF Call
<1>5. n = call[p].i + 1  BY DEF n
<1> QED BY <1>1, <1>2, <1>3, <1>4, <1>5 DEF Moved, Call

LEMMA CallRead ==
    ASSUME CallTypes, NEW p \in Programs, NEW s \in Steps,
           NEW read, read \in SUBSET Targets \/ read \in SUBSET Pairs,
           call' = [call EXCEPT ![p].step = s, ![p].read = read]
    PROVE  /\ Moved(p)
           /\ call'[p].step = s /\ call'[p].i = call[p].i /\ call'[p].read = read
<1>1. call \in [Programs -> Call] /\ call[p] \in Call  BY DEF CallTypes
<1>2. call'[p] = [call[p] EXCEPT !.step = s, !.read = read]  BY <1>1
<1>r. read \in (SUBSET Targets) \cup (SUBSET Pairs)  OBVIOUS
<1>3. call'[p] \in Call  BY <1>1, <1>2, <1>r DEF Call
<1> QED BY <1>1, <1>2, <1>3 DEF Moved, Call

(* The ways the ghost does.                                                *)
LEMMA GhostWrote ==
    ASSUME CallTypes, NEW p \in Programs, Wrote(p), links' \subseteq Pairs
    PROVE  /\ ghost' \in [Programs -> Ghost] /\ ghost'[p] = ghost[p]
           /\ \A r \in Programs \ {p} : Noted(r)
<1>1. ghost \in [Programs -> Ghost]  BY DEF CallTypes
<1>2. ghost'[p] = ghost[p] /\ \A r \in Programs \ {p} : Noted(r)
  BY DEF Wrote, Noted
<1>3. \A r \in Programs \ {p} : ghost'[r] \in Ghost
  <2> SUFFICES ASSUME NEW r \in Programs \ {p} PROVE ghost'[r] \in Ghost  OBVIOUS
  <2>1. ghost[r] \in Ghost /\ Noted(r)  BY <1>1, <1>2
  <2> DEFINE e == IF Running(r) THEN ghost[r].ever \cup links' ELSE ghost[r].ever
             a == IF Running(r) THEN ghost[r].always \cap Solid(links', rows'.targets) ELSE ghost[r].always
  <2>2. e \in SUBSET Pairs /\ a \in SUBSET Pairs  BY <2>1 DEF Ghost
  <2>3. ghost'[r] = [ghost[r] EXCEPT !.alone = FALSE, !.ever = e, !.always = a]
    BY <2>1 DEF Noted
  <2> HIDE DEF e, a
  <2> QED BY <2>1, <2>2, <2>3 DEF Ghost
<1> QED BY <1>1, <1>2, <1>3 DEF Wrote

LEMMA GhostFaulty ==
    ASSUME CallTypes, NEW p \in Programs, Faulty(p)
    PROVE  /\ ghost' \in [Programs -> Ghost] /\ \A r \in Programs \ {p} : ghost'[r] = ghost[r]
           /\ ghost'[p].fault /\ ghost'[p].links = ghost[p].links
           /\ ghost'[p].alone = ghost[p].alone /\ ghost'[p].fresh = ghost[p].fresh
           /\ ghost'[p].ever = ghost[p].ever /\ ghost'[p].always = ghost[p].always
           /\ bounds' \in [calls : 0..MaxCalls, faults : 0..MaxFaults]
           /\ UNCHANGED <<kind, rows, links>>
<1>1. ghost \in [Programs -> Ghost] /\ ghost' = [ghost EXCEPT ![p].fault = TRUE]
  BY DEF CallTypes, Faulty
<1>2. ghost[p] \in Ghost /\ ghost'[p] = [ghost[p] EXCEPT !.fault = TRUE]  BY <1>1
<1>3. bounds' \in [calls : 0..MaxCalls, faults : 0..MaxFaults]
  BY BoundsAssumption DEF CallTypes, Faulty
<1>4. ghost'[p] \in Ghost /\ ghost'[p].fault /\ ghost'[p].links = ghost[p].links
      /\ ghost'[p].alone = ghost[p].alone /\ ghost'[p].fresh = ghost[p].fresh
      /\ ghost'[p].ever = ghost[p].ever /\ ghost'[p].always = ghost[p].always
  BY <1>2 DEF Ghost
<1>5. ghost' \in [Programs -> Ghost] /\ \A r \in Programs \ {p} : ghost'[r] = ghost[r]
  BY <1>1, <1>4
<1> QED BY <1>3, <1>4, <1>5 DEF Faulty

(* A statement fails, writes or reads: what is left to show.               *)
Memories(p) ==
    /\ MemTypes'
    /\ \A r \in Programs \ {p} : mem'[r] = mem[r] /\ fk'[r] = fk[r]

LEMMA SameMemory == ASSUME Inv, NEW p, UNCHANGED <<mem, fk>> PROVE Memories(p)
BY DEF Inv, Memories, MemTypes

LEMMA Failing ==
    ASSUME Inv, NEW p \in Programs, Faulty(p), Moved(p), Memories(p), AtStep(p)', Reads(p)',
           Clean(p) /\ Tracked(p) /\ Clean(p)' => Tracked(p)'
    PROVE  Inv'
<1>1. CallTypes /\ ghost[p] \in Ghost  BY DEF Inv, CallTypes
<1>2. /\ ghost' \in [Programs -> Ghost] /\ \A r \in Programs \ {p} : ghost'[r] = ghost[r]
      /\ ghost'[p].fault /\ ghost'[p].links = ghost[p].links
      /\ ghost'[p].alone = ghost[p].alone /\ ghost'[p].fresh = ghost[p].fresh
      /\ bounds' \in [calls : 0..MaxCalls, faults : 0..MaxFaults]
      /\ UNCHANGED <<kind, rows, links>>
  BY <1>1, GhostFaulty
<1>3. Others(p)  BY <1>2 DEF Others, Quiet, Memories
<1>4. DbTypes' /\ CallTypes' /\ MemTypes'
  BY <1>2 DEF Inv, DbTypes, CallTypes, OneKey, Moved, Memories
<1>5. Clean(p)' => Clean(p)
  BY <1>1, <1>2, CleanBack DEF SameCall, Moved, Ghost
<1> QED BY <1>2, <1>3, <1>4, <1>5, Step DEF Inv

LEMMA Writing ==
    ASSUME Inv, NEW p \in Programs, Wrote(p), UNCHANGED <<kind, bounds>>, Moved(p), Memories(p),
           DbTypes', AtStep(p)', call[p].op # "preload",
           Clean(p) /\ Tracked(p) => Tracked(p)'
    PROVE  Inv'
<1>1. CallTypes /\ ghost[p] \in Ghost  BY DEF Inv, CallTypes
<1>2. /\ ghost' \in [Programs -> Ghost] /\ ghost'[p] = ghost[p]
      /\ \A r \in Programs \ {p} : Noted(r)
  BY <1>1, GhostWrote DEF DbTypes
<1>3. Others(p)  BY <1>2 DEF Others, Memories
<1>4. CallTypes' /\ MemTypes'  BY <1>2 DEF Inv, CallTypes, Moved, Memories
<1>5. Clean(p)' => Clean(p)
  BY <1>1, <1>2, CleanBack DEF SameCall, Moved, Ghost
<1>6. Reads(p)'  BY DEF Reads, Moved
<1> QED BY <1>2, <1>3, <1>4, <1>5, <1>6, Step DEF Inv

LEMMA Reading ==
    ASSUME Inv, NEW p \in Programs, UNCHANGED <<kind, rows, links, bounds, ghost>>,
           Moved(p), Memories(p), AtStep(p)', Reads(p)',
           Clean(p) /\ Tracked(p) => Tracked(p)'
    PROVE  Inv'
<1>1. CallTypes /\ ghost[p] \in Ghost  BY DEF Inv, CallTypes
<1>3. Others(p)  BY DEF Others, Quiet, Memories
<1>4. DbTypes' /\ CallTypes' /\ MemTypes'
  BY DEF Inv, DbTypes, CallTypes, OneKey, Moved, Memories
<1>5. Clean(p)' => Clean(p)
  BY <1>1, CleanBack DEF SameCall, Moved, Ghost
<1> QED BY <1>3, <1>4, <1>5, Step DEF Inv

LEMMA FailedTracked ==
    ASSUME NEW p, call'[p].step = "failed",
           call'[p].op \in {"append", "replace"} => Neither(p)'
    PROVE  AtStep(p)' /\ Tracked(p)'
BY DEF Tracked, AtStep, Running

LEMMA OverTracked ==
    ASSUME NEW p, call'[p].step = "ok",
           call'[p].op \in {"append", "replace"} => Neither(p)',
           ~Crossed(p)' => \A j \in DOMAIN call'[p].list : Asked(p, j)'
    PROVE  AtStep(p)' /\ Tracked(p)'
BY DEF Tracked, AtStep, Running

(* A statement of a call that is no Append or Replace fails, and it ends.  *)
LEMMA FailsAtOnce ==
    ASSUME Inv, NEW p \in Programs, Goes(p, "failed"), Faulty(p), Memories(p),
           call[p].op \notin {"append", "replace"}
    PROVE  Inv'
<1>1. Moved(p) /\ call'[p].step = "failed"  BY CallGoes DEF Inv, Steps
<1>2. AtStep(p)' /\ Tracked(p)'  BY <1>1, FailedTracked DEF Moved
<1>3. Reads(p)'  BY <1>1 DEF Reads, Running
<1> QED BY <1>1, <1>2, <1>3, Failing

-----------------------------------------------------------------------------
(* The statements, one by one.                                             *)
LEMMA RemoveOwnerInv ==
    ASSUME Inv, NEW p \in Programs, RemoveOwner(p) PROVE Inv'
<1> DEFINE gone == {x \in links : x[1] \in Listed(p)}
<1>0. Memories(p) /\ call[p].op = "remove"  BY SameMemory DEF RemoveOwner
<1>1. CASE Goes(p, "failed") /\ Faulty(p)  BY <1>0, <1>1, FailsAtOnce
<1>2. CASE /\ links' = links \ gone
           /\ rows' = [owners |-> rows.owners \ Listed(p),
                       targets |-> IF Has THEN rows.targets \ {x[2] : x \in gone} ELSE rows.targets]
           /\ Goes(p, "ok") /\ Wrote(p) /\ UNCHANGED <<kind, bounds>>
  <2>1. Moved(p) /\ call'[p].step = "ok"  BY <1>2, CallGoes DEF Inv, Steps
  <2>2. SameCall(p)  BY <1>2, <2>1, GhostWrote DEF SameCall, Moved, Inv, DbTypes
  <2>3. DbTypes'
    <3>1. rows' \in [owners : SUBSET Owners, targets : SUBSET Targets] /\ links' \subseteq links
      BY <1>2 DEF Inv, DbTypes
    <3>2. OneKey(kind', links')  BY <1>2, <3>1 DEF Inv, DbTypes, OneKey
    <3>3. ASSUME kind # "belongs_to", NEW x \in links' PROVE x[2] \in rows'.targets
      <4>1. x \in links /\ x \notin gone /\ x[2] \in rows.targets  BY <1>2, <3>3 DEF Inv, DbTypes
      <4>2. CASE Has
        <5>1. \A y \in gone : y[2] # x[2]
          BY <4>1, <4>2 DEF Inv, DbTypes, OneKey, Has
        <5> QED BY <1>2, <4>1, <4>2, <5>1
      <4>3. CASE ~Has  BY <1>2, <4>1, <4>3
      <4> QED BY <4>2, <4>3
    <3> QED BY <1>2, <3>1, <3>2, <3>3 DEF Inv, DbTypes
  <2>4. \A j \in DOMAIN call'[p].list : Asked(p, j)'
    <3> SUFFICES ASSUME NEW j \in DOMAIN call[p].list
                 PROVE  call[p].list[j] \notin rows'.owners /\ Linked(links', Targets, call[p].list[j]) = {}
      BY <1>0, <2>1 DEF Asked, Moved
    <3>1. call[p].list[j] \in Listed(p)  BY DEF Listed, ToSet
    <3> QED BY <1>2, <3>1 DEF Linked
  <2>5. AtStep(p)' /\ Tracked(p)'  BY <1>0, <2>1, <2>4, OverTracked DEF Moved
  <2> QED BY <1>0, <1>2, <2>1, <2>3, <2>5, Writing
<1> QED BY <1>1, <1>2 DEF RemoveOwner

LEMMA FindInv ==
    ASSUME Inv, NEW p \in Programs, Find(p) PROVE Inv'
<1>0. Memories(p) /\ call[p].op = "find" /\ call[p].step = "targets"  BY SameMemory DEF Find
<1>1. CASE Goes(p, "failed") /\ Faulty(p)  BY <1>0, <1>1, FailsAtOnce
<1>2. CASE /\ call' = [call EXCEPT ![p].step = "ok", ![p].read = QueryConditions(p)]
           /\ UNCHANGED <<kind, rows, links, bounds, ghost>>
  <2>0. call[p] \in Call /\ Listed(p) \subseteq Owners
    BY CallIs DEF Inv
  <2>1. QueryConditions(p) \in SUBSET Targets
    BY DEF QueryConditions, Linked, Inv, DbTypes
  <2>2. Moved(p) /\ call'[p].step = "ok" /\ call'[p].read = QueryConditions(p)
    <3>1. "ok" \in Steps /\ CallTypes  BY DEF Inv, Steps
    <3> QED BY ONLY <1>2, <2>1, <3>1, CallRead, Zenon
  <2>3. SameCall(p)  BY <1>2, <2>2 DEF SameCall, Moved
  <2>4. Reads(p)'  BY <1>0, <2>2 DEF Reads, Running, Moved
  <2>5. ASSUME Clean(p), Tracked(p) PROVE \A j \in DOMAIN call'[p].list : Asked(p, j)'
    <3>1. Untouched(p)  BY <1>0, <2>5 DEF Tracked
    <3>2. \A o \in Listed(p) : Now(o) \subseteq QueryConditions(p)
      <4> SUFFICES ASSUME NEW o \in Listed(p), NEW t \in Now(o) PROVE t \in QueryConditions(p)
        OBVIOUS
      <4>1. CASE kind = "belongs_to"
        <5>1. fk[p][o] = t /\ t # None  BY <3>1, <4>1 DEF Untouched
        <5> QED BY <4>1, <5>1 DEF QueryConditions, Keys, Listed, Now, Linked
      <4>2. CASE kind # "belongs_to"  BY <4>2 DEF QueryConditions, Now
      <4> QED BY <4>1, <4>2
    <3>3. \A t \in QueryConditions(p) : \E x \in Listed(p) : t \in Now(x)
      <4> SUFFICES ASSUME NEW t \in QueryConditions(p) PROVE \E x \in Listed(p) : t \in Now(x)
        OBVIOUS
      <4>1. CASE kind = "belongs_to"
        <5>1. PICK o \in Listed(p) : t = fk[p][o] /\ t # None
          BY <4>1 DEF QueryConditions, Keys, Listed
        <5>2. t \in Before(p, o)  BY <3>1, <4>1, <5>1 DEF Untouched
        <5> QED BY <3>1, <5>2 DEF Untouched
      <4>2. CASE kind # "belongs_to"  BY <4>2 DEF QueryConditions, Now
      <4> QED BY <4>1, <4>2
    <3>4. \A o : Now(o)' = Now(o)  BY <1>2 DEF Now
    <3>5. Listed(p)' = Listed(p)  BY <2>3, Carried
    <3> SUFFICES ASSUME NEW j \in DOMAIN call[p].list PROVE Asked(p, j)'
      BY <2>2 DEF Moved
    <3>6. call[p].list[j] \in Listed(p)  BY DEF Listed, ToSet
    <3> QED BY <1>0, <2>2, <3>2, <3>3, <3>4, <3>5, <3>6 DEF Asked, Moved
  <2>6. AtStep(p)' /\ (Clean(p) /\ Tracked(p) => Tracked(p)')
    <3>1. AtStep(p)'  BY <2>2 DEF AtStep
    <3> QED BY <1>0, <2>2, <2>5, <3>1, OverTracked DEF Moved
  <2> QED BY <1>0, <1>2, <2>2, <2>4, <2>6, Reading
<1> QED BY <1>1, <1>2 DEF Find

LEMMA ReadJoinsInv ==
    ASSUME Inv, NEW p \in Programs, ReadJoins(p) PROVE Inv'
<1>0. Memories(p) /\ call[p].step = "joins" /\ Shape(p) /\ Reads(p)
  BY SameMemory DEF ReadJoins, Inv
<1>p. call[p].op = "preload" /\ kind = "many_to_many"  BY <1>0 DEF Shape, AtStep
<1>1. CASE Goes(p, "failed") /\ Faulty(p)  BY <1>0, <1>p, <1>1, FailsAtOnce
<1>2. CASE /\ call' = [call EXCEPT ![p].step = "targets", ![p].read = {x \in links : x[1] \in Listed(p)}]
           /\ UNCHANGED <<kind, rows, links, bounds, ghost>>
  <2> DEFINE read == {x \in links : x[1] \in Listed(p)}
  <2>1. read \in SUBSET Pairs  BY DEF Inv, DbTypes
  <2>2. Moved(p) /\ call'[p].step = "targets" /\ call'[p].read = read
    <3>1. "targets" \in Steps /\ CallTypes  BY DEF Inv, Steps
    <3> QED BY ONLY <1>2, <2>1, <3>1, CallRead, Zenon
  <2>3. SameCall(p) /\ UNCHANGED <<mem, fk>>  BY <1>2, <2>2 DEF SameCall, Moved, ReadJoins
  <2>4. /\ Listed(p)' = Listed(p) /\ IsSlice(p)' = IsSlice(p)
        /\ \A o : Before(p, o)' = Before(p, o) /\ Now(o)' = Now(o)
    BY <1>2, <2>3, Carried DEF Now
  <2>5. ghost[p].always \subseteq Solid(links, rows.targets) /\ links \subseteq ghost[p].ever
    BY <1>0, <1>p DEF Reads, Running
  <2>6. Reads(p)'
    <3>1. read \subseteq ghost[p].ever  BY <2>5
    <3>2. \A o \in Listed(p), t \in Targets : <<o, t>> \in ghost[p].always => <<o, t>> \in read
      BY <2>5 DEF Solid
    <3>3. IsSlice(p) => \A o \in Listed(p) : mem[p][o] = {}  BY <1>0, <1>p DEF Reads
    <3> QED BY <1>2, <1>p, <2>2, <2>3, <2>4, <2>5, <3>1, <3>2, <3>3 DEF Reads, Moved
  <2>7. ASSUME Clean(p), Tracked(p) PROVE Tracked(p)'
    <3>1. OwnersRead(p) /\ ~ghost[p].fault  BY <1>0, <1>p, <2>7 DEF Tracked, Running
    <3>2. OwnersRead(p)'
      <4> SUFFICES ASSUME NEW o \in Listed(p)
                   PROVE  /\ Now(o) = Before(p, o)
                          /\ mem[p][o] = Before(p, o) \/ (IsSlice(p) /\ mem[p][o] = {})
                          /\ \A t \in Targets : (<<o, t>> \in read) = (<<o, t>> \in links)
        BY <1>2, <1>p, <2>2, <2>3, <2>4 DEF OwnersRead
      <4> QED BY <3>1 DEF OwnersRead
    <3> QED BY <1>2, <1>p, <2>2, <3>1, <3>2 DEF Tracked, Moved
  <2>8. AtStep(p)'  BY <1>p, <2>2 DEF AtStep, Moved
  <2> QED BY <1>0, <1>2, <2>2, <2>6, <2>7, <2>8, Reading
<1> QED BY <1>1, <1>2 DEF ReadJoins

(* A belongs_to's foreign key, as a query of the owners reads it.          *)
ReadKey(o) ==
    IF kind = "belongs_to" /\ Linked(links, Targets, o) # {} THEN CHOOSE t \in Targets : <<o, t>> \in links ELSE None

LEMMA ReadKeyIs ==
    ASSUME DbTypes, NEW o \in Owners
    PROVE  /\ ReadKey(o) \in Targets \cup {None}
           /\ kind = "belongs_to" => {ReadKey(o)} \ {None} = Linked(links, Targets, o)
<1>1. CASE kind = "belongs_to" /\ Linked(links, Targets, o) # {}
  <2>1. PICK t \in Targets : <<o, t>> \in links  BY <1>1 DEF Linked
  <2>2. ReadKey(o) = CHOOSE u \in Targets : <<o, u>> \in links  BY <1>1 DEF ReadKey
  <2>3. ReadKey(o) \in Targets /\ <<o, ReadKey(o)>> \in links  BY <2>1, <2>2
  <2>4. \A u \in Targets : <<o, u>> \in links => u = ReadKey(o)
    <3> SUFFICES ASSUME NEW u \in Targets, <<o, u>> \in links PROVE u = ReadKey(o)  OBVIOUS
    <3>1. \A x, y \in links : x[1] = y[1] => x = y  BY <1>1 DEF DbTypes, OneKey
    <3>2. <<o, u>> = <<o, ReadKey(o)>>  BY <2>3, <3>1
    <3> QED BY <3>2
  <2>5. ReadKey(o) # None  BY <2>3, ObjectsAssumption
  <2> QED BY <2>3, <2>4, <2>5 DEF Linked
<1>2. CASE ~(kind = "belongs_to" /\ Linked(links, Targets, o) # {})
  <2>1. ReadKey(o) = None  BY <1>2 DEF ReadKey
  <2> QED BY <1>2, <2>1
<1> QED BY <1>1, <1>2

LEMMA ReadOwnersInv ==
    ASSUME Inv, NEW p \in Programs, ReadOwners(p) PROVE Inv'
<1>0. call[p].step = "owners" /\ Shape(p) /\ Reads(p) /\ CallTypes /\ MemTypes /\ DbTypes
  BY DEF ReadOwners, Inv
<1>p. call[p].op = "preload"  BY <1>0 DEF Shape, AtStep
<1>1. CASE Goes(p, "failed") /\ Faulty(p) /\ UNCHANGED <<mem, fk>>
  BY <1>p, <1>1, SameMemory, FailsAtOnce
<1>2. CASE Goes(p, "failed") /\ UNCHANGED <<kind, rows, links, bounds, ghost, mem, fk>>
  <2>1. Moved(p) /\ call'[p].step = "failed"  BY <1>0, <1>2, CallGoes DEF Steps
  <2>2. AtStep(p)' /\ Tracked(p)'  BY <1>p, <2>1, FailedTracked DEF Moved
  <2>3. Reads(p)'  BY <2>1 DEF Reads, Running
  <2> QED BY <1>2, <2>1, <2>2, <2>3, SameMemory, Reading
<1> DEFINE found == Listed(p) \cap rows.owners
<1>a. call[p] \in Call /\ Listed(p) \subseteq Owners
  BY <1>0, CallIs
<1>3. CASE /\ found = Listed(p) /\ found # {}
           /\ fk' = [fk EXCEPT ![p] = [o \in Owners |-> IF o \notin found THEN @[o] ELSE ReadKey(o)]]
           /\ mem' = [mem EXCEPT ![p] = [o \in Owners |-> IF o \in found /\ IsSlice(p) THEN {} ELSE @[o]]]
           /\ Goes(p, IF kind = "many_to_many" THEN "joins" ELSE "targets")
           /\ UNCHANGED <<kind, rows, links, bounds, ghost>>
  <2> DEFINE step == IF kind = "many_to_many" THEN "joins" ELSE "targets"
  <2>0. call[p] \in Call /\ Listed(p) \subseteq Owners
    BY <1>0, CallIs
  <2>1. Moved(p) /\ call'[p].step = step
    <3>1. step \in Steps  BY DEF Steps
    <3> QED BY <1>0, <1>3, <3>1, CallGoes
  <2>2. SameCall(p)  BY <1>3, <2>1 DEF SameCall, Moved
  <2>3. /\ fk'[p] = [o \in Owners |-> IF o \notin Listed(p) THEN fk[p][o] ELSE ReadKey(o)]
        /\ mem'[p] = [o \in Owners |-> IF o \in Listed(p) /\ IsSlice(p) THEN {} ELSE mem[p][o]]
    BY <1>0, <1>3 DEF MemTypes
  <2>4. Memories(p)
    <3>1. fk'[p] \in [Owners -> Targets \cup {None}]  BY <1>0, <2>3, ReadKeyIs DEF MemTypes
    <3>2. mem'[p] \in [Owners -> SUBSET Targets]  BY <1>0, <2>3 DEF MemTypes
    <3> QED BY <1>0, <1>3, <3>1, <3>2 DEF MemTypes, Memories
  <2>5. \A o \in Listed(p) :
          /\ fk'[p][o] = ReadKey(o) /\ mem'[p][o] = IF IsSlice(p) THEN {} ELSE mem[p][o]
    BY <2>0, <2>3
  <2>6. /\ Listed(p)' = Listed(p) /\ IsSlice(p)' = IsSlice(p)
        /\ \A o : Before(p, o)' = Before(p, o) /\ Now(o)' = Now(o)
    BY <1>3, <2>2, Carried DEF Now
  <2>7. ghost[p].always \subseteq Solid(links, rows.targets) /\ links \subseteq ghost[p].ever
    BY <1>0, <1>p DEF Reads, Running
  <2>8. Reads(p)'
    <3>1. ASSUME kind = "belongs_to", NEW o \in Listed(p)
          PROVE  /\ ReadKey(o) # None => <<o, ReadKey(o)>> \in ghost[p].ever
                 /\ \A t \in Targets : <<o, t>> \in ghost[p].always => t = ReadKey(o)
      <4>1. {ReadKey(o)} \ {None} = Linked(links, Targets, o)  BY <1>0, <2>0, <3>1, ReadKeyIs
      <4>2. ReadKey(o) # None => <<o, ReadKey(o)>> \in ghost[p].ever
        BY <2>7, <4>1 DEF Linked
      <4>3. \A t \in Targets : <<o, t>> \in ghost[p].always => t = ReadKey(o)
        BY <2>7, <4>1 DEF Linked, Solid
      <4> QED BY <4>2, <4>3
    <3>2. UNCHANGED <<kind, rows, links, ghost>> /\ call'[p].op = "preload" /\ call'[p].step = step
      BY <1>3, <1>p, <2>1 DEF Moved
    <3>3. call'[p].step = "targets" => kind # "many_to_many"  BY <3>2
    <3>4. \A o \in Listed(p)' : fk'[p][o] = ReadKey(o) /\ (IsSlice(p)' => mem'[p][o] = {})
      BY <2>5, <2>6
    <3>5. call'[p].step # "ok"  BY <3>2
    <3> QED BY <2>6, <2>7, <3>1, <3>2, <3>3, <3>4, <3>5 DEF Reads
  <2>9. ASSUME Clean(p), Tracked(p) PROVE Tracked(p)'
    <3>1. Untouched(p) /\ ~ghost[p].fault  BY <1>0, <2>9 DEF Tracked, Running
    <3>2. OwnersRead(p)'
      <4> SUFFICES ASSUME NEW o \in Listed(p)
                   PROVE  /\ Now(o) = Before(p, o)
                          /\ mem'[p][o] = Before(p, o) \/ (IsSlice(p) /\ mem'[p][o] = {})
                          /\ kind = "belongs_to" => {fk'[p][o]} \ {None} = Linked(links, Targets, o)
        BY <1>3, <2>1, <2>6 DEF OwnersRead
      <4> QED BY <1>0, <2>0, <2>5, <3>1, ReadKeyIs DEF Untouched
    <3> QED BY <1>3, <1>p, <2>1, <3>1, <3>2 DEF Tracked, Moved
  <2>10. AtStep(p)'  BY <1>3, <1>p, <2>1 DEF AtStep, Moved
  <2> QED BY <1>3, <2>1, <2>4, <2>8, <2>9, <2>10, Reading
<1>4. CASE /\ found # Listed(p) /\ (IsSlice(p) \/ found # {})
           /\ fk' = [fk EXCEPT ![p] = [o \in Owners |-> IF o \notin found THEN @[o] ELSE ReadKey(o)]]
           /\ mem' = [mem EXCEPT ![p] = [o \in Owners |-> IF o \in found /\ IsSlice(p) THEN {} ELSE @[o]]]
           /\ call' = [call EXCEPT ![p].list = SetToSeq(found),
                        ![p].step = IF found = {} THEN "ok" ELSE IF kind = "many_to_many" THEN "joins" ELSE "targets"]
           /\ UNCHANGED <<kind, rows, links, bounds, ghost>>
  <2> DEFINE step == IF found = {} THEN "ok" ELSE IF kind = "many_to_many" THEN "joins" ELSE "targets"
             new  == SetToSeq(found)
  <2>1. /\ new \in Seq(Owners) /\ ToSet(new) \subseteq found
        /\ \A j, k \in DOMAIN new : new[j] = new[k] => j = k
    BY <1>a, OwnersListed
  <2>s. step \in Steps  BY DEF Steps
  <2> HIDE DEF new
  <2>2. /\ call'[p] \in Call /\ \A r \in Programs \ {p} : call'[r] = call[r]
        /\ call'[p].list = new /\ call'[p].step = step /\ call'[p].op = call[p].op
        /\ call'[p].values = call[p].values /\ call'[p].unscoped = call[p].unscoped
        /\ call'[p].clones = call[p].clones /\ call'[p].old = call[p].old
    <3>1. call' = [call EXCEPT ![p].list = new, ![p].step = step]  BY <1>4 DEF new
    <3> HIDE DEF step
    <3>2. call'[p] = [call[p] EXCEPT !.list = new, !.step = step]
      BY <1>0, <3>1 DEF CallTypes
    <3> QED BY <1>0, <1>a, <2>1, <2>s, <3>1, <3>2 DEF Call, CallTypes
  <2>3. /\ fk'[p] = [o \in Owners |-> IF o \notin found THEN fk[p][o] ELSE ReadKey(o)]
        /\ mem'[p] = [o \in Owners |-> IF o \in found /\ IsSlice(p) THEN {} ELSE mem[p][o]]
    BY <1>0, <1>4 DEF MemTypes
  <2>4. Memories(p)
    <3>1. fk'[p] \in [Owners -> Targets \cup {None}]  BY <1>0, <2>3, ReadKeyIs DEF MemTypes
    <3>2. mem'[p] \in [Owners -> SUBSET Targets]  BY <1>0, <2>3 DEF MemTypes
    <3> QED BY <1>0, <1>4, <3>1, <3>2 DEF MemTypes, Memories
  <2>5. IsSlice(p)
    <3> SUFFICES ASSUME ~IsSlice(p) PROVE FALSE  OBVIOUS
    <3>1. call[p].list \in Seq(Owners) /\ Len(call[p].list) <= 1  BY <1>a DEF Call, IsSlice
    <3>2. \A j, k \in DOMAIN call[p].list : j = k  BY <3>1
    <3>3. \A x, y \in Listed(p) : x = y  BY <3>2 DEF Listed, ToSet
    <3> QED BY <1>4, <3>3
  <2>6. \A o \in Listed(p)' : o \in found /\ o \in Owners /\ fk'[p][o] = ReadKey(o) /\ mem'[p][o] = {}
    BY <1>a, <2>1, <2>2, <2>3, <2>5 DEF Listed
  <2>7. ghost[p].always \subseteq Solid(links, rows.targets) /\ links \subseteq ghost[p].ever
    BY <1>0, <1>p DEF Reads, Running
  <2>8. Shape(p)'
    <3>1. Asking(p)'
      <4>1. OneKey(kind', ghost'[p].links) /\ (call[p].old # {} => kind' = "belongs_to" /\ call[p].unscoped)
        BY <1>0, <1>4 DEF Shape, Asking
      <4>2. call'[p].op = "preload" /\ call'[p].old = call[p].old /\ call'[p].unscoped = call[p].unscoped
        BY <1>p, <2>2
      <4>3. \A j, k \in DOMAIN call'[p].list : call'[p].list[j] = call'[p].list[k] => j = k
        BY <2>1, <2>2
      <4> QED BY <4>1, <4>2, <4>3 DEF Asking
    <3>2. AtStep(p)'  BY <1>p, <1>4, <2>2 DEF AtStep
    <3> QED BY <3>1, <3>2 DEF Shape
  <2>9. Reads(p)'
    <3>1. ASSUME kind = "belongs_to", NEW o \in Owners
          PROVE  /\ ReadKey(o) # None => <<o, ReadKey(o)>> \in ghost[p].ever
                 /\ \A t \in Targets : <<o, t>> \in ghost[p].always => t = ReadKey(o)
      <4>1. {ReadKey(o)} \ {None} = Linked(links, Targets, o)  BY <1>0, <3>1, ReadKeyIs
      <4>2. ReadKey(o) # None => <<o, ReadKey(o)>> \in ghost[p].ever
        BY <2>7, <4>1 DEF Linked
      <4>3. \A t \in Targets : <<o, t>> \in ghost[p].always => t = ReadKey(o)
        BY <2>7, <4>1 DEF Linked, Solid
      <4> QED BY <4>2, <4>3
    <3>2. UNCHANGED <<kind, rows, links, ghost>> /\ call'[p].op = "preload" /\ call'[p].step = step
      BY <1>4, <1>p, <2>2
    <3>3. call'[p].step = "targets" => kind # "many_to_many"  BY <3>2
    <3>4. call'[p].step = "ok" => Listed(p)' = {}  BY <2>6, <3>2
    <3> QED BY <2>6, <2>7, <3>1, <3>2, <3>3, <3>4 DEF Reads
  <2>10. ~Clean(p)'
    <3> SUFFICES ASSUME Clean(p)' PROVE FALSE  OBVIOUS
    <3>1. Undisturbed(p) /\ ~Overwrites(p)
      BY <1>p, <1>4, <2>2 DEF Clean, Undisturbed, Overwrites
    <3>2. Untouched(p)  BY <1>0, <3>1 DEF Inv, Clean, Tracked
    <3> QED BY <1>4, <3>2 DEF Untouched
  <2>11. CallTypes' /\ DbTypes'
    BY <1>0, <1>4, <2>2 DEF CallTypes, DbTypes, OneKey
  <2>12. Others(p)  BY <1>4, <2>4 DEF Others, Quiet, Memories
  <2> QED BY <1>4, <2>2, <2>4, <2>8, <2>9, <2>10, <2>11, <2>12, StepTo DEF Memories
<1>5. ASSUME found = Listed(p), found # {},
             call' = [call EXCEPT ![p].list = IF found = Listed(p) THEN @ ELSE SetToSeq(found),
                        ![p].step = IF found = {} THEN "ok" ELSE IF kind = "many_to_many" THEN "joins" ELSE "targets"]
      PROVE  Goes(p, IF kind = "many_to_many" THEN "joins" ELSE "targets")
  <2> DEFINE step == IF kind = "many_to_many" THEN "joins" ELSE "targets"
  <2>1. call' = [call EXCEPT ![p].list = call[p].list, ![p].step = step]  BY <1>5
  <2> HIDE DEF step
  <2>2. call \in [Programs -> Call]  BY <1>0 DEF CallTypes
  <2>3. [call[p] EXCEPT !.list = call[p].list, !.step = step] = [call[p] EXCEPT !.step = step]
    BY <1>a DEF Call
  <2>4. call' = [call EXCEPT ![p].step = step]  BY <2>1, <2>2, <2>3
  <2> QED BY <2>4 DEF Goes, step
<1>6. IsSlice(p) => Listed(p) # {}
  <2>1. call[p].list \in Seq(Owners)  BY <1>a DEF Call
  <2>2. IsSlice(p) => 1 \in DOMAIN call[p].list  BY <2>1 DEF IsSlice
  <2> QED BY <2>2 DEF Listed, ToSet
<1>7. CASE /\ IsSlice(p) \/ found # {}
           /\ fk' = [fk EXCEPT ![p] = [o \in Owners |-> IF o \notin found THEN @[o] ELSE ReadKey(o)]]
           /\ mem' = [mem EXCEPT ![p] = [o \in Owners |-> IF o \in found /\ IsSlice(p) THEN {} ELSE @[o]]]
           /\ call' = [call EXCEPT ![p].list = IF found = Listed(p) THEN @ ELSE SetToSeq(found),
                        ![p].step = IF found = {} THEN "ok" ELSE IF kind = "many_to_many" THEN "joins" ELSE "targets"]
           /\ UNCHANGED <<kind, rows, links, bounds, ghost>>
  <2>1. CASE found = Listed(p)
    <3>1. found # {}  BY <1>6, <1>7, <2>1
    <3>2. Goes(p, IF kind = "many_to_many" THEN "joins" ELSE "targets")  BY <1>5, <1>7, <2>1, <3>1
    <3> QED BY <1>3, <1>7, <2>1, <3>1, <3>2
  <2>2. CASE found # Listed(p)  BY <1>4, <1>7, <2>2
  <2> QED BY <2>1, <2>2
<1> QED BY <1>1, <1>2, <1>7 DEF ReadOwners, ReadKey

LEMMA ReadTargetsInv ==
    ASSUME Inv, NEW p \in Programs, ReadTargets(p) PROVE Inv'
<1>0. /\ call[p].step = "targets" /\ call[p].op = "preload" /\ fk' = fk
      /\ Shape(p) /\ Reads(p) /\ CallTypes /\ MemTypes /\ DbTypes
  BY DEF ReadTargets, Inv
<1>a. call[p] \in Call /\ Listed(p) \subseteq Owners
  BY <1>0, CallIs
<1> DEFINE keyless == kind = "belongs_to" /\ Keys(p, call[p].list) = {}
<1>1. CASE Goes(p, "failed") /\ Faulty(p) /\ UNCHANGED mem
  BY <1>0, <1>1, SameMemory, FailsAtOnce
<1>2. CASE /\ IF keyless THEN UNCHANGED mem
              ELSE \E f \in [Listed(p) -> SUBSET Targets] :
                     /\ \A o \in Listed(p) : f[o] \in Fitting(Assigned(p, o))
                     /\ mem' = [mem EXCEPT ![p] = [o \in Owners |-> IF o \in Listed(p) THEN f[o] ELSE @[o]]]
           /\ Goes(p, "ok")
           /\ UNCHANGED <<kind, rows, links, bounds, ghost>>
  <2>1. Moved(p) /\ call'[p].step = "ok"  BY <1>0, <1>2, CallGoes DEF Steps
  <2>2. SameCall(p)  BY <1>2, <2>1 DEF SameCall, Moved
  <2>3. /\ Listed(p)' = Listed(p) /\ IsSlice(p)' = IsSlice(p)
        /\ Single' = Single /\ Crossed(p)' = Crossed(p)
        /\ \A o : Before(p, o)' = Before(p, o) /\ Now(o)' = Now(o)
    BY <1>2, <2>2, Carried DEF Now
  <2>4. /\ Memories(p)
        /\ IF keyless THEN \A o \in Listed(p) : mem'[p][o] = mem[p][o]
           ELSE \A o \in Listed(p) : mem'[p][o] \in Fitting(Assigned(p, o))
    <3>1. CASE keyless  BY <1>0, <1>2, <3>1, SameMemory
    <3>2. CASE ~keyless
      <4>1. PICK f \in [Listed(p) -> SUBSET Targets] :
              /\ \A o \in Listed(p) : f[o] \in Fitting(Assigned(p, o))
              /\ mem' = [mem EXCEPT ![p] = [o \in Owners |-> IF o \in Listed(p) THEN f[o] ELSE @[o]]]
        BY <1>2, <3>2
      <4>2. mem'[p] = [o \in Owners |-> IF o \in Listed(p) THEN f[o] ELSE mem[p][o]]
        BY <1>0, <4>1 DEF MemTypes
      <4>3. mem'[p] \in [Owners -> SUBSET Targets]  BY <1>0, <4>2 DEF MemTypes
      <4>4. \A o \in Listed(p) : mem'[p][o] = f[o]  BY <1>a, <4>2
      <4> QED BY <1>0, <3>2, <4>1, <4>3, <4>4 DEF MemTypes, Memories
    <3> QED BY <3>1, <3>2
  <2>5. ghost[p].always \subseteq Solid(links, rows.targets) /\ links \subseteq ghost[p].ever
    BY <1>0 DEF Reads, Running
  <2>6. \A o, S : S \in Fitting(Assigned(p, o)) =>
          /\ S \subseteq Assigned(p, o) /\ (Assigned(p, o) # {} => S # {})
          /\ ~Single => S = Assigned(p, o)
    BY DEF Fitting
  <2>7. \A o \in Listed(p) : Between(p, o)'
    <3> SUFFICES ASSUME NEW o \in Listed(p) PROVE Between(p, o)'  OBVIOUS
    <3>1. CASE keyless
      <4>1. fk[p][o] = None  BY <1>a, <3>1 DEF Keys, Listed
      <4>2. CASE IsSlice(p)
        <5>1. mem[p][o] = {}  BY <1>0, <4>2 DEF Reads
        <5>2. \A t \in Targets : <<o, t>> \notin ghost[p].always
          BY <1>0, <3>1, <4>1, ObjectsAssumption DEF Reads
        <5> QED BY <1>2, <2>4, <3>1, <5>1, <5>2 DEF Between
      <4>3. CASE ~IsSlice(p)  BY <1>0, <1>2, <2>3, <3>1, <4>1, <4>3 DEF Between
      <4> QED BY <4>2, <4>3
    <3>2. CASE ~keyless
      <4>1. mem'[p][o] \in Fitting(Assigned(p, o))  BY <2>4, <3>2
      <4>2. \A t \in Assigned(p, o) : <<o, t>> \in ghost[p].ever
        <5> SUFFICES ASSUME NEW t \in Assigned(p, o) PROVE <<o, t>> \in ghost[p].ever  OBVIOUS
        <5>1. t \in Targets /\ t # None  BY <1>0, ObjectsAssumption DEF Assigned, DbTypes
        <5>2. CASE kind = "belongs_to"
          <6>1. t = fk[p][o]  BY <5>2 DEF Assigned, Has
          <6>2. fk[p][o] # None => <<o, fk[p][o]>> \in ghost[p].ever  BY <1>0, <5>2 DEF Reads
          <6> QED BY <5>1, <6>1, <6>2
        <5>3. CASE Has  BY <2>5, <5>3 DEF Assigned, Has
        <5>4. CASE kind = "many_to_many"  BY <1>0, <5>4 DEF Assigned, Has, Reads
        <5> QED BY <1>0, <5>2, <5>3, <5>4 DEF Has, DbTypes
      <4>3. \A t \in Targets : <<o, t>> \in ghost[p].always => t \in Assigned(p, o)
        <5> SUFFICES ASSUME NEW t \in Targets, <<o, t>> \in ghost[p].always PROVE t \in Assigned(p, o)
          OBVIOUS
        <5>1. t \in rows.targets /\ <<o, t>> \in links  BY <2>5 DEF Solid
        <5>2. CASE kind = "belongs_to"  BY <1>0, <5>1, <5>2 DEF Assigned, Reads
        <5>3. CASE Has  BY <5>1, <5>3 DEF Assigned, Has
        <5>4. CASE kind = "many_to_many"  BY <1>0, <5>1, <5>4 DEF Assigned, Has, Reads
        <5> QED BY <1>0, <5>2, <5>3, <5>4 DEF Has, DbTypes
      <4>5. /\ \A t \in mem'[p][o] : <<o, t>> \in ghost[p].ever
            /\ (\E t \in Targets : <<o, t>> \in ghost[p].always) => mem'[p][o] # {}
            /\ ~Single => \A t \in Targets : <<o, t>> \in ghost[p].always => t \in mem'[p][o]
        BY <2>6, <4>1, <4>2, <4>3
      <4> QED BY <1>2, <2>3, <4>5 DEF Between
    <3> QED BY <3>1, <3>2
  <2>8. Reads(p)'  BY <2>1, <2>3, <2>7 DEF Reads, Running
  <2>9. ASSUME Clean(p), Tracked(p), NEW j \in DOMAIN call[p].list PROVE Asked(p, j)'
    <3> DEFINE o == call[p].list[j]
    <3>1. OwnersRead(p) /\ o \in Listed(p)
      BY <1>0, <2>9 DEF Tracked, Listed, ToSet
    <3>2. mem'[p][o] \in Fitting(Now(o))
      <4>1. CASE keyless
        <5>1. fk[p][o] = None  BY <1>a, <3>1, <4>1 DEF Keys, Listed
        <5>2. Linked(links, Targets, o) = {}  BY <1>0, <3>1, <4>1, <5>1 DEF OwnersRead
        <5>3. Now(o) = {}  BY <1>0, <5>2 DEF Now, Linked, DbTypes
        <5>4. mem'[p][o] = {}  BY <2>4, <3>1, <4>1, <5>3 DEF OwnersRead
        <5> QED BY <5>3, <5>4 DEF Fitting
      <4>2. CASE ~keyless
        <5>1. Assigned(p, o) = Now(o)
          <6>1. \A t \in rows.targets : (t \in Assigned(p, o)) = (<<o, t>> \in links)
            <7> SUFFICES ASSUME NEW t \in rows.targets PROVE (t \in Assigned(p, o)) = (<<o, t>> \in links)
              OBVIOUS
            <7>1. t \in Targets /\ t # None  BY <1>0, ObjectsAssumption DEF DbTypes
            <7>2. CASE kind = "belongs_to"
              <8>1. {fk[p][o]} \ {None} = Linked(links, Targets, o)  BY <1>0, <3>1, <7>2 DEF OwnersRead
              <8> QED BY <7>1, <7>2, <8>1 DEF Assigned, Linked
            <7>3. CASE Has  BY <7>3 DEF Assigned, Has
            <7>4. CASE kind = "many_to_many"  BY <1>0, <3>1, <7>1, <7>4 DEF Assigned, Has, OwnersRead
            <7> QED BY <1>0, <7>2, <7>3, <7>4 DEF Has, DbTypes
          <6> QED BY <6>1 DEF Assigned, Now, Linked
        <5> QED BY <2>4, <3>1, <4>2, <5>1
      <4> QED BY <4>1, <4>2
    <3>3. \A S : Fitting(S)' = Fitting(S)  BY <2>3 DEF Fitting
    <3> QED BY <1>0, <2>1, <2>3, <3>2, <3>3 DEF Asked, Moved, Fitting
  <2>10. AtStep(p)' /\ (Clean(p) /\ Tracked(p) => Tracked(p)')
    <3>1. AtStep(p)'  BY <2>1 DEF AtStep
    <3> QED BY <1>0, <2>1, <2>9, <3>1, OverTracked DEF Moved
  <2> QED BY <1>2, <2>1, <2>4, <2>8, <2>10, Reading
<1> QED BY <1>0, <1>1, <1>2 DEF ReadTargets

(* Links are taken from the database, and targets that no other link leads *)
(* to.                                                                     *)
LEMMA Thinned ==
    ASSUME DbTypes, kind' = kind, links' \subseteq links, rows'.owners = rows.owners,
           rows' \in [owners : SUBSET Owners, targets : SUBSET Targets],
           kind # "belongs_to" => \A x \in links' : x[2] \in rows'.targets
    PROVE  DbTypes'
<1>1. OneKey(kind', links')  BY DEF DbTypes, OneKey
<1> QED BY <1>1 DEF DbTypes

(* cleanUpDeletedRelations, in the memory of a program with types.         *)
LEMMA CleanUpMemory ==
    ASSUME Inv, NEW p \in Programs, CleanUp(p)
    PROVE  /\ Memories(p)
           /\ call[p].op = "delete" => \A o \in Listed(p) : mem'[p][o] = mem[p][o] \ Values(p)
           /\ call[p].op # "delete" => mem' = mem
<1> DEFINE held(o) == o \in Listed(p) /\ mem[p][o] \cap Values(p) # {}
<1>0. MemTypes /\ Listed(p) \subseteq Owners  BY CallIs DEF Inv
<1>1. CASE call[p].op # "delete"  BY <1>1, SameMemory DEF CleanUp
<1>2. CASE call[p].op = "delete"
  <2>1. /\ mem' = [mem EXCEPT ![p] = [o \in Owners |-> IF held(o) THEN @[o] \ Values(p) ELSE @[o]]]
        /\ fk' = [fk EXCEPT ![p] = [o \in Owners |-> IF held(o) THEN None ELSE @[o]]]
    BY <1>2 DEF CleanUp
  <2>2. /\ mem'[p] = [o \in Owners |-> IF held(o) THEN mem[p][o] \ Values(p) ELSE mem[p][o]]
        /\ fk'[p] = [o \in Owners |-> IF held(o) THEN None ELSE fk[p][o]]
    BY <1>0, <2>1 DEF MemTypes
  <2>3. mem'[p] \in [Owners -> SUBSET Targets] /\ fk'[p] \in [Owners -> Targets \cup {None}]
    BY <1>0, <2>2 DEF MemTypes
  <2>4. Memories(p)  BY <1>0, <2>1, <2>3 DEF MemTypes, Memories
  <2>5. \A o \in Listed(p) : mem'[p][o] = mem[p][o] \ Values(p)
    BY <1>0, <2>2
  <2> QED BY <1>2, <2>4, <2>5
<1> QED BY <1>1, <1>2

LEMMA DeleteLinksInv ==
    ASSUME Inv, NEW p \in Programs, DeleteLinks(p) PROVE Inv'
<1> DEFINE gone == {x \in links : x[1] \in Listed(p) /\ x[2] \in Values(p)}
           purges == kind = "belongs_to" /\ call[p].unscoped /\ call[p].old # {}
<1>0. /\ call[p].step = "delete" /\ call[p].op = "delete"
      /\ Shape(p) /\ CallTypes /\ MemTypes /\ DbTypes
  BY DEF DeleteLinks, Inv
<1>a. Listed(p) \subseteq Owners  BY <1>0, CallIs
<1>1. CASE Goes(p, IF purges THEN "purge" ELSE "failed") /\ Faulty(p) /\ UNCHANGED <<mem, fk>>
  <2>1. CASE ~purges  BY <1>0, <1>1, <2>1, SameMemory, FailsAtOnce
  <2>2. CASE purges
    <3>1. Moved(p) /\ call'[p].step = "purge"  BY <1>0, <1>1, <2>2, CallGoes DEF Steps
    <3>2. AtStep(p)'
      BY <1>0, <1>1, <2>2, <3>1, GhostFaulty DEF AtStep, Moved
    <3>3. ~Clean(p)'
      BY <1>0, <1>1, <2>2, <3>1, GhostFaulty DEF Clean, Overwrites, Moved
    <3>4. Reads(p)'  BY <1>0, <3>1 DEF Reads, Moved
    <3> QED BY <1>1, <3>1, <3>2, <3>3, <3>4, SameMemory, Failing
  <2> QED BY <2>1, <2>2
<1>2. CASE /\ links' = links \ gone
           /\ rows' = IF Has /\ call[p].unscoped THEN [rows EXCEPT !.targets = @ \ {x[2] : x \in gone}] ELSE rows
           /\ Goes(p, IF purges THEN "purge" ELSE "ok") /\ Wrote(p)
           /\ IF purges THEN UNCHANGED <<mem, fk>> ELSE CleanUp(p)
           /\ UNCHANGED <<kind, bounds>>
  <2> DEFINE step == IF purges THEN "purge" ELSE "ok"
  <2>1. Moved(p) /\ call'[p].step = step
    <3>1. step \in Steps  BY DEF Steps
    <3> QED BY <1>0, <1>2, <3>1, CallGoes
  <2>2. SameCall(p)
    BY <1>0, <1>2, <2>1, GhostWrote DEF SameCall, Moved, DbTypes
  <2>3. /\ Memories(p)
        /\ \A o \in Listed(p) : mem'[p][o] = IF purges THEN mem[p][o] ELSE mem[p][o] \ Values(p)
    BY <1>0, <1>2, SameMemory, CleanUpMemory
  <2>4. /\ rows'.owners = rows.owners /\ rows' \in [owners : SUBSET Owners, targets : SUBSET Targets]
        /\ \A t \in rows.targets : t \in rows'.targets \/ \E x \in gone : Has /\ t = x[2]
        /\ rows'.targets \subseteq rows.targets
    BY <1>0, <1>2 DEF DbTypes
  <2>5. DbTypes'
    <3>1. ASSUME kind # "belongs_to", NEW x \in links' PROVE x[2] \in rows'.targets
      <4>1. x \in links /\ x \notin gone /\ x[2] \in rows.targets  BY <1>0, <1>2, <3>1 DEF DbTypes
      <4>2. Has => \A y \in gone : y[2] # x[2]
        BY <1>0, <4>1 DEF DbTypes, OneKey, Has
      <4> QED BY <2>4, <4>1, <4>2
    <3> QED BY <1>0, <1>2, <2>4, <3>1, Thinned
  <2>6. \A o \in Listed(p) : Now(o)' = Now(o) \ Values(p)
    <3> SUFFICES ASSUME NEW o \in Listed(p)
                 PROVE  \A t : (t \in rows'.targets /\ <<o, t>> \in links')
                                 <=> (t \in rows.targets /\ <<o, t>> \in links /\ t \notin Values(p))
      BY DEF Now, Linked
    <3>1. \A t : <<o, t>> \in links' <=> <<o, t>> \in links /\ t \notin Values(p)
      BY <1>2
    <3> QED BY <2>4, <3>1
  <2>l. \A o \in Listed(p) : Linked(links', Values(p), o) = {}
    <3> SUFFICES ASSUME NEW o \in Listed(p), NEW t \in Values(p), <<o, t>> \in links' PROVE FALSE
      BY DEF Linked
    <3> QED BY <1>2
  <2>7. ASSUME Clean(p), Tracked(p) PROVE Tracked(p)'
    <3>1. Untouched(p) /\ ~ghost[p].fault  BY <1>0, <2>7 DEF Tracked, Running
    <3>2. /\ Listed(p)' = Listed(p) /\ Values(p)' = Values(p) /\ ghost'[p].fault = ghost[p].fault
          /\ \A o : Before(p, o)' = Before(p, o)
      BY <1>0, <1>2, <2>2, Carried, GhostWrote DEF DbTypes
    <3>3. CASE purges
      <4>1. call'[p].step = "purge" /\ call'[p].op = "delete"  BY <1>0, <2>1, <3>3 DEF Moved
      <4>2. \A o \in Listed(p) : Now(o)' = Before(p, o) \ Values(p) /\ mem'[p][o] = Before(p, o)
        BY <2>3, <2>6, <3>1, <3>3 DEF Untouched
      <4> QED BY <2>l, <3>1, <3>2, <4>1, <4>2 DEF Tracked
    <3>4. CASE ~purges
      <4>1. call'[p].step = "ok" /\ call'[p].op = "delete" /\ call'[p].old = {}
        BY <1>0, <2>1, <3>4 DEF Moved, Shape, Asking
      <4>2. \A j \in DOMAIN call'[p].list : Asked(p, j)'
        <5> SUFFICES ASSUME NEW j \in DOMAIN call[p].list PROVE Asked(p, j)'  BY <2>1 DEF Moved
        <5> DEFINE o == call[p].list[j]
        <5>1. o \in Listed(p) /\ call'[p].list = call[p].list  BY <1>0, <2>1, CallIs DEF Moved
        <5>2. mem'[p][o] = Before(p, o) \ Values(p) /\ Now(o)' = Before(p, o) \ Values(p)
          BY <2>3, <2>6, <3>1, <3>4, <5>1 DEF Untouched
        <5> QED BY <2>l, <3>2, <4>1, <5>1, <5>2 DEF Asked
      <4> QED BY <4>1, <4>2, OverTracked
    <3> QED BY <3>3, <3>4
  <2>8. AtStep(p)'  BY <1>0, <1>2, <2>1 DEF AtStep, Moved
  <2> QED BY <1>0, <1>2, <2>1, <2>3, <2>5, <2>7, <2>8, Writing
<1> QED BY <1>1, <1>2 DEF DeleteLinks

LEMMA PurgeInv ==
    ASSUME Inv, NEW p \in Programs, Purge(p) PROVE Inv'
<1>0. /\ call[p].step = "purge" /\ Shape(p) /\ CallTypes /\ MemTypes /\ DbTypes
  BY DEF Purge, Inv
<1>a. kind = "belongs_to" /\ call[p].unscoped /\ call[p].op \in {"replace", "delete"}
  BY <1>0 DEF Shape, AtStep
<1>b. ASSUME Clean(p), Tracked(p), call[p].op = "replace", SameCall(p), UNCHANGED <<rows, links>>
      PROVE  Neither(p)'
  <2>1. \A j \in DOMAIN call[p].list : Now(call[p].list[j]) = call[p].values[j]
    BY <1>0, <1>b DEF Tracked
  <2>2. \A o : Now(o)' = Now(o)  BY <1>b DEF Now
  <2> QED BY <1>b, <2>1, <2>2 DEF Neither, SameCall
<1>1. CASE Goes(p, "failed") /\ Faulty(p) /\ UNCHANGED <<mem, fk>>
  <2>1. Moved(p) /\ call'[p].step = "failed"  BY <1>0, <1>1, CallGoes DEF Steps
  <2>2. AtStep(p)' /\ Reads(p)'  BY <2>1 DEF AtStep, Reads, Running
  <2>3. CASE call[p].op = "delete"
    <3>1. ~Clean(p)'  BY <1>0, <1>a, <1>1, <2>1, <2>3, GhostFaulty DEF Clean, Overwrites, Moved
    <3> QED BY <1>1, <2>1, <2>2, <3>1, SameMemory, Failing
  <2>4. CASE call[p].op = "replace"
    <3>1. SameCall(p) /\ UNCHANGED <<rows, links>>  BY <1>0, <1>1, <2>1, GhostFaulty DEF SameCall, Moved
    <3>2. ASSUME Clean(p), Tracked(p) PROVE Tracked(p)'
      BY <1>b, <2>1, <2>4, <3>1, <3>2, FailedTracked
    <3> QED BY <1>1, <2>1, <2>2, <3>2, SameMemory, Failing
  <2> QED BY <1>a, <2>3, <2>4
<1>3. CASE Refused(p) /\ Goes(p, "failed") /\ UNCHANGED <<kind, rows, links, bounds, ghost, mem, fk>>
  <2>1. Moved(p) /\ call'[p].step = "failed" /\ call[p].op = "replace"
    BY <1>0, <1>3, CallGoes DEF Steps, Refused
  <2>2. AtStep(p)' /\ Reads(p)'  BY <2>1 DEF AtStep, Reads, Running
  <2>3. SameCall(p)  BY <1>3, <2>1 DEF SameCall, Moved
  <2>4. ASSUME Clean(p), Tracked(p) PROVE Tracked(p)'
    BY <1>b, <1>3, <2>1, <2>3, <2>4, FailedTracked
  <2> QED BY <1>3, <2>1, <2>2, <2>4, SameMemory, Reading
<1>2. CASE /\ rows' = [rows EXCEPT !.targets = @ \ call[p].old]
           /\ Goes(p, "ok") /\ CleanUp(p)
           /\ UNCHANGED <<kind, links, bounds>> /\ Wrote(p)
  <2>1. Moved(p) /\ call'[p].step = "ok"  BY <1>0, <1>2, CallGoes DEF Steps
  <2>2. SameCall(p)
    BY <1>0, <1>2, <2>1, GhostWrote DEF SameCall, Moved, DbTypes
  <2>3. /\ Memories(p)
        /\ call[p].op = "delete" => \A o \in Listed(p) : mem'[p][o] = mem[p][o] \ Values(p)
        /\ call[p].op # "delete" => mem' = mem
    BY <1>2, CleanUpMemory
  <2>4. DbTypes'
    <3>1. /\ rows'.owners = rows.owners
          /\ rows' \in [owners : SUBSET Owners, targets : SUBSET Targets]
      BY <1>0, <1>2 DEF DbTypes
    <3> QED BY <1>0, <1>a, <1>2, <3>1, Thinned
  <2>5. \A o : Now(o)' = Now(o) \ call[p].old
    BY <1>0, <1>2 DEF Now, Linked, DbTypes
  <2>6. ASSUME Clean(p), Tracked(p) PROVE Tracked(p)'
    <3>1. /\ Listed(p)' = Listed(p) /\ Values(p)' = Values(p) /\ kind' = kind
          /\ \A o : Before(p, o)' = Before(p, o)
          /\ call'[p].op = call[p].op /\ call'[p].list = call[p].list
          /\ call'[p].values = call[p].values /\ call'[p].old = call[p].old
      BY <2>2, Carried DEF SameCall
    <3>2. CASE call[p].op = "replace"
      <4>1. \A j \in DOMAIN call[p].list :
              /\ Now(call[p].list[j])' = call[p].values[j] \ call[p].old /\ mem'[p][call[p].list[j]] = call[p].values[j]
              /\ Nobody(call[p].values) => Linked(links', Targets, call[p].list[j]) = {}
        BY <1>0, <1>2, <2>3, <2>5, <2>6, <3>1, <3>2 DEF Tracked
      <4>2. Neither(p)'  BY <3>1, <4>1 DEF Neither
      <4>3. \A j \in DOMAIN call'[p].list : Asked(p, j)'
        BY <1>a, <3>1, <3>2, <4>1 DEF Asked
      <4> QED BY <2>1, <4>2, <4>3, OverTracked
    <3>3. CASE call[p].op = "delete"
      <4>1. \A o \in Listed(p) :
              /\ Now(o)' = (Before(p, o) \ Values(p)) \ call[p].old /\ mem'[p][o] = Before(p, o) \ Values(p)
              /\ Linked(links', Values(p), o) = {}
        BY <1>0, <1>2, <2>3, <2>5, <2>6, <3>3 DEF Tracked
      <4>2. \A j \in DOMAIN call'[p].list : Asked(p, j)'
        <5> SUFFICES ASSUME NEW j \in DOMAIN call[p].list PROVE Asked(p, j)'  BY <3>1
        <5>1. call[p].list[j] \in Listed(p)  BY <1>0, CallIs
        <5> QED BY <3>1, <3>3, <4>1, <5>1 DEF Asked
      <4> QED BY <2>1, <3>1, <3>3, <4>2, OverTracked
    <3> QED BY <1>a, <3>2, <3>3
  <2>7. AtStep(p)'  BY <2>1 DEF AtStep
  <2> QED BY <1>a, <1>2, <2>1, <2>3, <2>4, <2>6, <2>7, Writing
<1> QED BY <1>1, <1>2, <1>3 DEF Purge

(* After the saves of a Replace, an owner has what it had and its values,  *)
(* and no target of another's.                                             *)
LEMMA AllSaved ==
    ASSUME NEW p \in Programs, CallTypes, SavedTo(p, Len(call[p].list) + 1),
           NEW j \in DOMAIN call[p].list
    PROVE  SavedAt(p, j, TRUE)
<1>1. Len(call[p].list) \in Nat /\ DOMAIN call[p].list = 1..Len(call[p].list)
  BY CallIs
<1>2. j < Len(call[p].list) + 1  BY <1>1
<1>3. SavedAt(p, j, j < Len(call[p].list) + 1)  BY DEF SavedTo
<1>4. (j < Len(call[p].list) + 1) = TRUE  BY <1>2
<1> QED BY <1>3, <1>4

LEMMA ValuesOf ==
    ASSUME NEW p, DOMAIN call[p].values = DOMAIN call[p].list
    PROVE  \A t : t \in Values(p) <=> \E j \in DOMAIN call[p].list : t \in call[p].values[j]
BY DEF Values, ToSet

LEMMA UnlinkInv ==
    ASSUME Inv, NEW p \in Programs, Unlink(p) PROVE Inv'
<1> DEFINE purges == kind = "belongs_to" /\ call[p].unscoped /\ call[p].old # {}
           c == call[p]
           dom == DOMAIN call[p].list
<1>0. /\ call[p].step = "unlink" /\ Shape(p) /\ CallTypes /\ MemTypes /\ DbTypes /\ Memories(p)
      /\ UNCHANGED <<mem, fk>>
  BY SameMemory DEF Unlink, Inv
<1>a. /\ call[p].op = "replace" /\ DOMAIN call[p].values = dom /\ ~Crossed(p)
      /\ \A j \in dom : c.list[j] \in Owners /\ c.list[j] \in Listed(p)
      /\ \A o \in Listed(p) : \E j \in dom : o = c.list[j]
  BY <1>0, CallIs DEF Shape, AtStep, Asking, Crossed
<1>b. \A t : t \in Values(p) <=> \E j \in dom : t \in c.values[j]
  BY <1>a, ValuesOf
<1>c. ASSUME Clean(p), Tracked(p)
      PROVE  /\ kind = "belongs_to" => \A j \in dom : c.values[j] = {} /\ mem[p][c.list[j]] = {}
             /\ kind # "belongs_to" => \A j \in dom : SavedAt(p, j, TRUE)
  BY <1>0, <1>c, AllSaved DEF Tracked
<1>1. CASE Goes(p, IF purges /\ c.clones THEN "purge" ELSE "failed") /\ Faulty(p)
  <2>f. ghost'[p].fault /\ UNCHANGED <<kind, rows, links>>  BY <1>0, <1>1, GhostFaulty
  <2>1. CASE purges /\ c.clones
    <3>1. Moved(p) /\ call'[p].step = "purge"  BY <1>0, <1>1, <2>1, CallGoes DEF Steps
    <3>2. AtStep(p)'  BY <1>a, <2>f, <2>1, <3>1 DEF AtStep, Moved
    <3>3. ~Clean(p)'  BY <2>f, <2>1, <3>1 DEF Clean, Overwrites, Moved
    <3>4. Reads(p)'  BY <1>a, <3>1 DEF Reads, Moved
    <3> QED BY <1>0, <1>1, <3>1, <3>2, <3>3, <3>4, Failing
  <2>2. CASE ~(purges /\ c.clones)
    <3>1. Moved(p) /\ call'[p].step = "failed"  BY <1>0, <1>1, <2>2, CallGoes DEF Steps
    <3>2. Reads(p)'  BY <3>1 DEF Reads, Running
    <3>3. SameCall(p)  BY <1>0, <1>1, <3>1, GhostFaulty DEF SameCall, Moved
    <3>4. ASSUME Clean(p), Tracked(p) PROVE Neither(p)'
      <4>1. \A j \in dom : \/ Before(p, c.list[j]) \ Taken(p, j) \subseteq Now(c.list[j])
                           \/ c.values[j] = {}
        BY <1>c, <3>4 DEF SavedAt
      <4>2. \A o : Before(p, o)' = Before(p, o) /\ Now(o)' = Now(o)
        BY <2>f, <3>3, Carried DEF Now
      <4>3. \A j : Taken(p, j)' = Taken(p, j)  BY <3>3, Carried
      <4> QED BY <3>1, <4>1, <4>2, <4>3 DEF Neither, Moved
    <3>5. AtStep(p)' /\ (Clean(p) /\ Tracked(p) => Tracked(p)')
      <4>1. AtStep(p)'  BY <3>1 DEF AtStep
      <4> QED BY <3>1, <3>4, <4>1, FailedTracked
    <3> QED BY <1>0, <1>1, <3>1, <3>2, <3>5, Failing
  <2> QED BY <2>1, <2>2
<1>2. CASE /\ links' = links \ OldLinks(p)
           /\ rows' = IF Has /\ call[p].unscoped THEN [rows EXCEPT !.targets = @ \ {x[2] : x \in OldLinks(p)}] ELSE rows
           /\ Goes(p, IF purges THEN "purge" ELSE "ok") /\ Wrote(p)
           /\ UNCHANGED <<kind, bounds>>
  <2> DEFINE step == IF purges THEN "purge" ELSE "ok"
             kept == IF Has THEN UNION {mem[p][o] : o \in Listed(p)} ELSE Values(p)
  <2>1. Moved(p) /\ call'[p].step = step
    <3>1. step \in Steps  BY DEF Steps
    <3> QED BY <1>0, <1>2, <3>1, CallGoes
  <2>k. OldLinks(p) = {x \in links : x[1] \in Listed(p) /\ x[2] \notin kept}  BY DEF OldLinks
  <2> HIDE DEF kept
  <2>2. SameCall(p) /\ ghost'[p].fault = ghost[p].fault
    BY <1>0, <1>2, <2>1, <2>k, GhostWrote DEF SameCall, Moved, DbTypes
  <2>4. /\ rows'.owners = rows.owners /\ rows' \in [owners : SUBSET Owners, targets : SUBSET Targets]
        /\ \A t \in rows.targets : t \in rows'.targets \/ \E x \in OldLinks(p) : Has /\ t = x[2]
        /\ rows'.targets \subseteq rows.targets
    BY <1>0, <1>2 DEF DbTypes
  <2>5. DbTypes'
    <3>1. ASSUME kind # "belongs_to", NEW x \in links' PROVE x[2] \in rows'.targets
      <4>1. x \in links /\ x \notin OldLinks(p) /\ x[2] \in rows.targets  BY <1>0, <1>2, <3>1 DEF DbTypes
      <4>2. Has => \A y \in OldLinks(p) : y[2] # x[2]
        BY <1>0, <2>k, <4>1 DEF DbTypes, OneKey, Has
      <4> QED BY <2>4, <4>1, <4>2
    <3> QED BY <1>0, <1>2, <2>4, <3>1, Thinned
  <2>6. \A o \in Listed(p) : Now(o)' = Now(o) \cap kept
    <3> SUFFICES ASSUME NEW o \in Listed(p)
                 PROVE  \A t : (t \in rows'.targets /\ <<o, t>> \in links')
                                 <=> (t \in rows.targets /\ <<o, t>> \in links /\ t \in kept)
      BY DEF Now, Linked
    <3>1. \A t : <<o, t>> \in links' <=> <<o, t>> \in links /\ t \in kept
      BY <1>2, <2>k
    <3>2. \A x \in OldLinks(p) : x[2] \notin kept  BY <2>k
    <3> QED BY <2>4, <3>1, <3>2
  <2>7. ASSUME Clean(p), Tracked(p)
        PROVE  /\ Nobody(c.values) => kept = {}
               /\ \A j \in dom :
                 /\ mem[p][c.list[j]] = c.values[j]
                 /\ Now(c.list[j]) \cap kept =
                      c.values[j] \cup (IF kind = "many_to_many" THEN Before(p, c.list[j]) \cap Values(p) ELSE {})
    <3>1. CASE kind = "belongs_to"
      <4>1. kept = {}  BY <1>b, <1>c, <2>7, <3>1 DEF kept, Has
      <4> QED BY <1>c, <2>7, <3>1, <4>1
    <3>2. CASE kind # "belongs_to"
      <4>1. \A j \in dom : /\ mem[p][c.list[j]] = c.values[j]
                           /\ Now(c.list[j]) \subseteq Before(p, c.list[j]) \cup c.values[j]
                           /\ c.values[j] \subseteq Now(c.list[j])
                           /\ kind = "many_to_many" => Before(p, c.list[j]) \subseteq Now(c.list[j])
        BY <1>a, <1>c, <2>7, <3>2 DEF SavedAt, Put
      <4>2. \A t : t \in kept <=> \E j \in dom : t \in c.values[j]
        <5>1. CASE Has  BY <1>a, <4>1, <5>1 DEF kept
        <5>2. CASE ~Has  BY <1>b, <5>2 DEF kept
        <5> QED BY <5>1, <5>2
      <4>5. Nobody(c.values) => kept = {}  BY <1>a, <4>2 DEF Nobody
      <4>3. CASE kind = "many_to_many"  BY <1>b, <4>1, <4>2, <4>3, <4>5
      <4>4. CASE Has
        <5>1. ASSUME NEW j \in dom, NEW k \in dom, NEW t \in Now(c.list[j]), t \in c.values[k]
              PROVE  t \in c.values[j]
          <6>1. <<c.list[j], t>> \in links /\ <<c.list[k], t>> \in links
            BY <4>1, <5>1 DEF Now, Linked
          <6>2. c.list[j] = c.list[k]
            <7>1. \A x, y \in links : x[2] = y[2] => x = y  BY <1>0, <4>4 DEF DbTypes, OneKey, Has
            <7>2. <<c.list[j], t>> = <<c.list[k], t>>  BY <6>1, <7>1
            <7> QED BY <7>2
          <6>3. j = k  BY <1>0, <6>2 DEF Shape, Asking
          <6> QED BY <5>1, <6>3
        <5>2. kind # "many_to_many"  BY <4>4 DEF Has
        <5> QED BY <4>1, <4>2, <4>5, <5>1, <5>2
      <4> QED BY <1>0, <3>2, <4>3, <4>4 DEF DbTypes, Has
    <3> QED BY <3>1, <3>2
  <2>l. ASSUME Clean(p), Tracked(p), Nobody(c.values), NEW j \in dom
        PROVE  Linked(links', Targets, c.list[j]) = {}
    <3> SUFFICES ASSUME NEW t \in Targets, <<c.list[j], t>> \in links' PROVE FALSE  BY DEF Linked
    <3> QED BY <1>a, <1>2, <2>k, <2>7, <2>l
  <2>8. ASSUME Clean(p), Tracked(p) PROVE Tracked(p)'
    <3>1. /\ Listed(p)' = Listed(p) /\ Values(p)' = Values(p) /\ kind' = kind
          /\ \A o : Before(p, o)' = Before(p, o)
          /\ call'[p].op = "replace" /\ call'[p].list = call[p].list
          /\ call'[p].values = call[p].values /\ call'[p].old = call[p].old /\ mem'[p] = mem[p]
      BY <1>0, <1>a, <2>2, Carried DEF SameCall
    <3>2. \A j \in dom :
            /\ mem[p][c.list[j]] = c.values[j]
            /\ Now(c.list[j])' =
                 c.values[j] \cup (IF kind = "many_to_many" THEN Before(p, c.list[j]) \cap Values(p) ELSE {})
            /\ Nobody(c.values) => Linked(links', Targets, c.list[j]) = {}
      BY <1>a, <2>6, <2>7, <2>8, <2>l, <3>1
    <3>3. CASE purges
      <4>1. call'[p].step = "purge"  BY <2>1, <3>3
      <4>2. ~ghost[p].fault  BY <1>0, <2>8 DEF Tracked, Running
      <4> QED BY <2>2, <3>1, <3>2, <3>3, <4>1, <4>2 DEF Tracked
    <3>4. CASE ~purges
      <4>1. call'[p].step = "ok" /\ call'[p].old = {}
        BY <1>0, <2>1, <3>1, <3>4 DEF Shape, Asking
      <4>2. Neither(p)'  BY <3>1, <3>2 DEF Neither
      <4>3. \A j \in DOMAIN call'[p].list : Asked(p, j)'
        <5> SUFFICES ASSUME NEW j \in dom PROVE Asked(p, j)'  BY <3>1
        <5> DEFINE o == c.list[j]
        <5>1. /\ mem'[p][o] = c.values[j] /\ (Nobody(c.values) => Linked(links', Targets, o) = {})
              /\ Now(o)' = c.values[j] \cup (IF kind = "many_to_many" THEN Before(p, o) \cap Values(p) ELSE {})
          BY <3>1, <3>2
        <5> QED BY <3>1, <4>1, <5>1 DEF Asked
      <4> QED BY <4>1, <4>2, <4>3, OverTracked
    <3> QED BY <3>3, <3>4
  <2>9. AtStep(p)'  BY <1>a, <1>2, <2>1 DEF AtStep, Moved
  <2> QED BY <1>0, <1>a, <1>2, <2>1, <2>5, <2>8, <2>9, Writing
<1> QED BY <1>1, <1>2 DEF Unlink

(* What the save of an owner makes of the links.                           *)
LEMMA LinkAllIs ==
    ASSUME DbTypes, NEW o \in Owners, NEW S \in SUBSET Targets
    PROVE  /\ LinkAll(links, o, S) \subseteq Pairs
           /\ \A a, t : <<a, t>> \in LinkAll(links, o, S) <=>
                \/ <<a, t>> \in links /\ ~(kind = "belongs_to" /\ a = o) /\ ~(Has /\ t \in S)
                \/ a = o /\ t \in S /\ ~(kind = "belongs_to" /\ o \notin rows.owners)
<1> DEFINE stays(x) == CASE kind = "belongs_to" -> x[1] # o [] Has -> x[2] \notin S [] OTHER -> TRUE
           made == IF kind = "belongs_to" /\ o \notin rows.owners THEN {} ELSE {o} \X S
<1>1. LinkAll(links, o, S) = {x \in links : stays(x)} \cup made  BY DEF LinkAll
<1>2. \A x \in links : stays(x) <=> ~(kind = "belongs_to" /\ x[1] = o) /\ ~(Has /\ x[2] \in S)
  BY DEF Has
<1>3. \A a, t : <<a, t>> \in made <=> a = o /\ t \in S /\ ~(kind = "belongs_to" /\ o \notin rows.owners)
  OBVIOUS
<1>4. made \subseteq Pairs /\ links \subseteq Pairs  BY DEF DbTypes, Pairs
<1> HIDE DEF stays, made
<1> QED BY <1>1, <1>2, <1>3, <1>4

LEMMA SavedDb ==
    ASSUME DbTypes, NEW o \in Owners, NEW S \in SUBSET Targets,
           Single => \A s, t \in S : s = t,
           links' = LinkAll(links, o, S), rows' = [rows EXCEPT !.targets = @ \cup S], kind' = kind
    PROVE  /\ DbTypes' /\ rows'.owners = rows.owners
           /\ kind = "belongs_to" =>
                /\ o \in rows.owners => Now(o)' = S
                /\ \A a \in Owners \ {o} : Now(a) \subseteq Now(a)' /\ (Now(a) # {} => Now(a)' = Now(a))
           /\ kind # "belongs_to" =>
                /\ Now(o)' = Now(o) \cup S
                /\ \A a \in Owners \ {o} : Now(a)' = IF Has THEN Now(a) \ S ELSE Now(a)
<1>1. /\ rows'.owners = rows.owners /\ rows'.targets = rows.targets \cup S
      /\ rows' \in [owners : SUBSET Owners, targets : SUBSET Targets]
  BY DEF DbTypes
<1>2. /\ links' \subseteq Pairs
      /\ \A a, t : <<a, t>> \in links' <=>
           \/ <<a, t>> \in links /\ ~(kind = "belongs_to" /\ a = o) /\ ~(Has /\ t \in S)
           \/ a = o /\ t \in S /\ ~(kind = "belongs_to" /\ o \notin rows.owners)
  BY LinkAllIs
<1>3. \A x \in links' : x = <<x[1], x[2]>> /\ x[1] \in Owners /\ x[2] \in Targets
  BY <1>2 DEF Pairs
<1>4. OneKey(kind', links')
  <2>1. ASSUME kind = "belongs_to", NEW x \in links', NEW y \in links', x[1] = y[1] PROVE x = y
    <3>1. \A v, w \in links : v[1] = w[1] => v = w  BY <2>1 DEF DbTypes, OneKey
    <3>2. \A s, t \in S : s = t  BY <2>1 DEF Single
    <3>3. \A a, t, u : <<a, t>> \in links /\ <<a, u>> \in links => t = u
      <4> SUFFICES ASSUME NEW a, NEW t, NEW u, <<a, t>> \in links, <<a, u>> \in links PROVE t = u
        OBVIOUS
      <4>1. <<a, t>> = <<a, u>>  BY <3>1
      <4> QED BY <4>1
    <3>4. x[2] = y[2]
      <4>1. CASE x[1] = o
        <5>1. <<o, x[2]>> \in links' /\ <<o, y[2]>> \in links'  BY <1>3, <2>1, <4>1
        <5>2. x[2] \in S /\ y[2] \in S  BY <1>2, <2>1, <5>1
        <5> QED BY <3>2, <5>2
      <4>2. CASE x[1] # o
        <5>1. <<x[1], x[2]>> \in links /\ <<x[1], y[2]>> \in links  BY <1>2, <1>3, <2>1, <4>2
        <5> QED BY <3>3, <5>1
      <4> QED BY <4>1, <4>2
    <3> QED BY <1>3, <2>1, <3>4
  <2>2. ASSUME Has, NEW x \in links', NEW y \in links', x[2] = y[2] PROVE x = y
    <3>1. \A v, w \in links : v[2] = w[2] => v = w  BY <2>2 DEF DbTypes, OneKey, Has
    <3>2. \A a, b, t : <<a, t>> \in links /\ <<b, t>> \in links => a = b
      <4> SUFFICES ASSUME NEW a, NEW b, NEW t, <<a, t>> \in links, <<b, t>> \in links PROVE a = b
        OBVIOUS
      <4>1. <<a, t>> = <<b, t>>  BY <3>1
      <4> QED BY <4>1
    <3>3. x[1] = y[1]
      <4>1. CASE x[2] \in S  BY <1>2, <1>3, <2>2, <4>1
      <4>2. CASE x[2] \notin S
        <5>1. <<x[1], x[2]>> \in links /\ <<y[1], x[2]>> \in links  BY <1>2, <1>3, <2>2, <4>2
        <5> QED BY <3>2, <5>1
      <4> QED BY <4>1, <4>2
    <3> QED BY <1>3, <2>2, <3>3
  <2> QED BY <2>1, <2>2 DEF OneKey, Has
<1>5. ASSUME kind # "belongs_to", NEW x \in links' PROVE x[2] \in rows'.targets
  <2>1. <<x[1], x[2]>> \in links \/ x[2] \in S  BY <1>2, <1>3
  <2>2. <<x[1], x[2]>> \in links => x[2] \in rows.targets
    BY <1>3, <1>5 DEF DbTypes
  <2> QED BY <1>1, <2>1, <2>2
<1>6. DbTypes'  BY <1>1, <1>2, <1>4, <1>5 DEF DbTypes
<1>7. \A a, t : t \in Now(a) <=> t \in rows.targets /\ <<a, t>> \in links
  BY DEF Now, Linked
<1>8. \A a, t : t \in Now(a)' <=> t \in rows'.targets /\ <<a, t>> \in links'
  BY DEF Now, Linked
<1>9. ASSUME kind = "belongs_to"
      PROVE  /\ o \in rows.owners => Now(o)' = S
             /\ \A a \in Owners \ {o} : Now(a) \subseteq Now(a)' /\ (Now(a) # {} => Now(a)' = Now(a))
  <2>1. o \in rows.owners => Now(o)' = S  BY <1>1, <1>2, <1>8, <1>9 DEF Has
  <2>2. ASSUME NEW a \in Owners \ {o} PROVE \A t : <<a, t>> \in links' <=> <<a, t>> \in links
    BY <1>2, <1>9 DEF Has
  <2>3. ASSUME NEW a \in Owners \ {o} PROVE Now(a) \subseteq Now(a)'
    BY <1>1, <1>7, <1>8, <2>2
  <2>4. ASSUME NEW a \in Owners \ {o}, NEW t \in Now(a), NEW u \in Now(a)' PROVE u = t
    <3>1. <<a, t>> \in links /\ <<a, u>> \in links  BY <1>7, <1>8, <2>2
    <3>2. <<a, t>> = <<a, u>>  BY <1>9, <3>1 DEF DbTypes, OneKey
    <3> QED BY <3>2
  <2> QED BY <2>1, <2>3, <2>4
<1>10. ASSUME kind # "belongs_to"
       PROVE  /\ Now(o)' = Now(o) \cup S
              /\ \A a \in Owners \ {o} : Now(a)' = IF Has THEN Now(a) \ S ELSE Now(a)
  <2>1. \A a, t : <<a, t>> \in links => t \in rows.targets  BY <1>10 DEF DbTypes
  <2>2. \A t : t \in Now(o)' <=> t \in Now(o) \/ t \in S
    BY <1>1, <1>2, <1>7, <1>8, <1>10, <2>1
  <2>3. ASSUME NEW a \in Owners \ {o}
        PROVE  \A t : t \in Now(a)' <=> t \in Now(a) /\ ~(Has /\ t \in S)
    BY <1>1, <1>2, <1>7, <1>8, <1>10, <2>1
  <2> QED BY <2>2, <2>3
<1> QED BY <1>1, <1>6, <1>9, <1>10

(* The save of the owner at place n of the list, in a call that is clean.  *)
LEMMA SavedOne ==
    ASSUME Inv, NEW p \in Programs, call[p].step = "save", Clean(p), Tracked(p), SameCall(p), kind' = kind,
           NEW n, n = call[p].i, NEW o, o = call[p].list[n],
           NEW S \in SUBSET Targets, S = Field(p, o, n),
           mem' = [mem EXCEPT ![p][o] = S],
           links' = LinkAll(links, o, S), rows' = [rows EXCEPT !.targets = @ \cup S]
    PROVE  \A j \in DOMAIN call[p].list, done \in BOOLEAN :
             done = (j < n + 1) => SavedAt(p, j, done)'
<1> DEFINE c == call[p]
           dom == DOMAIN call[p].list
<1>0. /\ Shape(p) /\ CallTypes /\ MemTypes /\ DbTypes /\ SavedTo(p, n)
      /\ c.op \in {"append", "replace"} /\ n \in dom
  BY DEF Inv, Tracked, Shape, AtStep
<1>1. /\ DOMAIN c.values = dom /\ o \in Owners /\ n \in Nat /\ dom = 1..Len(c.list) /\ Len(c.list) \in Nat
      /\ \A j \in dom : c.list[j] \in Owners /\ (c.list[j] = o => j = n)
      /\ c.op = "append" => ~Single
  <2>1. c.list \in Seq(Owners)  BY <1>0, CallIs
  <2>2. Len(c.list) \in Nat /\ dom = 1..Len(c.list)  BY <2>1
  <2> QED BY <1>0, <2>1, <2>2, CallIs DEF Shape, Asking
<1>2. \A j \in dom : SavedAt(p, j, j < n)  BY <1>0 DEF SavedTo
<1>3. SavedAt(p, n, FALSE)
  <2>1. (n < n) = FALSE  BY <1>1
  <2> QED BY <1>0, <1>2, <2>1
<1>4. S = Put(p, n) /\ o \in rows.owners /\ (c.op = "replace" => S = c.values[n])
  BY <1>0, <1>3 DEF SavedAt, Field, Put
<1>5. Single => \A s, t \in S : s = t
  BY <1>0, <1>1, <1>4 DEF Shape, Asking
<1>6. /\ rows'.owners = rows.owners
      /\ kind = "belongs_to" =>
           /\ Now(o)' = S
           /\ \A a \in Owners \ {o} : Now(a) \subseteq Now(a)' /\ (Now(a) # {} => Now(a)' = Now(a))
      /\ kind # "belongs_to" =>
           /\ Now(o)' = Now(o) \cup S
           /\ \A a \in Owners \ {o} : Now(a)' = IF Has THEN Now(a) \ S ELSE Now(a)
  BY <1>0, <1>1, <1>4, <1>5, SavedDb
<1>7. mem'[p][o] = S /\ \A a \in Owners \ {o} : mem'[p][a] = mem[p][a]
  BY <1>0, <1>1 DEF MemTypes
<1>8. /\ Listed(p)' = Listed(p) /\ Values(p)' = Values(p) /\ Crossed(p)' = Crossed(p)
      /\ \A a : Before(p, a)' = Before(p, a)
      /\ \A j : Put(p, j)' = Put(p, j) /\ Taken(p, j)' = Taken(p, j)
      /\ call'[p].op = c.op /\ call'[p].list = c.list /\ call'[p].values = c.values
  BY Carried DEF SameCall
<1>9. SavedAt(p, n, TRUE)'
  <2>1. CASE kind = "belongs_to"
    <3>1. c.op = "replace"  BY <1>0, <1>1, <2>1 DEF Single
    <3> QED BY <1>4, <1>6, <1>7, <1>8, <2>1, <3>1 DEF SavedAt, Put
  <2>2. CASE kind # "belongs_to"
    <3>1. /\ Now(o) \subseteq Before(p, o) /\ Before(p, o) \ Taken(p, n) \subseteq Now(o)
          /\ kind = "many_to_many" => Before(p, o) \subseteq Now(o)
      BY <1>3, <2>2 DEF SavedAt
    <3>2. c.values[n] \subseteq S /\ S \subseteq Before(p, o) \cup c.values[n]
          /\ (c.op = "append" => Before(p, o) \subseteq S)
      BY <1>4 DEF Put
    <3>3. Now(o)' = Now(o) \cup S  BY <1>6, <2>2
    <3>4. /\ Now(o)' \subseteq Before(p, o) \cup c.values[n]
          /\ Before(p, o) \ Taken(p, n) \subseteq Now(o)'
          /\ kind = "many_to_many" \/ c.op = "append" => Before(p, o) \subseteq Now(o)'
          /\ c.values[n] \subseteq Now(o)'
      BY <3>1, <3>2, <3>3
    <3>5. call'[p].list[n] = o /\ o \in rows'.owners /\ mem'[p][o] = Put(p, n)
      BY <1>4, <1>6, <1>7, <1>8
    <3> QED BY <1>8, <2>2, <3>4, <3>5 DEF SavedAt
  <2> QED BY <2>1, <2>2
<1>10. ASSUME NEW j \in dom, j # n, NEW done \in BOOLEAN, SavedAt(p, j, done), done = (j < n)
       PROVE  SavedAt(p, j, done)'
  <2> DEFINE a == c.list[j]
             val == IF done THEN c.values[j] ELSE {}
  <2>0. a \in Owners \ {o} /\ mem'[p][a] = mem[p][a] /\ call'[p].list[j] = a  BY <1>1, <1>7, <1>8, <1>10
  <2>1. CASE kind = "belongs_to"
    <3>1. done => Now(a)' = c.values[j]
      <4>1. c.values[j] # {}  BY <1>0, <2>1 DEF Shape, AtStep, Single
      <4> QED BY <1>6, <1>10, <2>0, <2>1, <4>1 DEF SavedAt
    <3>2. ~done => Before(p, a) \subseteq Now(a)'
      BY <1>6, <1>10, <2>0, <2>1 DEF SavedAt
    <3> QED BY <1>6, <1>8, <1>10, <2>0, <2>1, <3>1, <3>2 DEF SavedAt
  <2>2. CASE kind # "belongs_to"
    <3>1. /\ Now(a) \subseteq Before(p, a) \cup val /\ Before(p, a) \ Taken(p, j) \subseteq Now(a)
          /\ kind = "many_to_many" \/ (c.op = "append" /\ ~Crossed(p)) => Before(p, a) \subseteq Now(a)
          /\ ~Crossed(p) => val \subseteq Now(a)
      BY <1>10, <2>2 DEF SavedAt
    <3>2. Now(a)' = IF Has THEN Now(a) \ S ELSE Now(a)  BY <1>6, <2>0, <2>2
    <3>3. S \subseteq Before(p, o) \cup c.values[n] /\ (c.op = "replace" => S = c.values[n])
      BY <1>4 DEF Put
    <3>4. c.values[n] \subseteq Taken(p, j)  BY <1>0, <1>10 DEF Taken
    <3>5. Has => /\ Before(p, o) \cap Before(p, a) = {}
                 /\ c.values[j] \cap c.values[n] = {}
      <4> SUFFICES ASSUME Has PROVE /\ Before(p, o) \cap Before(p, a) = {}
                                    /\ c.values[j] \cap c.values[n] = {}
        OBVIOUS
      <4>1. \A x, y \in ghost[p].links : x[2] = y[2] => x = y
        BY <1>0 DEF Shape, Asking, OneKey, Has
      <4>2. ASSUME NEW t \in Before(p, o), t \in Before(p, a) PROVE FALSE
        <5>1. <<o, t>> \in ghost[p].links /\ <<a, t>> \in ghost[p].links  BY <4>2 DEF Before, Linked
        <5>2. <<o, t>> = <<a, t>>  BY <4>1, <5>1
        <5> QED BY <2>0, <5>2
      <4>3. c.values[j] \cap c.values[n] = {}  BY <1>0, <1>10 DEF Shape, Asking
      <4> QED BY <4>2, <4>3
    <3>6. Has /\ c.op = "append" /\ ~Crossed(p) =>
            /\ c.values[n] \cap Before(p, a) = {} /\ c.values[j] \cap Before(p, o) = {}
      BY <1>0, <1>10 DEF Crossed
    <3>7. Has => kind # "many_to_many"  BY DEF Has
    <3>8. /\ Now(a)' \subseteq Before(p, a) \cup val
          /\ Before(p, a) \ Taken(p, j) \subseteq Now(a)'
      BY <3>1, <3>2, <3>3, <3>4, <3>5
    <3>9. kind = "many_to_many" \/ (c.op = "append" /\ ~Crossed(p)) => Before(p, a) \subseteq Now(a)'
      BY <3>1, <3>2, <3>3, <3>5, <3>6, <3>7
    <3>10. ~Crossed(p) => val \subseteq Now(a)'
      BY <1>0, <3>1, <3>2, <3>3, <3>5, <3>6
    <3>11. a \in rows'.owners /\ mem'[p][a] = (IF done THEN Put(p, j) ELSE Before(p, a))
      BY <1>6, <1>10, <2>0 DEF SavedAt
    <3> HIDE DEF a, val
    <3>12. /\ call'[p].list[j] = a /\ val = (IF done THEN call'[p].values[j] ELSE {})
      BY <1>8, <2>0 DEF val
    <3>13. Before(p, a)' = Before(p, a) /\ a' = a  BY <1>8, <2>0 DEF a
    <3> QED BY <1>8, <2>2, <3>8, <3>9, <3>10, <3>11, <3>12, <3>13 DEF SavedAt
  <2> QED BY <2>1, <2>2
<1> SUFFICES ASSUME NEW j \in dom, NEW done \in BOOLEAN, done = (j < n + 1)
             PROVE  SavedAt(p, j, done)'
  OBVIOUS
<1>11. CASE j = n
  <2>0. (n < n + 1) = TRUE  BY <1>1
  <2>1. done = TRUE  BY <1>11, <2>0
  <2> QED BY <1>9, <1>11, <2>1
<1>12. CASE j # n
  <2>1. done = (j < n)  BY <1>1, <1>12
  <2>2. SavedAt(p, j, done)  BY <1>2, <2>1
  <2> QED BY <1>10, <1>12, <2>1, <2>2
<1> QED BY <1>11, <1>12

LEMMA NeitherSaved ==
    ASSUME NEW p, NEW n, SavedTo(p, n) PROVE Neither(p)
<1> SUFFICES ASSUME NEW j \in DOMAIN call[p].list
             PROVE  \/ Before(p, call[p].list[j]) \ Taken(p, j) \subseteq Now(call[p].list[j])
                    \/ call[p].values[j] \subseteq Now(call[p].list[j])
  BY DEF Neither
<1>1. SavedAt(p, j, j < n)  BY DEF SavedTo
<1> QED BY <1>1 DEF SavedAt

LEMMA KeyIs == ASSUME NEW S \in SUBSET Targets PROVE Key(S) \in Targets \cup {None}
<1>1. CASE kind = "belongs_to" /\ S # {}
  <2>1. Key(S) = CHOOSE t \in S : TRUE  BY <1>1 DEF Key
  <2>2. Key(S) \in S  BY <1>1, <2>1
  <2> QED BY <2>2
<1>2. CASE ~(kind = "belongs_to" /\ S # {})  BY <1>2 DEF Key
<1> QED BY <1>1, <1>2

LEMMA SaveOwnerInv ==
    ASSUME Inv, NEW p \in Programs, SaveOwner(p) PROVE Inv'
<1> DEFINE c == call[p]
           dom == DOMAIN call[p].list
<1>0. call[p].step = "save" /\ Shape(p) /\ CallTypes /\ MemTypes /\ DbTypes
  BY DEF SaveOwner, Inv
<1>1. /\ c \in Call /\ c.op \in {"append", "replace"} /\ c.i \in dom
      /\ (c.op = "append" => ~Single) /\ DOMAIN c.values = dom
      /\ dom = 1..Len(c.list) /\ Len(c.list) \in Nat /\ \A j \in dom : c.list[j] \in Owners
      /\ \A j \in dom : c.values[j] \in SUBSET Targets
  <2>1. c \in Call /\ c.list \in Seq(Owners)  BY <1>0, CallIs
  <2>2. c.values \in Seq(SUBSET Targets)  BY <2>1 DEF Call
  <2>3. DOMAIN c.values = dom  BY <1>0 DEF Shape, Asking, AtStep
  <2>4. \A j \in dom : c.values[j] \in SUBSET Targets  BY <2>2, <2>3
  <2> QED BY <1>0, <2>1, <2>3, <2>4, CallIs DEF Shape, Asking, AtStep
<1>2. PICK n : n = c.i  OBVIOUS
<1>3. PICK o : o = c.list[n]  OBVIOUS
<1>4. PICK S : S = Field(p, o, n)  OBVIOUS
<1>5. n \in dom /\ o \in Owners /\ S \in SUBSET Targets /\ (c.op = "replace" => S = c.values[n])
  BY <1>0, <1>1, <1>2, <1>3, <1>4 DEF Field, MemTypes
<1>n. Single => ~Nobody(c.values)  BY <1>0, <1>1, <1>5 DEF Shape, AtStep, Nobody
<1>6. Single => \A s, t \in S : s = t
  BY <1>0, <1>1, <1>5 DEF Shape, Asking
<1>7. mem' = [mem EXCEPT ![p][o] = S]
  BY <1>2, <1>3, <1>4 DEF SaveOwner
<1>8. ASSUME NEW k \in {fk[p][o], Key(S)}, fk' = [fk EXCEPT ![p][o] = k] PROVE Memories(p)
  <2>1. k \in Targets \cup {None}  BY <1>0, <1>5, KeyIs DEF MemTypes
  <2> QED BY <1>0, <1>5, <1>7, <1>8, <2>1 DEF MemTypes, Memories
<1>9. CASE /\ \E k \in {fk[p][o], Key(S)} : fk' = [fk EXCEPT ![p][o] = k]
           /\ SaveNext(p, TRUE) /\ Faulty(p)
  <2>m. Memories(p)  BY <1>8, <1>9
  <2>f. ghost'[p].fault /\ ghost'[p].links = ghost[p].links /\ UNCHANGED <<kind, rows, links>>
    BY <1>0, <1>9, GhostFaulty
  <2>1. CASE n < Len(c.list) /\ Single
    <3>1. call' = [call EXCEPT ![p].i = @ + 1]  BY <1>2, <1>9, <2>1 DEF SaveNext
    <3>2. Moved(p) /\ call'[p].step = "save" /\ call'[p].i = n + 1
      BY <1>0, <1>2, <3>1, CallNext
    <3>3. AtStep(p)'
      <4>1. /\ call'[p].op \in {"append", "replace"} /\ n + 1 \in DOMAIN call'[p].list
            /\ Single => \A j \in dom : call'[p].values[j] # {}
        BY <1>0, <1>1, <1>5, <2>1, <3>2 DEF AtStep, Moved, Shape
      <4> QED BY <2>f, <3>2, <4>1 DEF AtStep, Moved, Single
    <3>4. Reads(p)'  BY <1>1, <3>2 DEF Reads, Moved
    <3>5. ~Clean(p)'
      <4>1. SameCall(p)  BY <2>f, <3>2 DEF SameCall, Moved
      <4>a. IsSlice(p)  BY <1>1, <1>5, <2>1 DEF IsSlice
      <4>2. IsSlice(p)' /\ Single'  BY <2>1, <4>a, <4>1, Carried
      <4>3. call'[p].op = "replace" /\ ~Nobody(call'[p].values)  BY <1>1, <1>n, <2>1, <3>2 DEF Moved
      <4> QED BY <2>f, <4>2, <4>3 DEF Clean, Overwrites
    <3> QED BY <1>9, <2>m, <3>2, <3>3, <3>4, <3>5, Failing
  <2>2. CASE ~(n < Len(c.list) /\ Single)
    <3>1. Goes(p, "failed")  BY <1>2, <1>9, <2>2 DEF SaveNext
    <3>2. Moved(p) /\ call'[p].step = "failed"  BY <1>0, <3>1, CallGoes DEF Steps
    <3>3. AtStep(p)' /\ Reads(p)'  BY <3>2 DEF AtStep, Reads, Running
    <3>4. SameCall(p)  BY <2>f, <3>2 DEF SameCall, Moved
    <3>5. ASSUME Clean(p), Tracked(p) PROVE Tracked(p)'
      <4>1. Neither(p)  BY <1>0, <3>5, NeitherSaved DEF Tracked
      <4>2. \A a : Before(p, a)' = Before(p, a) /\ Now(a)' = Now(a)
        BY <2>f, <3>4, Carried DEF Now
      <4>3. \A j : Taken(p, j)' = Taken(p, j)  BY <3>4, Carried
      <4>4. Neither(p)'  BY <3>2, <4>1, <4>2, <4>3 DEF Neither, Moved
      <4> QED BY <3>2, <4>4, FailedTracked
    <3> QED BY <1>9, <2>m, <3>2, <3>3, <3>5, Failing
  <2> QED BY <2>1, <2>2
<1>10. CASE /\ links' = LinkAll(links, o, S)
            /\ rows' = [rows EXCEPT !.targets = @ \cup S]
            /\ fk' = [fk EXCEPT ![p][o] = Key(S)]
            /\ SaveNext(p, FALSE) /\ Wrote(p)
            /\ UNCHANGED <<kind, bounds>>
  <2>m. Memories(p)  BY <1>8, <1>10
  <2>d. DbTypes'  BY <1>0, <1>5, <1>6, <1>10, SavedDb
  <2>g. ghost'[p] = ghost[p]  BY <1>0, <1>10, <2>d, GhostWrote DEF DbTypes
  <2>1. CASE n < Len(c.list)
    <3>1. call' = [call EXCEPT ![p].i = @ + 1]  BY <1>2, <1>10, <2>1 DEF SaveNext
    <3>2. Moved(p) /\ call'[p].step = "save" /\ call'[p].i = n + 1
      BY <1>0, <1>2, <3>1, CallNext
    <3>3. AtStep(p)'
      <4>1. /\ call'[p].op \in {"append", "replace"} /\ n + 1 \in DOMAIN call'[p].list
            /\ Single => \A j \in dom : call'[p].values[j] # {}
        BY <1>0, <1>1, <1>5, <2>1, <3>2 DEF AtStep, Moved, Shape
      <4> QED BY <1>10, <3>2, <4>1 DEF AtStep, Moved, Single
    <3>4. SameCall(p)  BY <1>10, <2>g, <3>2 DEF SameCall, Moved
    <3>5. ASSUME Clean(p), Tracked(p) PROVE Tracked(p)'
      <4>1. \A j \in dom, done \in BOOLEAN : done = (j < n + 1) => SavedAt(p, j, done)'
        BY <1>0, <1>2, <1>3, <1>4, <1>5, <1>7, <1>10, <3>4, <3>5, SavedOne
      <4>2. \A j \in dom : (j < n + 1) \in BOOLEAN  OBVIOUS
      <4>3. SavedTo(p, n + 1)'
        BY <3>2, <4>1, <4>2 DEF SavedTo, Moved
      <4>4. ~ghost'[p].fault  BY <1>0, <2>g, <3>5 DEF Tracked, Running
      <4> QED BY <3>2, <4>3, <4>4 DEF Tracked
    <3> QED BY <1>1, <1>10, <2>m, <2>d, <3>2, <3>3, <3>5, Writing
  <2>2. CASE ~(n < Len(c.list))
    <3> DEFINE step == IF c.op = "append" THEN "ok" ELSE IF kind # "belongs_to" THEN "unlink"
                       ELSE IF c.unscoped /\ c.old # {} THEN "purge" ELSE "ok"
    <3>1. Goes(p, step) /\ step \in Steps  BY <1>2, <1>10, <2>2 DEF SaveNext, Steps
    <3>2. Moved(p) /\ call'[p].step = step  BY <1>0, <3>1, CallGoes
    <3>3. AtStep(p)'  BY <1>1, <1>10, <3>2 DEF AtStep, Moved
    <3>4. SameCall(p)  BY <1>10, <2>g, <3>2 DEF SameCall, Moved
    <3>5. ASSUME Clean(p), Tracked(p) PROVE Tracked(p)'
      <4>1. \A j \in dom, done \in BOOLEAN : done = (j < n + 1) => SavedAt(p, j, done)'
        BY <1>0, <1>2, <1>3, <1>4, <1>5, <1>7, <1>10, <3>4, <3>5, SavedOne
      <4>2. \A j \in dom : SavedAt(p, j, TRUE)'
        <5> SUFFICES ASSUME NEW j \in dom PROVE SavedAt(p, j, TRUE)'  OBVIOUS
        <5>1. TRUE = (j < n + 1)  BY <1>1, <1>5, <2>2
        <5> QED BY <4>1, <5>1
      <4>3. n = Len(c.list)  BY <1>1, <1>5, <2>2
      <4>4. SavedTo(p, n + 1)'
        <5>1. \A j \in dom : (j < n + 1) \in BOOLEAN  OBVIOUS
        <5> QED BY <3>2, <4>1, <5>1 DEF SavedTo, Moved
      <4>5. /\ kind' = kind /\ call'[p].op = c.op /\ call'[p].list = c.list
            /\ call'[p].values = c.values /\ call'[p].old = c.old /\ call'[p].unscoped = c.unscoped
            /\ ghost'[p].fault = ghost[p].fault
        BY <1>10, <2>g, <3>2 DEF Moved
      <4>6. CASE step = "unlink"
        <5>1. kind # "belongs_to" /\ Len(call'[p].list) + 1 = n + 1  BY <1>1, <4>3, <4>5, <4>6
        <5>2. ~ghost'[p].fault  BY <1>0, <2>g, <3>5 DEF Tracked, Running
        <5> QED BY <3>2, <4>4, <4>5, <4>6, <5>1, <5>2 DEF Tracked
      <4>7. CASE step = "purge"
        <5>1. kind = "belongs_to" /\ c.op = "replace" /\ ~Nobody(c.values)  BY <1>1, <1>n, <4>7 DEF Single
        <5>2. \A j \in dom : Now(c.list[j])' = c.values[j] /\ mem'[p][c.list[j]] = c.values[j]
          BY <4>2, <4>5, <5>1 DEF SavedAt, Put
        <5>3. ~ghost'[p].fault  BY <1>0, <2>g, <3>5 DEF Tracked, Running
        <5> QED BY <3>2, <4>5, <4>7, <5>1, <5>2, <5>3 DEF Tracked
      <4>8. CASE step = "ok"
        <5>1. Neither(p)'
          <6> SUFFICES ASSUME NEW j \in dom
                       PROVE  \/ (Before(p, call[p].list[j]) \ Taken(p, j))' \subseteq Now(call[p].list[j])'
                              \/ call'[p].values[j] \subseteq Now(call[p].list[j])'
            BY <4>5 DEF Neither
          <6> QED BY <4>2, <4>5 DEF SavedAt
        <5>2. ASSUME ~Crossed(p)', NEW j \in dom PROVE Asked(p, j)'
          <6>1. CASE c.op = "append"
            <7>1. kind # "belongs_to"  BY <1>1, <6>1 DEF Single
            <7>2. SavedAt(p, j, TRUE)' /\ kind' # "belongs_to" /\ call'[p].op = "append"
              BY <4>2, <4>5, <6>1, <7>1
            <7>3. /\ (mem[p][call[p].list[j]])' = Put(p, j)'
                  /\ Now(call[p].list[j])' \subseteq Before(p, call[p].list[j])' \cup call'[p].values[j]
                  /\ Before(p, call[p].list[j])' \subseteq Now(call[p].list[j])'
                  /\ call'[p].values[j] \subseteq Now(call[p].list[j])'
              BY <5>2, <7>2 DEF SavedAt
            <7>4. Put(p, j)' = Before(p, call[p].list[j])' \cup call'[p].values[j]
              BY <7>2 DEF Put
            <7>5. /\ Now(call[p].list[j])' = Before(p, call[p].list[j])' \cup call'[p].values[j]
                  /\ (mem[p][call[p].list[j]])' = Now(call[p].list[j])'
              BY <7>3, <7>4
            <7> QED BY <7>2, <7>5 DEF Asked
          <6>2. CASE c.op = "replace"
            <7>1. kind = "belongs_to" /\ c.old = {} /\ ~Nobody(c.values)
              BY <1>0, <1>n, <4>8, <6>2 DEF Shape, Asking, Single
            <7> QED BY <4>2, <4>5, <6>2, <7>1 DEF SavedAt, Put, Asked
          <6> QED BY <1>1, <6>1, <6>2
        <5> QED BY <3>2, <4>5, <4>8, <5>1, <5>2, OverTracked
      <4> QED BY <4>6, <4>7, <4>8
    <3> QED BY <1>1, <1>10, <2>m, <2>d, <3>2, <3>3, <3>5, Writing
  <2> QED BY <2>1, <2>2
<1> QED BY <1>2, <1>3, <1>4, <1>9, <1>10 DEF SaveOwner

-----------------------------------------------------------------------------
(* A call begins.                                                          *)
LEMMA IdleIs == Idle \in Call /\ NoGhost \in Ghost
<1>1. <<>> \in Seq(Owners) /\ <<>> \in Seq(SUBSET Targets)  OBVIOUS
<1>2. {} \in (SUBSET Targets) \cup (SUBSET Pairs) /\ {} \in SUBSET Targets  OBVIOUS
<1>3. "idle" \in Steps /\ "find" \in Ops /\ 0 \in Nat /\ FALSE \in BOOLEAN  BY DEF Steps, Ops
<1>4. Idle \in Call  BY <1>1, <1>2, <1>3 DEF Idle, Call
<1>5. NoGhost \in Ghost  BY DEF NoGhost, Ghost
<1> QED BY <1>4, <1>5

LEMMA IdleFine ==
    ASSUME NEW r, call'[r] = Idle, ghost'[r] = NoGhost
    PROVE  Shape(r)' /\ Reads(r)' /\ Tracked(r)'
<1>1. call'[r].step = "idle" /\ call'[r].op = "find" /\ call'[r].list = <<>> /\ call'[r].old = {}
  BY DEF Idle
<1>2. ghost'[r].links = {}  BY DEF NoGhost
<1>3. Asking(r)'  BY <1>1, <1>2 DEF Asking, OneKey
<1>4. AtStep(r)'  BY <1>1 DEF AtStep
<1>5. Reads(r)'  BY <1>1 DEF Reads, Running
<1>6. Tracked(r)'  BY <1>1 DEF Tracked, Running
<1> QED BY <1>3, <1>4, <1>5, <1>6 DEF Shape

LEMMA Begun ==
    ASSUME Inv, NEW p \in Programs, NEW c \in Call, Begin(p, c)
    PROVE  /\ call'[p] = c /\ DbTypes' /\ CallTypes' /\ UNCHANGED <<kind, rows, links>>
           /\ \A r \in Programs \ {p} :
                \/ call'[r] = call[r] /\ ghost'[r] = ghost[r]
                \/ call'[r] = Idle /\ ghost'[r] = NoGhost
           /\ ~ghost'[p].fault /\ OneKey(kind, ghost'[p].links)
           /\ ghost'[p].ever = links /\ ghost'[p].always = Solid(links, rows.targets)
           /\ \A o \in Owners : Before(p, o)' = Now(o) /\ Now(o)' = Now(o)
           /\ ghost'[p].fresh => \A o \in ToSet(c.list) :
                /\ o \in rows.owners /\ mem[p][o] = Now(o)
                /\ kind = "belongs_to" => {fk[p][o]} \ {None} = mem[p][o]
<1>0. DbTypes /\ CallTypes  BY DEF Inv
<1> DEFINE fresh == \A o \in ToSet(c.list) :
                      /\ o \in rows.owners /\ mem[p][o] = Linked(links, rows.targets, o)
                      /\ kind = "belongs_to" => {fk[p][o]} \ {None} = mem[p][o]
           g == [links |-> Solid(links, rows.targets), alone |-> TRUE, fault |-> FALSE,
                 fresh |-> fresh, ever |-> links, always |-> Solid(links, rows.targets)]
<1>1. /\ bounds.calls < MaxCalls /\ UNCHANGED <<kind, rows, links>>
      /\ call' = [q \in Programs |-> IF q = p THEN c ELSE IF Running(q) THEN call[q] ELSE Idle]
      /\ bounds' = [bounds EXCEPT !.calls = @ + 1]
      /\ ghost' = [q \in Programs |->
           IF q # p THEN IF Running(q) THEN ghost[q] ELSE NoGhost ELSE g]
  BY DEF Begin
<1>2. fresh \in BOOLEAN  OBVIOUS
<1>3. Solid(links, rows.targets) \subseteq Pairs /\ links \subseteq Pairs
  BY <1>0 DEF Solid, DbTypes
<1>4. ghost'[p] = g  BY <1>1
<1>5. /\ ghost'[p].links = Solid(links, rows.targets) /\ ghost'[p].always = Solid(links, rows.targets)
      /\ ghost'[p].ever = links /\ ghost'[p].fault = FALSE /\ ghost'[p].fresh = fresh
  BY <1>4
<1> HIDE DEF fresh
<1>6. g \in Ghost  BY <1>2, <1>3 DEF Ghost
<1> HIDE DEF g
<1>7. ghost' \in [Programs -> Ghost] /\ call' \in [Programs -> Call]
  BY <1>0, <1>1, <1>6, IdleIs DEF CallTypes
<1>8. bounds' \in [calls : 0..MaxCalls, faults : 0..MaxFaults]
  BY <1>0, <1>1, BoundsAssumption DEF CallTypes
<1>9. DbTypes'  BY <1>0, <1>1 DEF DbTypes, OneKey
<1>10. OneKey(kind, ghost'[p].links)  BY <1>0, <1>5 DEF Solid, DbTypes, OneKey
<1>11. ASSUME NEW o \in Owners PROVE Before(p, o)' = Now(o) /\ Now(o)' = Now(o)
  <2>1. Before(p, o)' = Linked(Solid(links, rows.targets), Targets, o)  BY <1>5 DEF Before
  <2>2. Linked(Solid(links, rows.targets), Targets, o) = Linked(links, rows.targets, o)
    BY <1>0 DEF Linked, Solid, DbTypes
  <2> QED BY <1>1, <2>1, <2>2 DEF Now
<1>12. ghost'[p].fresh => \A o \in ToSet(c.list) :
          /\ o \in rows.owners /\ mem[p][o] = Now(o)
          /\ kind = "belongs_to" => {fk[p][o]} \ {None} = mem[p][o]
  BY <1>5 DEF fresh, Now
<1> QED BY <1>1, <1>5, <1>7, <1>8, <1>9, <1>10, <1>11, <1>12 DEF CallTypes

LEMMA BeginInv ==
    ASSUME Inv, NEW p \in Programs, NEW c \in Call, Begin(p, c), Memories(p),
           c.step \in {"save", "unlink", "delete", "owners"} \/ (c.step = "targets" /\ c.op = "find"),
           Asking(p)', AtStep(p)', Clean(p)' => Tracked(p)'
    PROVE  Inv'
<1>1. /\ call'[p] = c /\ DbTypes' /\ CallTypes' /\ UNCHANGED <<kind, rows, links>>
      /\ \A r \in Programs \ {p} :
            \/ call'[r] = call[r] /\ ghost'[r] = ghost[r]
            \/ call'[r] = Idle /\ ghost'[r] = NoGhost
      /\ ghost'[p].ever = links /\ ghost'[p].always = Solid(links, rows.targets)
  BY Begun
<1>2. Reads(p)'  BY <1>1 DEF Reads
<1>3. ASSUME NEW r \in Programs PROVE Shape(r)' /\ Reads(r)' /\ (Clean(r)' => Tracked(r)')
  <2>1. CASE r = p  BY <1>2, <2>1 DEF Shape
  <2>2. CASE r # p /\ call'[r] = Idle /\ ghost'[r] = NoGhost  BY <2>2, IdleFine
  <2>3. CASE r # p /\ call'[r] = call[r] /\ ghost'[r] = ghost[r]
    <3>1. Aside(r) /\ Quiet  BY <1>1, <2>3 DEF Aside, Quiet, Memories
    <3>2. ghost \in [Programs -> Ghost] /\ Shape(r) /\ Reads(r) /\ (Clean(r) => Tracked(r))
      BY DEF Inv, CallTypes
    <3> QED BY <2>3, <3>1, <3>2, AsideShape, AsideReads, AsideTracked
  <2> QED BY <1>1, <2>1, <2>2, <2>3
<1> QED BY <1>1, <1>3 DEF Inv, Memories

LEMMA KeysIs ==
    ASSUME Inv, NEW p \in Programs, NEW list \in Seq(Owners)
    PROVE  Keys(p, list) \in SUBSET Targets
<1>1. ToSet(list) \subseteq Owners  BY DEF ToSet
<1> QED BY <1>1 DEF Keys, Inv, MemTypes

(* One that saves: nothing has been written, and its owners are as read.   *)
LEMMA SaveBegins ==
    ASSUME Inv, NEW p \in Programs, NEW list \in Lists, NEW values \in Passed(list), ~Nobody(values),
           NEW c \in Call, Begin(p, c), c.step = "save", c.op \in {"append", "replace"},
           c.op = "append" => ~Single, c.list = list, c.values = values, c.i = 1,
           c.old # {} => kind = "belongs_to" /\ c.unscoped,
           Memories(p), \A o \in Owners : mem'[p][o] = mem[p][o]
    PROVE  Inv'
<1>1. /\ call'[p] = c /\ UNCHANGED <<kind, rows, links>>
      /\ ~ghost'[p].fault /\ OneKey(kind, ghost'[p].links)
      /\ \A o \in Owners : Before(p, o)' = Now(o) /\ Now(o)' = Now(o)
      /\ ghost'[p].fresh => \A o \in ToSet(c.list) :
           /\ o \in rows.owners /\ mem[p][o] = Now(o)
           /\ kind = "belongs_to" => {fk[p][o]} \ {None} = mem[p][o]
  BY Begun
<1>2. /\ list \in Seq(Owners) /\ \A j, k \in DOMAIN list : list[j] = list[k] => j = k
      /\ DOMAIN values = DOMAIN list
      /\ Has => \A j, k \in DOMAIN list : j # k => values[j] \cap values[k] = {}
      /\ Single => \A j \in DOMAIN list : \A s, t \in values[j] : s = t
      /\ Single => \A j \in DOMAIN list : values[j] # {}
  BY ListsListed, PassedValues DEF Inv
<1>3. Single' = Single /\ Has' = Has /\ kind' = kind  BY <1>1 DEF Single, Has
<1>4. 1 \in DOMAIN list
  <2>1. PICK j \in DOMAIN values : values[j] # {}  BY DEF Nobody
  <2> QED BY <1>2, <2>1
<1>5. Asking(p)'  BY <1>1, <1>2, <1>3 DEF Asking
<1>6. AtStep(p)'  BY <1>1, <1>2, <1>3, <1>4 DEF AtStep
<1>7. ASSUME Clean(p)' PROVE Tracked(p)'
  <2>1. ghost'[p].fresh  BY <1>7 DEF Clean, Undisturbed
  <2>2. \A j \in DOMAIN list : list[j] \in Owners /\ list[j] \in ToSet(list)  BY <1>2 DEF ToSet
  <2>3. \A j \in DOMAIN list : SavedAt(p, j, FALSE)'
    <3> SUFFICES ASSUME NEW j \in DOMAIN list PROVE SavedAt(p, j, FALSE)'  OBVIOUS
    <3>1. PICK o \in Owners : o = list[j]  BY <2>2
    <3>2. /\ o \in rows'.owners /\ mem'[p][o] = Before(p, o)' /\ Now(o)' = Before(p, o)'
      BY <1>1, <2>1, <2>2, <3>1
    <3>3. call'[p].list[j] = o  BY <1>1, <3>1
    <3> QED BY <3>2, <3>3 DEF SavedAt
  <2>4. SavedTo(p, 1)'
    <3> SUFFICES ASSUME NEW j \in DOMAIN list PROVE SavedAt(p, j, j < 1)'  BY <1>1 DEF SavedTo
    <3>1. (j < 1) = FALSE  BY <1>2
    <3> QED BY <2>3, <3>1
  <2> QED BY <1>1, <2>4 DEF Tracked
<1> QED BY <1>5, <1>6, <1>7, BeginInv

(* One that first reads, deletes, or takes links away.                     *)
LEMMA UntouchedBegins ==
    ASSUME Inv, NEW p \in Programs, NEW c \in Call, Begin(p, c), c.list \in Lists,
           ghost'[p].fresh, Memories(p),
           \A o \in Owners : mem'[p][o] = mem[p][o] /\ fk'[p][o] = fk[p][o]
    PROVE  Untouched(p)'
<1>1. /\ call'[p] = c /\ UNCHANGED <<kind, rows, links>>
      /\ \A o \in Owners : Before(p, o)' = Now(o) /\ Now(o)' = Now(o)
      /\ \A o \in ToSet(c.list) :
           /\ o \in rows.owners /\ mem[p][o] = Now(o)
           /\ kind = "belongs_to" => {fk[p][o]} \ {None} = mem[p][o]
  BY Begun
<1>2. Listed(p)' = ToSet(c.list)  BY <1>1 DEF Listed
<1>3. ToSet(c.list) \subseteq Owners  BY ListsListed DEF ToSet
<1> SUFFICES ASSUME NEW o \in ToSet(c.list)
             PROVE  /\ o \in rows.owners /\ mem'[p][o] = Before(p, o)' /\ Now(o)' = Before(p, o)'
                    /\ kind = "belongs_to" => {fk'[p][o]} \ {None} = Before(p, o)'
  BY <1>1, <1>2 DEF Untouched
<1> QED BY <1>1, <1>3

LEMMA OtherBegins ==
    ASSUME Inv, NEW p \in Programs, NEW c \in Call, Begin(p, c), c.list \in Lists,
           \/ c.step = "delete" /\ c.op \in {"delete", "remove"}
           \/ c.step = "owners" /\ c.op = "preload"
           \/ c.step = "targets" /\ c.op = "find",
           c.op = "delete" => DOMAIN c.values = DOMAIN c.list,
           c.old # {} => kind = "belongs_to" /\ c.unscoped,
           UNCHANGED <<mem, fk>>
    PROVE  Inv'
<1>1. /\ call'[p] = c /\ kind' = kind /\ ~ghost'[p].fault /\ OneKey(kind, ghost'[p].links)
  BY Begun
<1>2. \A j, k \in DOMAIN c.list : c.list[j] = c.list[k] => j = k  BY ListsListed
<1>3. Asking(p)'  BY <1>1, <1>2 DEF Asking
<1>4. AtStep(p)'  BY <1>1 DEF AtStep
<1>5. Memories(p)  BY SameMemory
<1>6. ASSUME Clean(p)' PROVE Tracked(p)'
  <2>1. Untouched(p)'  BY <1>5, <1>6, UntouchedBegins DEF Clean, Undisturbed
  <2> QED BY <1>1, <2>1 DEF Tracked
<1> QED BY <1>3, <1>4, <1>5, <1>6, BeginInv

LEMMA IdleFields == Idle.old = {} /\ Idle.unscoped = FALSE /\ Idle.values = <<>>
BY DEF Idle

LEMMA AppendInv ==
    ASSUME Inv, NEW p \in Programs, NEW list \in Lists, NEW values \in Passed(list),
           Append_(p, list, values)
    PROVE  Inv'
<1> DEFINE op == IF Single THEN "replace" ELSE "append"
           c == [Idle EXCEPT !.step = "save", !.op = op, !.list = list, !.values = values, !.i = 1]
<1>1. ~Nobody(values) /\ Begin(p, c) /\ UNCHANGED <<mem, fk>>  BY DEF Append_
<1>2. op \in Ops /\ (op = "append" => ~Single) /\ op \in {"append", "replace"}  BY DEF Ops
<1>3. list \in Seq(Owners) /\ values \in Seq(SUBSET Targets)
  BY ListsListed, PassedValues DEF Inv
<1> HIDE DEF op
<1>4. c \in Call /\ c.step = "save" /\ c.op = op /\ c.list = list /\ c.values = values /\ c.i = 1
      /\ c.old = {}
  <2>1. Idle \in Call /\ "save" \in Steps  BY IdleIs DEF Steps
  <2>2. c \in Call  BY <1>2, <1>3, <2>1 DEF Call
  <2>3. /\ c.step = "save" /\ c.op = op /\ c.list = list /\ c.values = values /\ c.i = 1
        /\ c.old = Idle.old
    BY <2>1 DEF Call
  <2> QED BY <2>2, <2>3, IdleFields
<1> HIDE DEF c
<1>5. Memories(p)  BY <1>1, SameMemory
<1> QED BY <1>1, <1>2, <1>4, <1>5, SaveBegins

LEMMA ReplaceInv ==
    ASSUME Inv, NEW p \in Programs, NEW list \in Lists, NEW values \in Passed(list),
           NEW unscoped \in BOOLEAN, NEW clones \in BOOLEAN, Replace(p, list, values, unscoped, clones)
    PROVE  Inv'
<1> DEFINE clears == Nobody(values)
           step == IF clears THEN "unlink" ELSE "save"
           old == IF unscoped /\ kind = "belongs_to" THEN Keys(p, list) ELSE {}
           c == [Idle EXCEPT !.step = step, !.op = "replace", !.list = list, !.values = values,
                             !.unscoped = unscoped, !.clones = clones, !.i = 1, !.old = old]
<1>1. /\ Begin(p, c)
      /\ mem' = [mem EXCEPT ![p] = [o \in Owners |-> IF clears /\ o \in ToSet(list) THEN {} ELSE @[o]]]
      /\ fk' = [fk EXCEPT ![p] = [o \in Owners |-> IF clears /\ o \in ToSet(list) THEN None ELSE @[o]]]
  BY DEF Replace
<1>2. step \in Steps  BY DEF Steps
<1>3. list \in Seq(Owners) /\ values \in Seq(SUBSET Targets) /\ DOMAIN values = DOMAIN list
      /\ \A j, k \in DOMAIN list : list[j] = list[k] => j = k
  BY ListsListed, PassedValues DEF Inv
<1>4. old \in SUBSET Targets /\ (old # {} => kind = "belongs_to" /\ unscoped)  BY <1>3, KeysIs
<1>m. MemTypes  BY DEF Inv
<1>5. /\ mem'[p] = [o \in Owners |-> IF clears /\ o \in ToSet(list) THEN {} ELSE mem[p][o]]
      /\ fk'[p] = [o \in Owners |-> IF clears /\ o \in ToSet(list) THEN None ELSE fk[p][o]]
  BY <1>m, <1>1 DEF MemTypes
<1>6. Memories(p)
  <2>1. mem'[p] \in [Owners -> SUBSET Targets] /\ fk'[p] \in [Owners -> Targets \cup {None}]
    BY <1>m, <1>5 DEF MemTypes
  <2> QED BY <1>m, <1>1, <2>1 DEF MemTypes, Memories
<1> HIDE DEF old, step
<1>7. /\ c \in Call /\ c.step = step /\ c.op = "replace" /\ c.list = list /\ c.values = values
      /\ c.unscoped = unscoped /\ c.i = 1 /\ c.old = old
  <2>1. Idle \in Call /\ "replace" \in Ops  BY IdleIs DEF Ops
  <2>2. c \in Call  BY <1>2, <1>3, <1>4, <2>1 DEF Call
  <2>3. /\ c.step = step /\ c.op = "replace" /\ c.list = list /\ c.values = values
        /\ c.unscoped = unscoped /\ c.i = 1 /\ c.old = old
    BY <2>1 DEF Call
  <2> QED BY <2>2, <2>3
<1> HIDE DEF c
<1>8. CASE ~clears
  <2>1. \A o \in Owners : mem'[p][o] = mem[p][o]  BY <1>5, <1>8
  <2>2. c.step = "save"  BY <1>7, <1>8 DEF step
  <2> QED BY <1>1, <1>4, <1>6, <1>7, <1>8, <2>1, <2>2, SaveBegins
<1>9. CASE clears
  <2>1. /\ c.step = "unlink" /\ c.op = "replace" /\ c.list = list /\ c.values = values
        /\ c.old = old /\ c.unscoped = unscoped
    BY <1>7, <1>9 DEF step
  <2>2. /\ call'[p] = c /\ UNCHANGED <<kind, rows, links>>
        /\ ~ghost'[p].fault /\ OneKey(kind, ghost'[p].links)
        /\ \A o \in Owners : Before(p, o)' = Now(o) /\ Now(o)' = Now(o)
        /\ ghost'[p].fresh => \A o \in ToSet(c.list) : o \in rows.owners
    BY <1>1, <1>7, Begun
  <2>3. \A j \in DOMAIN list : values[j] = {}  BY <1>3, <1>9 DEF Nobody
  <2>4. \A j \in DOMAIN list : list[j] \in Owners /\ list[j] \in ToSet(list) /\ mem'[p][list[j]] = {}
    <3>1. \A j \in DOMAIN list : list[j] \in Owners /\ list[j] \in ToSet(list)  BY <1>3 DEF ToSet
    <3> QED BY <1>5, <1>9, <3>1
  <2>5. Asking(p)'
    BY <1>3, <1>4, <2>1, <2>2, <2>3 DEF Asking
  <2>6. AtStep(p)'  BY <2>1, <2>2 DEF AtStep
  <2>7. ASSUME Clean(p)' PROVE Tracked(p)'
    <3>1. ghost'[p].fresh  BY <2>7 DEF Clean, Undisturbed
    <3>2. CASE kind = "belongs_to"  BY <2>1, <2>2, <2>3, <2>4, <3>2 DEF Tracked
    <3>3. CASE kind # "belongs_to"
      <4>1. \A j \in DOMAIN list : SavedAt(p, j, TRUE)'
        <5> SUFFICES ASSUME NEW j \in DOMAIN list PROVE SavedAt(p, j, TRUE)'  OBVIOUS
        <5>1. PICK o \in Owners : o = list[j]  BY <2>4
        <5>2. /\ o \in rows'.owners /\ mem'[p][o] = {} /\ Now(o)' = Before(p, o)'
          BY <2>1, <2>2, <2>4, <3>1, <5>1
        <5>3. call'[p].list[j] = o /\ call'[p].values[j] = {} /\ kind' # "belongs_to" /\ call'[p].op = "replace"
          BY <2>1, <2>2, <2>3, <3>3, <5>1
        <5>4. Put(p, j)' = {}  BY <5>3 DEF Put
        <5> QED BY <5>2, <5>3, <5>4 DEF SavedAt
      <4>2. SavedTo(p, Len(call[p].list) + 1)'
        <5> SUFFICES ASSUME NEW j \in DOMAIN list PROVE SavedAt(p, j, j < Len(call[p].list) + 1)'
          BY <2>1, <2>2 DEF SavedTo
        <5>1. Len(list) \in Nat /\ DOMAIN list = 1..Len(list)  BY <1>3
        <5>2. (j < Len(call[p].list) + 1)' = TRUE  BY <2>1, <2>2, <5>1
        <5> QED BY <4>1, <5>2
      <4> QED BY <2>1, <2>2, <3>3, <4>2 DEF Tracked
    <3> QED BY <3>2, <3>3
  <2> QED BY <1>1, <1>6, <1>7, <2>1, <2>5, <2>6, <2>7, BeginInv
<1> QED BY <1>8, <1>9

LEMMA DeleteInv ==
    ASSUME Inv, NEW p \in Programs, NEW list \in Lists, NEW t \in rows.targets,
           NEW unscoped \in BOOLEAN, Delete(p, list, {t}, unscoped)
    PROVE  Inv'
<1> DEFINE old == IF unscoped /\ kind = "belongs_to" THEN Keys(p, list) ELSE {}
           values == [i \in 1..Len(list) |-> {t}]
           c == [Idle EXCEPT !.step = "delete", !.op = "delete", !.list = list, !.unscoped = unscoped,
                             !.values = values, !.old = old]
<1>1. Begin(p, c) /\ UNCHANGED <<mem, fk>>  BY DEF Delete
<1>3. list \in Seq(Owners) /\ DOMAIN list = 1..Len(list) /\ Len(list) \in Nat  BY ListsListed
<1>4. values \in Seq(SUBSET Targets) /\ DOMAIN values = DOMAIN list
  <2>1. t \in Targets  BY DEF Inv, DbTypes
  <2>2. values \in [1..Len(list) -> SUBSET Targets]  BY <2>1
  <2> QED BY <1>3, <2>2
<1>5. old \in SUBSET Targets /\ (old # {} => kind = "belongs_to" /\ unscoped)  BY <1>3, KeysIs
<1> HIDE DEF old, values
<1>6. /\ c \in Call /\ c.step = "delete" /\ c.op = "delete" /\ c.list = list /\ c.values = values
      /\ c.old = old /\ c.unscoped = unscoped
  <2>1. Idle \in Call /\ "delete" \in Steps /\ "delete" \in Ops  BY IdleIs DEF Ops, Steps
  <2>2. c \in Call  BY <1>3, <1>4, <1>5, <2>1 DEF Call
  <2>3. /\ c.step = "delete" /\ c.op = "delete" /\ c.list = list /\ c.values = values
        /\ c.old = old /\ c.unscoped = unscoped
    BY <2>1 DEF Call
  <2> QED BY <2>2, <2>3
<1> HIDE DEF c
<1> QED BY <1>1, <1>4, <1>5, <1>6, OtherBegins

LEMMA OtherInv ==
    ASSUME Inv, NEW p \in Programs, NEW list \in Lists,
           NEW op \in Ops \ {"append", "replace", "delete"}, Other(p, op, list)
    PROVE  Inv'
<1> DEFINE step == CASE op = "remove" -> "delete" [] op = "preload" -> "owners" [] op = "find" -> "targets"
           c == [Idle EXCEPT !.step = step, !.op = op, !.list = list]
<1>1. Begin(p, c) /\ UNCHANGED <<mem, fk>>  BY DEF Other
<1>3. \/ step = "delete" /\ op = "remove"
      \/ step = "owners" /\ op = "preload"
      \/ step = "targets" /\ op = "find"
  BY DEF Ops
<1>4. step \in Steps  BY <1>3 DEF Steps
<1> HIDE DEF step
<1>5. c \in Call /\ c.step = step /\ c.op = op /\ c.list = list /\ c.old = {}
  <2>1. Idle \in Call /\ list \in Seq(Owners)  BY IdleIs, ListsListed
  <2>2. c \in Call  BY <1>4, <2>1 DEF Call
  <2>3. c.step = step /\ c.op = op /\ c.list = list /\ c.old = Idle.old  BY <2>1 DEF Call
  <2> QED BY <2>2, <2>3, IdleFields
<1> HIDE DEF c
<1> QED BY <1>1, <1>3, <1>5, OtherBegins

-----------------------------------------------------------------------------
(* The invariant.                                                          *)
LEMMA InitInv == Init => Inv
<1> SUFFICES ASSUME Init PROVE Inv  OBVIOUS
<1>1. PICK start \in Starts : kind = start.kind /\ links = start.links  BY DEF Init
<1>2. /\ kind \in {"belongs_to", "has_one", "has_many", "many_to_many"}
      /\ links \subseteq Owners \X (Targets \ Unsaved) /\ OneKey(kind, links)
  BY <1>1, StartsAssumption
<1>3. DbTypes
  <2>1. rows.targets = Targets \ Unsaved /\ rows \in [owners : SUBSET Owners, targets : SUBSET Targets]
    BY DEF Init
  <2> QED BY <1>2, <2>1 DEF DbTypes, Pairs
<1>4. MemTypes
  <2>1. \A p \in Programs : mem[p] = [o \in Owners |-> Linked(links, Targets, o)]  BY DEF Init
  <2>2. \A p \in Programs : fk[p] = [o \in Owners |-> ReadKey(o)]  BY DEF Init, ReadKey
  <2>3. \A o \in Owners : Linked(links, Targets, o) \in SUBSET Targets /\ ReadKey(o) \in Targets \cup {None}
    BY <1>3, ReadKeyIs DEF Linked
  <2>4. mem \in [Programs -> [Owners -> SUBSET Targets]]
    BY <2>3 DEF Init
  <2>5. fk = [p \in Programs |-> [o \in Owners |-> ReadKey(o)]]  BY DEF Init, ReadKey
  <2>6. fk \in [Programs -> [Owners -> Targets \cup {None}]]
    BY <2>3, <2>5
  <2> QED BY <2>4, <2>6 DEF MemTypes
<1>5. \A p \in Programs : call[p] = Idle /\ ghost[p] = NoGhost  BY DEF Init
<1>6. CallTypes
  <2>1. call \in [Programs -> Call] /\ ghost \in [Programs -> Ghost]  BY IdleIs DEF Init
  <2>2. bounds \in [calls : 0..MaxCalls, faults : 0..MaxFaults]  BY BoundsAssumption DEF Init
  <2> QED BY <2>1, <2>2 DEF CallTypes
<1>7. ASSUME NEW p \in Programs PROVE Shape(p) /\ Reads(p) /\ Tracked(p)
  <2>1. call[p].step = "idle" /\ call[p].op = "find" /\ call[p].list = <<>> /\ call[p].old = {}
    BY <1>5 DEF Idle
  <2>2. ghost[p].links = {}  BY <1>5 DEF NoGhost
  <2>3. Asking(p)  BY <2>1, <2>2 DEF Asking, OneKey
  <2>4. AtStep(p)  BY <2>1 DEF AtStep
  <2>5. Reads(p)  BY <2>1 DEF Reads, Running
  <2>6. Tracked(p)  BY <2>1 DEF Tracked, Running
  <2> QED BY <2>3, <2>4, <2>5, <2>6 DEF Shape
<1> QED BY <1>3, <1>4, <1>6, <1>7 DEF Inv

LEMMA StutterInv == ASSUME Inv, UNCHANGED vars PROVE Inv'
<1> USE DEF vars
<1>1. DbTypes' /\ MemTypes' /\ CallTypes'
  BY DEF Inv, DbTypes, MemTypes, CallTypes, OneKey
<1>2. ASSUME NEW r \in Programs PROVE Shape(r)' /\ Reads(r)' /\ (Clean(r)' => Tracked(r)')
  <2>1. Aside(r) /\ Quiet /\ ghost'[r] = ghost[r]  BY DEF Aside, Quiet
  <2>2. ghost \in [Programs -> Ghost] /\ Shape(r) /\ Reads(r) /\ (Clean(r) => Tracked(r))
    BY DEF Inv, CallTypes
  <2> QED BY <2>1, <2>2, AsideShape, AsideReads, AsideTracked
<1> QED BY <1>1, <1>2 DEF Inv

LEMMA NextInv == Inv /\ [Next]_vars => Inv'
<1> SUFFICES ASSUME Inv, [Next]_vars PROVE Inv'  OBVIOUS
<1>1. ASSUME NEW p \in Programs, NEW list \in Lists, NEW values \in Passed(list),
             Append_(p, list, values)
      PROVE  Inv'
  BY <1>1, AppendInv
<1>2. ASSUME NEW p \in Programs, NEW list \in Lists, NEW values \in Passed(list),
             NEW unscoped \in Scopes, NEW clones \in BOOLEAN, Replace(p, list, values, unscoped, clones)
      PROVE  Inv'
  <2>1. unscoped \in BOOLEAN  BY DEF Scopes
  <2> QED BY <1>2, <2>1, ReplaceInv
<1>3. ASSUME NEW p \in Programs, NEW list \in Lists, NEW t \in rows.targets,
             NEW unscoped \in Scopes, Delete(p, list, {t}, unscoped)
      PROVE  Inv'
  <2>1. unscoped \in BOOLEAN  BY DEF Scopes
  <2> QED BY <1>3, <2>1, DeleteInv
<1>4. ASSUME NEW p \in Programs, NEW list \in Lists,
             NEW op \in Ops \ {"append", "replace", "delete"}, Other(p, op, list)
      PROVE  Inv'
  BY <1>4, OtherInv
<1>5. ASSUME NEW p \in Programs,
             \/ SaveOwner(p) \/ Unlink(p) \/ Purge(p) \/ DeleteLinks(p) \/ RemoveOwner(p)
             \/ Find(p) \/ ReadOwners(p) \/ ReadJoins(p) \/ ReadTargets(p)
      PROVE  Inv'
  BY <1>5, SaveOwnerInv, UnlinkInv, PurgeInv, DeleteLinksInv, RemoveOwnerInv,
     FindInv, ReadOwnersInv, ReadJoinsInv, ReadTargetsInv
<1>6. CASE Over \/ UNCHANGED vars  BY <1>6, StutterInv DEF Over
<1> QED BY <1>1, <1>2, <1>3, <1>4, <1>5, <1>6 DEF Next

THEOREM Invariance == Spec => []Inv
<1> QED BY InitInv, NextInv, PTL DEF Spec

-----------------------------------------------------------------------------
(* Types: what the database, the fields in memory and the calls are.       *)
THEOREM AssociationTypes == Spec => []TypeOK
<1>1. Inv => TypeOK
  <2> SUFFICES ASSUME Inv PROVE TypeOK  OBVIOUS
  <2>1. DbTypes /\ MemTypes /\ CallTypes  BY DEF Inv
  <2>2. ASSUME NEW p \in Programs
        PROVE  /\ call[p].step \in Steps /\ call[p].op \in Ops /\ call[p].list \in Seq(Owners)
               /\ call[p].step = "save" => call[p].i \in DOMAIN call[p].list
    <3>1. call[p] \in Call  BY <2>1, CallIs
    <3>2. AtStep(p)  BY DEF Inv, Shape
    <3> QED BY <3>1, <3>2 DEF Call, AtStep
  <2> QED BY <2>1, <2>2 DEF TypeOK, DbTypes, MemTypes, CallTypes, Pairs
<1> QED BY <1>1, Invariance, PTL

(* A call that nobody disturbed, and that returned no error, did what it   *)
(* was asked, no more and no less (association.go).                        *)
THEOREM AssociationExact == Spec => []Exact
<1>1. Inv => Exact  BY DEF Inv, Exact, Clean, Tracked
<1> QED BY <1>1, Invariance, PTL

(* Replace saves before it takes away: wherever it stops, an owner has all *)
(* it had, or all it was to have (association.go).                         *)
THEOREM AssociationNeverNeither == Spec => []NeverNeither
<1>1. Inv => NeverNeither
  <2> SUFFICES ASSUME Inv, NEW p \in Programs, call[p].op \in {"append", "replace"},
                      call[p].step # "idle", Undisturbed(p), ~Overwrites(p)
               PROVE  Neither(p)
    BY DEF NeverNeither, Neither, Taken
  <2>1. Tracked(p) /\ Shape(p) /\ call[p] \in Call  BY CallIs DEF Inv, Clean
  <2>2. call[p].step \in {"save", "unlink", "purge", "ok", "failed"}
    BY <2>1 DEF Shape, AtStep, Call, Steps
  <2>3. CASE call[p].step = "save"  BY <2>1, <2>3, NeitherSaved DEF Tracked
  <2>4. CASE call[p].step = "unlink" /\ kind # "belongs_to"  BY <2>1, <2>4, NeitherSaved DEF Tracked
  <2>5. CASE call[p].step = "unlink" /\ kind = "belongs_to"  BY <2>1, <2>5 DEF Tracked, Neither
  <2>6. CASE call[p].step = "purge"
    <3>1. call[p].op = "replace"  BY <2>1, <2>6 DEF Shape, AtStep
    <3> QED BY <2>1, <2>6, <3>1 DEF Tracked, Neither
  <2>7. CASE call[p].step \in {"ok", "failed"}  BY <2>1, <2>7 DEF Tracked
  <2> QED BY <2>2, <2>3, <2>4, <2>5, <2>6, <2>7
<1> QED BY <1>1, Invariance, PTL

(* What a preload assigns was linked at some time while it ran, and what   *)
(* was linked all that time it assigns (preload, callbacks/preload.go).    *)
THEOREM AssociationPreloadBetween == Spec => []PreloadBetween
<1>1. Inv => PreloadBetween  BY DEF Inv, PreloadBetween, Reads, Between
<1> QED BY <1>1, Invariance, PTL

-----------------------------------------------------------------------------
(* What a step takes away, its call answers for.                           *)
Answers ==
    \A x \in links : x \notin links' \/ x[2] \in rows.targets \ rows'.targets =>
         \E p \in Programs :
            /\ call'[p] # call[p]
            /\ \/ x[1] \in Listed(p)
               \/ Has /\ \E o \in Listed(p) : <<o, x[2]>> \in links'
               \/ x[2] \in call[p].old

(* Taking links of the owners listed, and the targets they led to.         *)
LEMMA TakesOwn ==
    ASSUME Inv, NEW p \in Programs, call'[p] # call[p], NEW gone, gone \subseteq links,
           \A x \in gone : x[1] \in Listed(p), links' = links \ gone,
           \A t \in rows.targets \ rows'.targets : Has /\ \E x \in gone : t = x[2]
    PROVE  Answers
<1> SUFFICES ASSUME NEW x \in links, x \notin links' \/ x[2] \in rows.targets \ rows'.targets
             PROVE  x[1] \in Listed(p)
  BY DEF Answers
<1>1. CASE x \notin links'  BY <1>1
<1>2. CASE x[2] \in rows.targets \ rows'.targets
  <2>1. PICK y \in gone : Has /\ x[2] = y[2]  BY <1>2
  <2>2. x = y  BY <2>1 DEF Inv, DbTypes, OneKey, Has
  <2> QED BY <2>2
<1> QED BY <1>1, <1>2

LEMMA SaveAnswers ==
    ASSUME Inv, NEW p \in Programs, SaveOwner(p) PROVE Answers
<1> DEFINE c == call[p]
           o == c.list[c.i]
           S == Field(p, o, c.i)
<1>0. call[p].step = "save" /\ Shape(p) /\ CallTypes /\ MemTypes /\ DbTypes /\ c \in Call
  BY CallIs DEF SaveOwner, Inv
<1>1. CASE Faulty(p)
  <2>1. UNCHANGED <<rows, links>>  BY <1>1 DEF Faulty
  <2> QED BY <2>1 DEF Answers
<1>2. CASE links' = LinkAll(links, o, S) /\ rows' = [rows EXCEPT !.targets = @ \cup S] /\ SaveNext(p, FALSE)
  <2>1. c.i \in DOMAIN c.list /\ c.op \in {"append", "replace"} /\ o \in Owners /\ o \in Listed(p)
        /\ c.values \in Seq(SUBSET Targets) /\ DOMAIN c.values = DOMAIN c.list
    BY <1>0, CallIs DEF Shape, AtStep, Asking, Call
  <2>2. S \in SUBSET Targets  BY <1>0, <2>1 DEF Field, MemTypes
  <2>3. call'[p] # c
    <3>1. c.i + 1 # c.i  BY <1>0 DEF Call
    <3>2. call' = [call EXCEPT ![p].i = @ + 1] => call'[p].i = c.i + 1
      BY <1>0, CallNext
    <3>3. ASSUME NEW s \in Steps \ {"save"}, Goes(p, s) PROVE call'[p].step # "save"
      BY <1>0, <3>3, CallGoes
    <3>4. \/ call' = [call EXCEPT ![p].i = @ + 1]
          \/ \E s \in Steps \ {"save"} : Goes(p, s)
      BY <1>2 DEF SaveNext, Steps
    <3> QED BY <1>0, <3>1, <3>2, <3>3, <3>4
  <2>4. \A t : t \in rows.targets => t \in rows'.targets  BY <1>0, <1>2 DEF DbTypes
  <2> SUFFICES ASSUME NEW x \in links, x \notin links'
               PROVE  x[1] \in Listed(p) \/ (Has /\ \E a \in Listed(p) : <<a, x[2]>> \in links')
    BY <2>3, <2>4 DEF Answers
  <2>5. x = <<x[1], x[2]>>  BY <1>0 DEF DbTypes, Pairs
  <2>6. (kind = "belongs_to" /\ x[1] = o) \/ (Has /\ x[2] \in S)
    BY <1>0, <1>2, <2>1, <2>2, <2>5, LinkAllIs
  <2>7. Has /\ x[2] \in S => <<o, x[2]>> \in links'
    BY <1>0, <1>2, <2>1, <2>2, LinkAllIs DEF Has
  <2> QED BY <2>1, <2>6, <2>7
<1> QED BY <1>1, <1>2 DEF SaveOwner

LEMMA GoesChanges ==
    ASSUME Inv, NEW p \in Programs, NEW s \in Steps, Goes(p, s), s # call[p].step
    PROVE  call'[p] # call[p]
BY CallGoes DEF Inv

LEMMA TakingAnswers ==
    ASSUME Inv, NEW p \in Programs, Unlink(p) \/ DeleteLinks(p) \/ RemoveOwner(p) PROVE Answers
<1>0. DbTypes  BY DEF Inv
<1>1. CASE Faulty(p)
  <2>1. UNCHANGED <<rows, links>>  BY <1>1 DEF Faulty
  <2> QED BY <2>1 DEF Answers
<1>2. CASE Unlink(p) /\ ~Faulty(p)
  <2>1. /\ links' = links \ OldLinks(p) /\ OldLinks(p) \subseteq links
        /\ \A x \in OldLinks(p) : x[1] \in Listed(p)
    BY <1>2 DEF Unlink, OldLinks
  <2>2. \A t \in rows.targets \ rows'.targets : Has /\ \E x \in OldLinks(p) : t = x[2]
    BY <1>0, <1>2 DEF Unlink, DbTypes
  <2>3. call[p].step = "unlink" /\ \E s \in Steps \ {"unlink"} : Goes(p, s)
    BY <1>2 DEF Unlink, Steps
  <2> QED BY <2>1, <2>2, <2>3, GoesChanges, TakesOwn
<1>3. CASE DeleteLinks(p) /\ ~Faulty(p)
  <2> DEFINE gone == {x \in links : x[1] \in Listed(p) /\ x[2] \in Values(p)}
  <2>1. /\ links' = links \ gone /\ gone \subseteq links
        /\ \A x \in gone : x[1] \in Listed(p)
    BY <1>3 DEF DeleteLinks
  <2>2. \A t \in rows.targets \ rows'.targets : Has /\ \E x \in gone : t = x[2]
    BY <1>0, <1>3 DEF DeleteLinks, DbTypes
  <2>3. call[p].step = "delete" /\ \E s \in Steps \ {"delete"} : Goes(p, s)
    BY <1>3 DEF DeleteLinks, Steps
  <2> HIDE DEF gone
  <2> QED BY <2>1, <2>2, <2>3, GoesChanges, TakesOwn
<1>4. CASE RemoveOwner(p) /\ ~Faulty(p)
  <2> DEFINE gone == {x \in links : x[1] \in Listed(p)}
  <2>1. /\ links' = links \ gone /\ gone \subseteq links
        /\ \A x \in gone : x[1] \in Listed(p)
    BY <1>4 DEF RemoveOwner
  <2>2. \A t \in rows.targets \ rows'.targets : Has /\ \E x \in gone : t = x[2]
    BY <1>0, <1>4 DEF RemoveOwner, DbTypes
  <2>3. call[p].step = "delete" /\ \E s \in Steps \ {"delete"} : Goes(p, s)
    BY <1>4 DEF RemoveOwner, Steps
  <2> HIDE DEF gone
  <2> QED BY <2>1, <2>2, <2>3, GoesChanges, TakesOwn
<1> QED BY <1>1, <1>2, <1>3, <1>4

LEMMA PurgeAnswers ==
    ASSUME Inv, NEW p \in Programs, Purge(p) PROVE Answers
<1>0. DbTypes  BY DEF Inv
<1>1. CASE Faulty(p)
  <2>1. UNCHANGED <<rows, links>>  BY <1>1 DEF Faulty
  <2> QED BY <2>1 DEF Answers
<1>3. CASE Refused(p) /\ UNCHANGED <<rows, links>>  BY <1>3 DEF Answers
<1>2. CASE ~Faulty(p) /\ ~Refused(p)
  <2>1. links' = links /\ \A t \in rows.targets \ rows'.targets : t \in call[p].old
    BY <1>0, <1>2 DEF Purge, DbTypes
  <2>2. call'[p] # call[p]
    <3>1. call[p].step = "purge" /\ Goes(p, "ok") /\ "ok" \in Steps  BY <1>2 DEF Purge, Steps
    <3> QED BY <3>1, GoesChanges
  <2> QED BY <2>1, <2>2 DEF Answers
<1> QED BY <1>1, <1>2, <1>3 DEF Purge

(* Whoever else runs, a step takes links only from the owners its call     *)
(* lists, or gives them targets that it holds in their fields, and deletes *)
(* only targets they are linked to or were in memory (association.go).     *)
THEOREM AssociationOthersUntouched == Spec => OthersUntouched
<1>1. Inv /\ [Next]_vars => [Answers]_vars
  <2> SUFFICES ASSUME Inv, Next PROVE Answers  BY DEF Answers, vars
  <2>1. UNCHANGED <<rows, links>> => Answers  BY DEF Answers
  <2>2. ASSUME NEW p \in Programs, NEW c, Begin(p, c) PROVE Answers
    BY <2>1, <2>2 DEF Begin
  <2>3. ASSUME NEW p \in Programs, NEW list \in Lists, NEW values \in Passed(list), Append_(p, list, values)
        PROVE  Answers
    BY <2>2, <2>3 DEF Append_
  <2>4. ASSUME NEW p \in Programs, NEW list \in Lists, NEW values \in Passed(list),
               NEW unscoped \in Scopes, NEW clones \in BOOLEAN, Replace(p, list, values, unscoped, clones)
        PROVE  Answers
    BY <2>2, <2>4 DEF Replace
  <2>5. ASSUME NEW p \in Programs, NEW list \in Lists, NEW t \in rows.targets,
               NEW unscoped \in Scopes, Delete(p, list, {t}, unscoped)
        PROVE  Answers
    BY <2>2, <2>5 DEF Delete
  <2>6. ASSUME NEW p \in Programs, NEW list \in Lists,
               NEW op \in Ops \ {"append", "replace", "delete"}, Other(p, op, list)
        PROVE  Answers
    BY <2>2, <2>6 DEF Other
  <2>7. ASSUME NEW p \in Programs,
               \/ SaveOwner(p) \/ Unlink(p) \/ Purge(p) \/ DeleteLinks(p) \/ RemoveOwner(p)
               \/ Find(p) \/ ReadOwners(p) \/ ReadJoins(p) \/ ReadTargets(p)
        PROVE  Answers
    <3>1. Find(p) \/ ReadOwners(p) \/ ReadJoins(p) \/ ReadTargets(p) => UNCHANGED <<rows, links>>
      BY DEF Find, ReadOwners, ReadJoins, ReadTargets, Faulty
    <3> QED BY <2>1, <2>7, <3>1, SaveAnswers, TakingAnswers, PurgeAnswers
  <2>8. Over => Answers  BY <2>1 DEF Over, vars
  <2> QED BY <2>3, <2>4, <2>5, <2>6, <2>7, <2>8 DEF Next
<1> QED BY <1>1, Invariance, PTL DEF Spec, OthersUntouched, Answers
=============================================================================
