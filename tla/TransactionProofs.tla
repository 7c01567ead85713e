------------------------- MODULE TransactionProofs --------------------------
(***************************************************************************)
(* What Transaction keeps for any depth of nesting, any number of blocks   *)
(* and writes, and any set of settings.                                    *)
(***************************************************************************)
EXTENDS Transaction, SequenceTheorems, FiniteSetTheorems, TLAPS

-----------------------------------------------------------------------------
(* The inductive invariant.                                                *)

(* A failed statement is either impossible or dooms the transaction.       *)
Reliable == setting.fails => setting.aborts

(* Before the outermost call, while it runs, and after it.                 *)
Phase ==
    /\ frames # <<>> => outcome = "none"
    /\ outcome = "none" => committed = {}
    /\ outcome = "none" /\ frames = <<>> =>
          /\ ~open /\ pending = {} /\ savepoints = <<>> /\ ~aborted
          /\ entered = 0 /\ failed = {} /\ DOMAIN wrote = {} /\ ~panicking
    /\ outcome # "none" /\ ~setting.stale => ~open
    /\ failed \subseteq 1..entered

(* The calls that run: the outermost first, numbered as they began.        *)
FramesOK ==
    \A i \in DOMAIN frames :
        /\ frames[i].kind = "root" <=> i = 1
        /\ frames[i].kind = "savepoint" => setting.nested
        /\ frames[i].kind = "plain" => ~setting.nested
        /\ frames[i].block \in 1..entered /\ frames[i].block \notin failed
        /\ \A j \in DOMAIN frames : i < j => frames[i].block < frames[j].block

(* Only the innermost handle may have an error, as nothing is begun on one *)
(* that has, and then the database refuses statements.                     *)
ErrOK ==
    \A i \in DOMAIN frames :
        frames[i].err => setting.nested /\ i = Len(frames) /\ (Reliable => aborted)

(* What was written in a block was written in those around it.             *)
WritesOK ==
    /\ \E n \in 0..MaxWrites : DOMAIN wrote = 1..n
    /\ \A w \in DOMAIN wrote :
          /\ wrote[w] \subseteq 1..entered
          /\ \A i, j \in DOMAIN frames :
                i < j /\ frames[j].block \in wrote[w] => frames[i].block \in wrote[w]

SavepointsOK ==
    \A k \in DOMAIN savepoints :
        /\ savepoints[k].name \in 1..entered
        /\ \A l \in DOMAIN savepoints : k < l => savepoints[k].name < savepoints[l].name

(* The writes that count once block b has failed are what its savepoint    *)
(* goes back to.                                                           *)
Without(b) == {w \in Kept : b \notin wrote[w]}
Saved ==
    \A i \in DOMAIN frames, k \in DOMAIN savepoints :
        frames[i].kind = "savepoint" /\ savepoints[k].name = frames[i].block =>
            /\ Without(frames[i].block) \subseteq savepoints[k].writes
            /\ Reliable => Without(frames[i].block) = savepoints[k].writes

(* A block whose savepoint was not set runs in a transaction that refuses  *)
(* statements: it writes nothing, and none inside it has a savepoint.      *)
Unset ==
    Reliable => \A i \in DOMAIN frames :
        frames[i].kind = "savepoint" /\ ~Named(frames[i].block) =>
            /\ aborted
            /\ \A w \in DOMAIN wrote : frames[i].block \notin wrote[w]
            /\ \A j \in DOMAIN frames : i < j => ~Named(frames[j].block)

Exact ==
    frames # <<>> =>
        /\ Kept \subseteq pending
        /\ ~setting.fails \/ (setting.aborts /\ ~aborted) => pending = Kept

Result ==
    /\ outcome = "ok" => Kept \subseteq committed /\ (Reliable => committed = Kept)
    /\ outcome = "panic" \/ (outcome = "error" /\ Reliable) => committed = {}

Inv == /\ TypeOK /\ Phase /\ FramesOK /\ ErrOK /\ WritesOK /\ SavepointsOK
       /\ Saved /\ Unset /\ Exact /\ Result

-----------------------------------------------------------------------------
(* Types and sequences.                                                    *)

LEMMA SettingType ==
    ASSUME setting \in Settings
    PROVE  /\ setting.reports \in BOOLEAN /\ setting.aborts \in BOOLEAN
           /\ setting.nested \in BOOLEAN /\ setting.fails \in BOOLEAN
           /\ setting.stale \in BOOLEAN
  BY SettingsAssumption

LEMMA FrameType ==
    ASSUME TypeOK, NEW i \in DOMAIN frames
    PROVE  /\ frames[i] \in Frame /\ i \in 1..Len(frames)
           /\ frames[i].kind \in Kinds /\ frames[i].block \in Blocks
           /\ frames[i].err \in BOOLEAN
<1>1. frames[i] \in Frame /\ i \in 1..Len(frames)
  BY ElementOfSeq, LenProperties DEF TypeOK
<1> QED
  BY <1>1 DEF Frame

LEMMA SavepointType ==
    ASSUME TypeOK, NEW k \in DOMAIN savepoints
    PROVE  /\ savepoints[k] \in Savepoint /\ k \in 1..Len(savepoints)
           /\ savepoints[k].name \in Blocks /\ savepoints[k].writes \in SUBSET Writes
<1>1. savepoints[k] \in Savepoint /\ k \in 1..Len(savepoints)
  BY ElementOfSeq, LenProperties DEF TypeOK
<1> QED
  BY <1>1 DEF Savepoint

LEMMA TopIndex ==
    ASSUME TypeOK, frames # <<>>
    PROVE  /\ Len(frames) \in DOMAIN frames /\ Len(frames) \in Nat \ {0}
           /\ DOMAIN frames = 1..Len(frames) /\ Top = frames[Len(frames)]
  BY LenProperties, EmptySeq DEF TypeOK, Top, Last

LEMMA Prefix ==
    ASSUME NEW S, NEW s \in Seq(S), NEW n \in 0..Len(s)
    PROVE  /\ SubSeq(s, 1, n) \in Seq(S) /\ Len(SubSeq(s, 1, n)) = n
           /\ DOMAIN SubSeq(s, 1, n) = 1..n
           /\ \A i \in 1..n : SubSeq(s, 1, n)[i] = s[i]
<1>1. n \in Nat /\ Len(s) \in Nat /\ n \leq Len(s)
  BY LenProperties
<1>2. \A i \in 1..n : s[i] \in S
  BY <1>1, ElementOfSeq
<1>3. /\ SubSeq(s, 1, n) \in Seq(S)
      /\ Len(SubSeq(s, 1, n)) = IF 1 <= n THEN n - 1 + 1 ELSE 0
      /\ \A i \in 1..n - 1 + 1 : SubSeq(s, 1, n)[i] = s[1 + i - 1]
  BY <1>1, <1>2, SubSeqProperties
<1>4. Len(SubSeq(s, 1, n)) = n /\ \A i \in 1..n : SubSeq(s, 1, n)[i] = s[i]
  BY <1>1, <1>3
<1> QED
  BY <1>3, <1>4, LenProperties

LEMMA Popped ==
    ASSUME TypeOK, frames # <<>>
    PROVE  /\ Front(frames) \in Seq(Frame) /\ Len(Front(frames)) = Len(frames) - 1
           /\ DOMAIN Front(frames) = 1..(Len(frames) - 1)
           /\ \A i \in 1..(Len(frames) - 1) : Front(frames)[i] = frames[i]
<1>1. Len(frames) - 1 \in 0..Len(frames) /\ frames \in Seq(Frame)
  BY TopIndex DEF TypeOK
<1> QED
  BY <1>1, Prefix DEF Front

LEMMA Grown ==
    ASSUME TypeOK, NEW f \in Frame
    PROVE  /\ Append(frames, f) \in Seq(Frame)
           /\ Len(Append(frames, f)) = Len(frames) + 1
           /\ DOMAIN Append(frames, f) = 1..(Len(frames) + 1)
           /\ Append(frames, f)[Len(frames) + 1] = f
           /\ \A i \in 1..Len(frames) : Append(frames, f)[i] = frames[i]
  BY AppendProperties, LenProperties DEF TypeOK

-----------------------------------------------------------------------------
(* What is unchanged where the calls that run are the first n of those     *)
(* that ran, each with its kind and number.                                *)
Alike(n) ==
    /\ n \in 0..Len(frames)
    /\ frames' \in Seq(Frame) /\ Len(frames') = n /\ DOMAIN frames' = 1..n
    /\ \A i \in 1..n : frames'[i].kind = frames[i].kind /\ frames'[i].block = frames[i].block

LEMMA AlikeIn ==
    ASSUME TypeOK, NEW n, Alike(n)
    PROVE  /\ n \in Nat /\ Len(frames) \in Nat
           /\ DOMAIN frames' \subseteq DOMAIN frames
           /\ \A i \in DOMAIN frames' : frames'[i].kind = frames[i].kind
                                        /\ frames'[i].block = frames[i].block
<1>1. Len(frames) \in Nat /\ DOMAIN frames = 1..Len(frames)
  BY LenProperties DEF TypeOK
<1>2. n \in 0..Len(frames)
  BY DEF Alike
<1>3. n \in Nat /\ 1..n \subseteq 1..Len(frames)
  BY <1>1, <1>2
<1>4. DOMAIN frames' = 1..n
  BY DEF Alike
<1> QED
  BY <1>1, <1>3, <1>4 DEF Alike

LEMMA FramesCarried ==
    ASSUME TypeOK, FramesOK, NEW n, Alike(n), entered' = entered, setting' = setting,
           \A i \in 1..n : frames[i].block \notin failed'
    PROVE  FramesOK'
<1>1. DOMAIN frames' = 1..n
  BY DEF Alike
<1> QED
  BY <1>1, AlikeIn DEF FramesOK

LEMMA WritesCarried ==
    ASSUME TypeOK, WritesOK, NEW n, Alike(n), entered' = entered, wrote' = wrote
    PROVE  WritesOK'
<1>1. \E m \in 0..MaxWrites : DOMAIN wrote' = 1..m
  BY DEF WritesOK
<1>2. ASSUME NEW w \in DOMAIN wrote'
      PROVE  /\ wrote'[w] \subseteq 1..entered'
             /\ \A i, j \in DOMAIN frames' :
                   i < j /\ frames'[j].block \in wrote'[w] => frames'[i].block \in wrote'[w]
  BY <1>2, AlikeIn DEF WritesOK
<1> QED
  BY <1>1, <1>2 DEF WritesOK

LEMMA KeptSame ==
    ASSUME wrote' = wrote, failed' = failed
    PROVE  Kept' = Kept /\ \A b : Without(b)' = Without(b)
<1>1. Kept' = Kept
  BY DEF Kept
<1> QED
  BY <1>1 DEF Without

(* Once a block has failed the writes that count are those outside it.     *)
LEMMA KeptFailed ==
    ASSUME NEW b, wrote' = wrote, failed' = failed \cup {b}
    PROVE  /\ Kept' = Without(b)
           /\ \A c : Without(c)' = {w \in Without(b) : c \notin wrote[w]}
<1>1. Kept' = Without(b)
  BY DEF Kept, Without
<1> QED
  BY <1>1 DEF Without

LEMMA InnerFirst ==
    ASSUME TypeOK, WritesOK, NEW i \in DOMAIN frames, NEW j \in DOMAIN frames, i < j
    PROVE  {w \in Without(frames[j].block) : frames[i].block \notin wrote[w]}
                = Without(frames[i].block)
<1>1. \A w \in Kept : frames[j].block \in wrote[w] => frames[i].block \in wrote[w]
  BY DEF WritesOK, Kept
<1> QED
  BY <1>1 DEF Without

(* The savepoints stay, and so does what they hold for the calls.          *)
LEMMA SavedCarried ==
    ASSUME TypeOK, Saved, NEW n, Alike(n), setting' = setting, savepoints' = savepoints,
           \A i \in 1..n, b \in Blocks : b = frames[i].block => Without(b)' = Without(b)
    PROVE  Saved'
<1>1. DOMAIN frames' = 1..n /\ (Reliable' <=> Reliable)
  BY DEF Alike, Reliable
<1> SUFFICES ASSUME NEW i \in DOMAIN frames', NEW k \in DOMAIN savepoints',
                    frames'[i].kind = "savepoint", savepoints'[k].name = frames'[i].block
             PROVE  /\ Without(frames[i].block)' \subseteq savepoints'[k].writes
                    /\ Reliable' => Without(frames[i].block)' = savepoints'[k].writes
  BY DEF Saved
<1>2. /\ i \in DOMAIN frames /\ frames[i].kind = "savepoint"
      /\ savepoints[k].name = frames[i].block /\ frames'[i].block = frames[i].block
  BY AlikeIn
<1>3. PICK b \in Blocks : b = frames[i].block /\ b = frames'[i].block
  BY <1>2, FrameType
<1>4. Without(frames[i].block)' = Without(b)'
  BY <1>3 DEF Without
<1>5. Without(b)' = Without(frames[i].block)
  BY <1>1, <1>3
<1> QED
  BY <1>1, <1>2, <1>4, <1>5 DEF Saved

LEMMA UnsetCarried ==
    ASSUME TypeOK, Unset, NEW n, Alike(n), setting' = setting, savepoints' = savepoints,
           wrote' = wrote, aborted => aborted'
    PROVE  Unset'
<1>1. (Reliable' <=> Reliable) /\ \A b : Named(b)' <=> Named(b)
  BY DEF Reliable, Named
<1> SUFFICES ASSUME Reliable, NEW i \in DOMAIN frames',
                    frames'[i].kind = "savepoint", ~Named(frames[i].block)'
             PROVE  /\ aborted'
                    /\ \A w \in DOMAIN wrote' : frames'[i].block \notin wrote'[w]
                    /\ \A j \in DOMAIN frames' : i < j => ~Named(frames[j].block)'
  BY <1>1 DEF Unset
<1>0. Named(frames[i].block)' <=> \E k \in DOMAIN savepoints : savepoints[k].name = frames'[i].block
  BY DEF Named
<1>2. /\ i \in DOMAIN frames /\ frames[i].kind = "savepoint"
      /\ ~Named(frames[i].block) /\ frames'[i].block = frames[i].block
  BY <1>0, AlikeIn DEF Named
<1>3. /\ aborted /\ \A w \in DOMAIN wrote : frames[i].block \notin wrote[w]
      /\ \A j \in DOMAIN frames : i < j => ~Named(frames[j].block)
  BY <1>2 DEF Unset
<1>4. \A j \in DOMAIN frames' : i < j => ~Named(frames[j].block)'
  BY <1>3, AlikeIn DEF Named
<1> QED
  BY <1>2, <1>3, <1>4

-----------------------------------------------------------------------------
(* One lemma per action.                                                   *)

LEMMA Empty ==
    /\ <<>> \in Seq(Frame) /\ <<>> \in Seq(Savepoint)
    /\ DOMAIN <<>> = {} /\ Len(<<>>) = 0 /\ 0 \leq MaxDepth
  BY EmptySeq, BoundsAssumption

LEMMA InitInv == Init => Inv
<1> SUFFICES ASSUME Init PROVE Inv
  OBVIOUS
<1>1. frames = <<>> /\ savepoints = <<>> /\ DOMAIN frames = {} /\ DOMAIN savepoints = {}
      /\ DOMAIN wrote = {} /\ Len(frames) = 0
  BY DEF Init
<1>2. TypeOK
  <2>1. 0 \in 0..MaxBlocks
    BY BoundsAssumption
  <2> QED
    BY <1>1, <2>1, Empty DEF Init, TypeOK
<1>3. Phase /\ FramesOK /\ ErrOK /\ SavepointsOK /\ Saved /\ Unset /\ Exact /\ Result
  BY <1>1 DEF Init, Phase, FramesOK, ErrOK, SavepointsOK, Saved, Unset, Exact, Result
<1>4. WritesOK
  <2>1. 0 \in 0..MaxWrites /\ DOMAIN wrote = 1..0
    BY <1>1, BoundsAssumption
  <2> QED
    BY <1>1, <2>1 DEF WritesOK
<1> QED
  BY <1>2, <1>3, <1>4 DEF Inv

(* Calls return, handles get an error, or the database comes to refuse     *)
(* statements, and nothing else happens.                                   *)
LEMMA Carried ==
    ASSUME Inv, frames # <<>>, NEW n \in Nat \ {0}, Alike(n),
           UNCHANGED <<setting, outcome, entered, failed, wrote>>,
           UNCHANGED <<open, pending, savepoints, committed>>,
           panicking' \in BOOLEAN, aborted' \in BOOLEAN, aborted => aborted', ErrOK'
    PROVE  Inv'
<1> USE DEF Inv
<1>1. DOMAIN frames' = 1..n /\ 1..n \subseteq DOMAIN frames /\ Len(frames') = n
  BY AlikeIn DEF Alike
<1>2. TypeOK'
  <2>1. Len(frames') \leq MaxDepth /\ frames' \in Seq(Frame)
    BY BoundsAssumption, AlikeIn DEF Alike, TypeOK
  <2> QED
    BY <2>1 DEF TypeOK
<1>3. frames' # <<>> /\ outcome' = "none"
  BY <1>1 DEF Phase
<1>4. Phase'
  BY <1>3 DEF Phase
<1>5. FramesOK'
  <2>1. \A i \in 1..n : frames[i].block \notin failed'
    BY <1>1 DEF FramesOK
  <2> QED
    BY <2>1, FramesCarried
<1>6. WritesOK'
  BY WritesCarried
<1>7. SavepointsOK'
  BY DEF SavepointsOK
<1>8. Saved'
  BY KeptSame, SavedCarried
<1>9. Unset'
  BY UnsetCarried
<1>10. Exact'
  BY KeptSame DEF Exact
<1>11. Result'
  BY <1>3 DEF Result, Phase
<1> QED
  BY <1>2, <1>4, <1>5, <1>6, <1>7, <1>8, <1>9, <1>10, <1>11

LEMMA AllAlike ==
    ASSUME TypeOK, frames' = frames
    PROVE  Alike(Len(frames))
  BY LenProperties DEF TypeOK, Alike

LEMMA RecoverInv ==
    ASSUME Inv, Recover PROVE Inv'
<1>1. TypeOK /\ frames # <<>> /\ UNCHANGED <<setting, frames, outcome, entered, failed, wrote>>
      /\ UNCHANGED <<open, pending, savepoints, aborted, committed>> /\ panicking' = FALSE
  BY DEF Inv, Recover, db
<1>2. Len(frames) \in Nat \ {0} /\ Alike(Len(frames))
  BY <1>1, TopIndex, AllAlike
<1>3. ErrOK' /\ aborted' \in BOOLEAN
  BY <1>1 DEF Inv, ErrOK, Reliable, TypeOK
<1> QED
  BY <1>1, <1>2, <1>3, Carried

(* The call within another that ends had the only handle with an error.    *)
LEMMA PoppedAlike ==
    ASSUME Inv, frames # <<>>, Top.kind # "root", frames' = Front(frames)
    PROVE  /\ Len(frames) - 1 \in Nat \ {0} /\ Alike(Len(frames) - 1)
           /\ \A i \in DOMAIN frames' : ~frames'[i].err
<1>1. TypeOK /\ ErrOK /\ FramesOK
  BY DEF Inv
<1>2. Len(frames) \in Nat \ {0} /\ Len(frames) # 1 /\ DOMAIN frames = 1..Len(frames)
  BY <1>1, TopIndex DEF FramesOK
<1>3. Alike(Len(frames) - 1)
  <2>1. Len(frames) - 1 \in 0..Len(frames)
    BY <1>2
  <2>2. \A i \in 1..(Len(frames) - 1) : frames'[i] = frames[i]
    BY <1>1, Popped
  <2> QED
    BY <1>1, <2>1, <2>2, Popped DEF Alike
<1>4. ASSUME NEW i \in DOMAIN frames' PROVE ~frames'[i].err
  <2>1. i \in 1..(Len(frames) - 1) /\ frames'[i] = frames[i]
    BY <1>1, Popped
  <2>2. i \in DOMAIN frames /\ i # Len(frames)
    BY <1>2, <2>1
  <2> QED
    BY <1>1, <2>1, <2>2 DEF ErrOK
<1> QED
  BY <1>2, <1>3, <1>4

LEMMA LeaveInv ==
    ASSUME Inv, frames # <<>>, Top.kind # "root", frames' = Front(frames),
           UNCHANGED <<setting, outcome, entered, failed, wrote>>, UNCHANGED db,
           panicking' \in BOOLEAN
    PROVE  Inv'
<1>1. ErrOK'
  BY PoppedAlike DEF ErrOK
<1>2. UNCHANGED <<open, pending, savepoints, aborted, committed>> /\ aborted' \in BOOLEAN
  BY DEF db, Inv, TypeOK
<1> QED
  BY <1>1, <1>2, PoppedAlike, Carried

LEMMA ReturnInv ==
    ASSUME Inv, Return PROVE Inv'
<1>1. panicking' \in BOOLEAN
  BY DEF Inv, TypeOK, Return
<1> QED
  BY <1>1, LeaveInv DEF Return, Running

LEMMA CommitInv ==
    ASSUME Inv, Commit PROVE Inv'
<1> USE DEF Inv
<1>1. /\ frames # <<>> /\ frames' = <<>> /\ open' = FALSE /\ pending' = {}
      /\ savepoints' = <<>> /\ aborted' = FALSE
      /\ UNCHANGED <<setting, panicking, entered, failed, wrote>>
      /\ \/ /\ ~aborted /\ committed' = committed \cup pending
            /\ outcome' = IF Top.err THEN "error" ELSE "ok"
         \/ outcome' = "error" /\ committed' = committed
  BY DEF Commit, Running, EndDB
<1>2. DOMAIN frames' = {} /\ DOMAIN savepoints' = {} /\ Len(frames') = 0
  BY <1>1
<1>3. TypeOK'
  <2>1. committed' \in SUBSET Writes /\ outcome' \in {"none", "ok", "error", "panic"}
    BY <1>1 DEF TypeOK
  <2>2. frames' \in Seq(Frame) /\ savepoints' \in Seq(Savepoint) /\ Len(frames') \leq MaxDepth
    BY <1>1, Empty
  <2> QED
    BY <1>1, <2>1, <2>2 DEF TypeOK
<1>4. Phase' /\ FramesOK' /\ ErrOK' /\ SavepointsOK' /\ Saved' /\ Unset' /\ Exact'
  BY <1>1, <1>2 DEF Phase, FramesOK, ErrOK, SavepointsOK, Saved, Unset, Exact
<1>5. WritesOK'
  BY <1>1, <1>2 DEF WritesOK
<1>6. Result'
  <2>1. committed = {} /\ Kept' = Kept
    BY <1>1, KeptSame DEF Phase
  <2>2. Kept \subseteq pending /\ (Reliable /\ ~aborted => pending = Kept)
    BY <1>1 DEF Exact, Reliable
  <2>3. Top.err => (Reliable => aborted)
    BY <1>1, TopIndex DEF ErrOK
  <2>4. Reliable' <=> Reliable
    BY <1>1 DEF Reliable
  <2>5. CASE ~aborted /\ committed' = committed \cup pending
             /\ outcome' = IF Top.err THEN "error" ELSE "ok"
    BY <2>1, <2>2, <2>3, <2>4, <2>5 DEF Result
  <2>6. CASE outcome' = "error" /\ committed' = committed
    BY <2>1, <2>6 DEF Result
  <2> QED
    BY <1>1, <2>5, <2>6
<1> QED
  BY <1>3, <1>4, <1>5, <1>6

LEMMA BeginInv ==
    ASSUME Inv, Begin PROVE Inv'
<1> USE DEF Inv
<1>1. /\ outcome = "none" /\ frames = <<>>
      /\ UNCHANGED <<setting, panicking, failed, pending, savepoints, aborted, committed, wrote>>
      /\ open' \in BOOLEAN
      /\ \/ /\ ~setting.stale
            /\ frames' = <<[kind |-> "root", block |-> 1, err |-> FALSE]>>
            /\ entered' = 1 /\ outcome' = outcome
         \/ /\ outcome' = "error" /\ frames' = frames /\ entered' = entered
            /\ setting.stale \/ open' = open
  BY DEF Begin, TypeOK
<1>2. /\ pending = {} /\ savepoints = <<>> /\ ~aborted /\ entered = 0 /\ failed = {}
      /\ DOMAIN wrote = {} /\ committed = {} /\ ~open /\ DOMAIN savepoints = {}
  BY <1>1, Empty DEF Phase
<1>3. SavepointsOK' /\ Saved' /\ Result' /\ WritesOK'
  <2>1. DOMAIN wrote' = {} /\ DOMAIN savepoints' = {} /\ committed' = {}
        /\ outcome' \in {"none", "error"}
    BY <1>1, <1>2
  <2>2. WritesOK'
    BY <1>1, <2>1 DEF WritesOK
  <2> QED
    BY <2>1, <2>2 DEF SavepointsOK, Saved, Result
<1>4. CASE /\ ~setting.stale
           /\ frames' = <<[kind |-> "root", block |-> 1, err |-> FALSE]>>
           /\ entered' = 1 /\ outcome' = outcome
  <2>1. /\ frames' # <<>> /\ Len(frames') = 1 /\ DOMAIN frames' = {1}
        /\ frames'[1].kind = "root" /\ frames'[1].block = 1 /\ ~frames'[1].err
    BY <1>4
  <2>2. frames' \in Seq(Frame) /\ 1 \leq MaxDepth /\ 1 \in 0..MaxBlocks
    <3>1. 1 \in Blocks /\ 1 \leq MaxDepth /\ 1 \in 0..MaxBlocks
      BY BoundsAssumption DEF Blocks
    <3>2. [kind |-> "root", block |-> 1, err |-> FALSE] \in Frame
      BY <3>1 DEF Frame, Kinds
    <3> QED
      BY <1>4, <3>1, <3>2
  <2>3. TypeOK'
    BY <1>1, <1>4, <2>1, <2>2 DEF TypeOK
  <2>4. FramesOK' /\ ErrOK' /\ Unset'
    BY <1>1, <1>2, <1>4, <2>1 DEF FramesOK, ErrOK, Unset
  <2>5. Phase' /\ Exact'
    BY <1>1, <1>2, <1>4, <2>1 DEF Phase, Exact, Kept
  <2> QED
    BY <1>3, <2>3, <2>4, <2>5
<1>5. CASE /\ outcome' = "error" /\ frames' = frames /\ entered' = entered
           /\ setting.stale \/ open' = open
  <2>1. DOMAIN frames' = {} /\ frames' = <<>>
    BY <1>1, <1>5, Empty
  <2>2. TypeOK'
    BY <1>1, <1>5 DEF TypeOK
  <2>3. FramesOK' /\ ErrOK' /\ Unset' /\ Exact'
    BY <2>1 DEF FramesOK, ErrOK, Unset, Exact
  <2>4. Phase'
    BY <1>1, <1>2, <1>5, <2>1 DEF Phase
  <2> QED
    BY <1>3, <2>2, <2>3, <2>4
<1> QED
  BY <1>1, <1>4, <1>5

LEMMA RollbackInv ==
    ASSUME Inv, frames # <<>>, NEW how \in {"error", "panic"}, Rollback(how),
           panicking' \in BOOLEAN, UNCHANGED <<setting, entered, wrote>>
    PROVE  Inv'
<1> USE DEF Inv
<1>1. /\ frames' = <<>> /\ open' = FALSE /\ pending' = {} /\ savepoints' = <<>>
      /\ aborted' = FALSE /\ outcome' = how /\ committed' = committed
      /\ failed' = failed \cup {Top.block} /\ committed = {}
      /\ Top.block \in Blocks /\ Top.block \in 1..entered
  BY TopIndex, FrameType DEF Rollback, EndDB, Phase, FramesOK
<1>2. DOMAIN frames' = {} /\ DOMAIN savepoints' = {} /\ Len(frames') = 0
  BY <1>1
<1>3. TypeOK'
  <2>1. frames' \in Seq(Frame) /\ savepoints' \in Seq(Savepoint) /\ Len(frames') \leq MaxDepth
    BY <1>1, Empty
  <2> QED
    BY <1>1, <2>1 DEF TypeOK
<1>4. Phase' /\ FramesOK' /\ ErrOK' /\ SavepointsOK' /\ Saved' /\ Unset' /\ Exact' /\ Result'
  BY <1>1, <1>2 DEF Phase, FramesOK, ErrOK, SavepointsOK, Saved, Unset, Exact, Result
<1>5. WritesOK'
  BY <1>1, <1>2 DEF WritesOK
<1> QED
  BY <1>3, <1>4, <1>5

LEMMA WriteInv ==
    ASSUME Inv, Write PROVE Inv'
<1> USE DEF Inv
<1>1. /\ frames # <<>> /\ Cardinality(DOMAIN wrote) < MaxWrites
      /\ UNCHANGED <<setting, frames, panicking, outcome, entered, failed>>
      /\ Alike(Len(frames)) /\ Len(frames) \in Nat \ {0}
  BY AllAlike, TopIndex DEF Write, Running, calls
<1>2. CASE StatementFails /\ UNCHANGED wrote
  <2>1. /\ UNCHANGED <<open, pending, savepoints, committed>>
        /\ aborted' = (aborted \/ setting.aborts)
    BY <1>2 DEF StatementFails
  <2>2. aborted' \in BOOLEAN /\ panicking' \in BOOLEAN /\ (aborted => aborted')
    BY <1>1, <2>1 DEF TypeOK
  <2>3. ErrOK'
    BY <1>1, <2>2 DEF ErrOK, Reliable
  <2> QED
    BY <1>1, <1>2, <2>1, <2>2, <2>3, Carried
<1>3. ASSUME ~Top.err, ~aborted,
             NEW w, w = Cardinality(DOMAIN wrote) + 1,
             pending' = pending \cup {w},
             wrote' = [x \in DOMAIN wrote \cup {w} |-> IF x = w THEN Enclosing ELSE wrote[x]],
             UNCHANGED <<open, savepoints, aborted, committed>>
      PROVE  Inv'
  <2>1. /\ w \in Writes /\ w \notin DOMAIN wrote
        /\ \E n \in 0..MaxWrites : DOMAIN wrote \cup {w} = 1..n
    <3>1. PICK n \in 0..MaxWrites : DOMAIN wrote = 1..n
      BY DEF WritesOK
    <3>2. n \in Nat /\ MaxWrites \in Nat /\ n \leq MaxWrites
      BY <3>1, BoundsAssumption
    <3>3. Cardinality(1..n) = n
      BY <3>2, FS_Interval
    <3>4. w = n + 1 /\ n < MaxWrites
      BY <1>1, <1>3, <3>1, <3>2, <3>3
    <3>5. 1..n \cup {n + 1} = 1..(n + 1) /\ n + 1 \in 0..MaxWrites /\ n + 1 \notin 1..n
          /\ n + 1 \in 1..MaxWrites
      BY <3>2, <3>4
    <3> QED
      BY <3>1, <3>4, <3>5 DEF Writes
  <2>2. DOMAIN wrote' = DOMAIN wrote \cup {w} /\ wrote'[w] = Enclosing
        /\ \A x \in DOMAIN wrote : wrote'[x] = wrote[x]
    BY <1>3, <2>1
  <2>3. /\ Enclosing \subseteq Blocks /\ Enclosing \subseteq 1..entered
        /\ Enclosing \cap failed = {}
        /\ \A i \in DOMAIN frames : frames[i].block \in Enclosing
    BY FrameType DEF Enclosing, FramesOK
  <2>4. Kept' = Kept \cup {w}
    BY <1>1, <2>1, <2>2, <2>3 DEF Kept
  <2>5. \A i \in DOMAIN frames, b \in Blocks : b = frames[i].block => Without(b)' = Without(b)
    <3> SUFFICES ASSUME NEW b \in Enclosing PROVE Without(b)' = Without(b)
      BY <2>3
    <3>1. Kept \subseteq DOMAIN wrote
      BY DEF Kept
    <3> QED
      BY <2>1, <2>2, <2>4, <3>1 DEF Without
  <2>6. TypeOK'
    <3>1. pending' \in SUBSET Writes /\ DOMAIN wrote' \subseteq Writes
      BY <1>3, <2>1, <2>2 DEF TypeOK
    <3>2. \A x \in DOMAIN wrote' : wrote'[x] \subseteq Blocks
      BY <2>2, <2>3 DEF TypeOK
    <3> QED
      BY <1>1, <1>3, <3>1, <3>2 DEF TypeOK
  <2>7. Phase'
    BY <1>1, <1>3 DEF Phase
  <2>8. FramesOK' /\ ErrOK' /\ SavepointsOK'
    BY <1>1, <1>3 DEF FramesOK, ErrOK, SavepointsOK, Reliable
  <2>9. WritesOK'
    <3>1. \E n \in 0..MaxWrites : DOMAIN wrote' = 1..n
      BY <2>1, <2>2
    <3>2. ASSUME NEW x \in DOMAIN wrote'
          PROVE  /\ wrote'[x] \subseteq 1..entered'
                 /\ \A i, j \in DOMAIN frames' :
                       i < j /\ frames'[j].block \in wrote'[x] => frames'[i].block \in wrote'[x]
      <4>1. CASE x = w
        BY <1>1, <2>2, <2>3, <4>1
      <4>2. CASE x \in DOMAIN wrote
        BY <1>1, <2>2, <4>2 DEF WritesOK
      <4> QED
        BY <2>2, <4>1, <4>2
    <3> QED
      BY <3>1, <3>2 DEF WritesOK
  <2>10. Saved'
    <3>1. \A i \in 1..Len(frames), b \in Blocks : b = frames[i].block => Without(b)' = Without(b)
      BY <2>5, TopIndex, <1>1
    <3> QED
      BY <1>1, <1>3, <3>1, SavedCarried
  <2>11. Unset'
    <3>1. (Reliable' <=> Reliable) /\ \A i \in DOMAIN frames : Named(frames[i].block)' <=> Named(frames[i].block)
      BY <1>1, <1>3 DEF Reliable, Named
    <3>2. Reliable => \A i \in DOMAIN frames : ~(frames[i].kind = "savepoint" /\ ~Named(frames[i].block))
      BY <1>3 DEF Unset
    <3> QED
      BY <1>1, <3>1, <3>2 DEF Unset
  <2>12. Exact'
    BY <1>1, <1>3, <2>4 DEF Exact
  <2>13. Result'
    BY <1>1 DEF Result, Phase
  <2> QED
    BY <2>6, <2>7, <2>8, <2>9, <2>10, <2>11, <2>12, <2>13
<1>4. \/ StatementFails /\ UNCHANGED wrote
      \/ /\ ~Top.err /\ ~aborted
         /\ pending' = pending \cup {Cardinality(DOMAIN wrote) + 1}
         /\ wrote' = [x \in DOMAIN wrote \cup {Cardinality(DOMAIN wrote) + 1} |->
                        IF x = Cardinality(DOMAIN wrote) + 1 THEN Enclosing ELSE wrote[x]]
         /\ UNCHANGED <<open, savepoints, aborted, committed>>
  BY DEF Write
<1> QED
  BY <1>2, <1>3, <1>4

(* Setting the error of one handle.                                        *)
LEMMA WithErr ==
    ASSUME NEW r \in Frame, NEW e \in BOOLEAN
    PROVE  /\ [r EXCEPT !.err = e] \in Frame /\ [r EXCEPT !.err = e].kind = r.kind
           /\ [r EXCEPT !.err = e].block = r.block /\ [r EXCEPT !.err = e].err = e
  BY DEF Frame

LEMMA Replaced ==
    ASSUME NEW s \in Seq(Frame), NEW c \in 1..Len(s), NEW f \in Frame
    PROVE  /\ [s EXCEPT ![c] = f] \in Seq(Frame) /\ Len([s EXCEPT ![c] = f]) = Len(s)
           /\ DOMAIN [s EXCEPT ![c] = f] = 1..Len(s) /\ [s EXCEPT ![c] = f][c] = f
           /\ \A i \in 1..Len(s) : i # c => [s EXCEPT ![c] = f][i] = s[i]
<1>1. /\ [s EXCEPT ![c] = f] \in Seq(Frame) /\ Len([s EXCEPT ![c] = f]) = Len(s)
      /\ \A i \in 1..Len(s) : [s EXCEPT ![c] = f][i] = IF i = c THEN f ELSE s[i]
  BY ExceptSeq
<1>2. DOMAIN [s EXCEPT ![c] = f] = 1..Len(s)
  BY <1>1, LenProperties
<1> QED
  BY <1>1, <1>2

(* What the failure of an inner call leaves of the calls: those around it, *)
(* the caller with the error that RollbackTo has left.                     *)
LEMMA UndoFrames ==
    ASSUME Inv, frames # <<>>, Top.kind = "savepoint", NEW left \in BOOLEAN,
           frames' = [Front(frames) EXCEPT ![Len(frames) - 1].err = @ \/ left]
    PROVE  /\ Len(frames) - 1 \in Nat \ {0} /\ ~frames[Len(frames) - 1].err
           /\ Alike(Len(frames) - 1)
           /\ \A i \in DOMAIN frames' : frames'[i].err => left /\ i = Len(frames) - 1
<1> USE DEF Inv
<1>1. Len(frames) \in Nat \ {0} /\ Len(frames) # 1 /\ DOMAIN frames = 1..Len(frames)
  BY TopIndex DEF FramesOK
<1>2. PICK c : c = Len(frames) - 1
  OBVIOUS
<1>3. c \in Nat \ {0} /\ c \in 0..Len(frames) /\ c \in DOMAIN frames /\ c < Len(frames)
  BY <1>1, <1>2
<1>4. \A i \in 1..c : i \in DOMAIN frames /\ i # Len(frames)
  BY <1>1, <1>3
<1>5. \A i \in 1..c : ~frames[i].err
  BY <1>4 DEF ErrOK
<1>6. /\ Front(frames) \in Seq(Frame) /\ Len(Front(frames)) = c
      /\ \A i \in 1..c : Front(frames)[i] = frames[i]
  BY <1>1, <1>2, Popped
<1>7. c \in 1..c
  BY <1>3
<1>8. ~frames[c].err /\ ~Front(frames)[c].err
  BY <1>5, <1>6, <1>7
<1>9. frames' = [Front(frames) EXCEPT ![c].err = left]
  <2>1. (Front(frames)[c].err \/ left) = left
    BY <1>8
  <2> QED
    BY <1>2, <2>1
<1>10. /\ frames' \in Seq(Frame) /\ Len(frames') = c /\ DOMAIN frames' = 1..c
       /\ \A i \in 1..c : /\ frames'[i].kind = Front(frames)[i].kind
                          /\ frames'[i].block = Front(frames)[i].block
                          /\ i # c => frames'[i] = Front(frames)[i]
       /\ frames'[c].err = left
  <2>1. PICK f : f = [Front(frames)[c] EXCEPT !.err = left]
    OBVIOUS
  <2>2. Front(frames)[c] \in Frame
    BY <1>6, <1>7, ElementOfSeq
  <2>3. /\ f \in Frame /\ f.err = left
        /\ f.kind = Front(frames)[c].kind /\ f.block = Front(frames)[c].block
    BY <2>1, <2>2, WithErr
  <2>4. frames' = [Front(frames) EXCEPT ![c] = f]
    BY <1>9, <2>1
  <2>5. PICK s : s = Front(frames)
    OBVIOUS
  <2>6. s \in Seq(Frame) /\ c \in 1..Len(s) /\ Len(s) = c
    BY <1>6, <1>7, <2>5
  <2>7. f \in Frame /\ f.kind = s[c].kind /\ f.block = s[c].block
    BY <2>3, <2>5
  <2>8. frames' = [s EXCEPT ![c] = f]
    BY <2>4, <2>5
  <2>9. /\ [s EXCEPT ![c] = f] \in Seq(Frame) /\ Len([s EXCEPT ![c] = f]) = Len(s)
        /\ DOMAIN [s EXCEPT ![c] = f] = 1..Len(s) /\ [s EXCEPT ![c] = f][c] = f
        /\ \A i \in 1..Len(s) : i # c => [s EXCEPT ![c] = f][i] = s[i]
    BY <2>6, <2>7, Replaced
  <2> QED
    BY <2>3, <2>5, <2>6, <2>8, <2>9
<1>11. Alike(c)
  BY <1>3, <1>6, <1>10 DEF Alike
<1>12. ASSUME NEW i \in 1..c, frames'[i].err PROVE left /\ i = c
  BY <1>5, <1>6, <1>10, <1>12
<1> QED
  BY <1>2, <1>3, <1>8, <1>10, <1>11, <1>12

(* The deferred rollback of an inner call.  RolledBackTo finds what the    *)
(* savepoint holds; where it is not set nothing was written since.         *)
LEMMA UndoInv ==
    ASSUME Inv, frames # <<>>, Undo, panicking' \in BOOLEAN,
           UNCHANGED <<setting, entered, wrote>>
    PROVE  Inv'
<1> USE DEF Inv
<1>1. PICK left \in BOOLEAN :
          /\ RollbackTo(frames[Len(frames) - 1].err, Top.block, left)
          /\ frames' = [Front(frames) EXCEPT ![Len(frames) - 1].err = @ \/ left]
  BY DEF Undo, SpName
<1>2. Top.kind = "savepoint" /\ failed' = failed \cup {Top.block} /\ outcome' = outcome
  BY DEF Undo
<1>3. /\ Len(frames) - 1 \in Nat \ {0} /\ ~frames[Len(frames) - 1].err
      /\ Alike(Len(frames) - 1)
      /\ \A i \in DOMAIN frames' : frames'[i].err => left /\ i = Len(frames) - 1
  BY <1>1, <1>2, UndoFrames
<1>4. PICK n, b : n = Len(frames) - 1 /\ b = Top.block
  OBVIOUS
<1>5. /\ Len(frames) \in DOMAIN frames /\ frames[Len(frames)].kind = "savepoint"
      /\ frames[Len(frames)].block = b /\ b \in Blocks
      /\ \A i \in 1..n : i \in DOMAIN frames /\ i < Len(frames) /\ frames[i].block < b
  BY <1>2, <1>3, <1>4, TopIndex, FrameType DEF FramesOK
<1>6. /\ DOMAIN frames' = 1..n /\ Len(frames') = n /\ frames' # <<>> /\ frames' \in Seq(Frame)
      /\ \A i \in 1..n : frames'[i].kind = frames[i].kind /\ frames'[i].block = frames[i].block
  BY <1>3, <1>4 DEF Alike
<1>7. /\ Kept' = Without(b)
      /\ \A c : Without(c)' = {w \in Without(b) : c \notin wrote[w]}
  BY <1>2, <1>4, KeptFailed
<1>8. \A i \in 1..n, c \in Blocks : c = frames[i].block => Without(c)' = Without(c)
  <2> TAKE i \in 1..n, c \in Blocks
  <2>1. {w \in Without(frames[Len(frames)].block) : frames[i].block \notin wrote[w]}
            = Without(frames[i].block)
    BY <1>5, InnerFirst
  <2> QED
    BY <1>5, <1>7, <2>1
<1>9. (Reliable' <=> Reliable) /\ outcome = "none"
  BY DEF Reliable, Phase
<1>10. /\ \/ RolledBackTo(b) /\ left = FALSE
          \/ (~Named(b) \/ setting.fails) /\ StatementFails /\ left = setting.reports
  BY <1>1, <1>3, <1>4 DEF RollbackTo
<1>11. FramesOK' /\ WritesOK'
  <2>1. \A i \in 1..n : frames[i].block \notin failed'
    BY <1>2, <1>4, <1>5, FrameType DEF FramesOK, Blocks
  <2> QED
    BY <1>3, <1>4, <2>1, FramesCarried, WritesCarried
<1>12. /\ Len(frames') \leq MaxDepth /\ failed' \in SUBSET Blocks
       /\ failed' \subseteq 1..entered
  <2>1. Len(frames') \leq MaxDepth
    BY <1>3, <1>4, <1>6, BoundsAssumption, TopIndex DEF TypeOK
  <2> QED
    BY <1>2, <1>4, <1>5, <2>1 DEF TypeOK, FramesOK, Phase
<1>13. ASSUME RolledBackTo(b), left = FALSE PROVE Inv'
  <2>1. PICK k \in DOMAIN savepoints :
            /\ savepoints[k].name = b /\ pending' = savepoints[k].writes
            /\ savepoints' = SubSeq(savepoints, 1, k)
            /\ aborted' = FALSE /\ open' = open /\ committed' = committed
    BY <1>13 DEF RolledBackTo
  <2>2. /\ savepoints' \in Seq(Savepoint) /\ DOMAIN savepoints' = 1..k
        /\ 1..k \subseteq DOMAIN savepoints
        /\ \A l \in 1..k : savepoints'[l] = savepoints[l]
    <3>1. k \in 1..Len(savepoints) /\ savepoints \in Seq(Savepoint)
          /\ DOMAIN savepoints = 1..Len(savepoints) /\ Len(savepoints) \in Nat
      BY LenProperties DEF TypeOK
    <3>2. k \in 0..Len(savepoints) /\ 1..k \subseteq DOMAIN savepoints
      BY <3>1
    <3> QED
      BY <2>1, <3>1, <3>2, Prefix
  <2>3. TypeOK'
    <3>1. pending' \in SUBSET Writes
      BY <2>1, SavepointType
    <3> QED
      BY <1>2, <1>6, <1>12, <2>1, <2>2, <3>1 DEF TypeOK
  <2>4. Phase' /\ Result'
    BY <1>2, <1>6, <1>9, <1>12, <2>1 DEF Phase, Result
  <2>5. ErrOK'
    BY <1>3, <1>13 DEF ErrOK
  <2>6. SavepointsOK'
    BY <2>2 DEF SavepointsOK
  <2>7. Saved'
    <3> SUFFICES ASSUME NEW i \in DOMAIN frames', NEW l \in DOMAIN savepoints',
                        frames'[i].kind = "savepoint", savepoints'[l].name = frames'[i].block
                 PROVE  /\ Without(frames[i].block)' \subseteq savepoints'[l].writes
                        /\ Reliable' => Without(frames[i].block)' = savepoints'[l].writes
      BY DEF Saved
    <3>1. /\ i \in DOMAIN frames /\ l \in DOMAIN savepoints /\ frames[i].kind = "savepoint"
          /\ savepoints[l].name = frames[i].block /\ savepoints'[l] = savepoints[l]
          /\ frames'[i].block = frames[i].block
      BY <1>5, <1>6, <2>2
    <3>2. PICK c \in Blocks : c = frames[i].block /\ c = frames'[i].block
      BY <3>1, FrameType
    <3>3. Without(frames[i].block)' = Without(c)'
      BY <3>2 DEF Without
    <3>4. Without(c)' = Without(frames[i].block)
      BY <1>6, <1>8, <3>2
    <3> QED
      BY <1>9, <3>1, <3>3, <3>4 DEF Saved
  <2>8. Unset'
    <3> SUFFICES ASSUME Reliable, NEW i \in DOMAIN frames', frames'[i].kind = "savepoint"
                 PROVE  \E l \in DOMAIN savepoints' : savepoints'[l].name = frames'[i].block
      BY <1>9 DEF Unset, Named
    <3>1. /\ i \in DOMAIN frames /\ i < Len(frames) /\ frames[i].kind = "savepoint"
          /\ frames'[i].block = frames[i].block /\ frames[i].block < b
      BY <1>5, <1>6
    <3>2. Named(frames[Len(frames)].block)
      BY <1>5, <2>1 DEF Named
    <3>3. Named(frames[i].block)
      BY <1>5, <3>1, <3>2 DEF Unset
    <3>4. PICK l \in DOMAIN savepoints : savepoints[l].name = frames[i].block
      BY <3>3 DEF Named
    <3>5. ~(k < l)
      <4>1. savepoints[l].name < savepoints[k].name
        BY <2>1, <3>1, <3>4
      <4>2. savepoints[l].name \in Nat /\ savepoints[k].name \in Nat
        BY SavepointType DEF Blocks
      <4> QED
        BY <4>1, <4>2 DEF SavepointsOK
    <3>6. l \in 1..k
      <4>1. l \in 1..Len(savepoints) /\ k \in 1..Len(savepoints) /\ Len(savepoints) \in Nat
        BY LenProperties DEF TypeOK
      <4> QED
        BY <3>5, <4>1
    <3> QED
      BY <2>2, <3>1, <3>4, <3>6
  <2>9. Exact'
    BY <1>5, <1>7, <1>9, <2>1 DEF Exact, Saved, Reliable
  <2> QED
    BY <1>11, <2>3, <2>4, <2>5, <2>6, <2>7, <2>8, <2>9
<1>14. ASSUME ~Named(b) \/ setting.fails, StatementFails, left = setting.reports PROVE Inv'
  <2>1. /\ aborted' = (aborted \/ setting.aborts)
        /\ UNCHANGED <<open, pending, savepoints, committed>>
    BY <1>14 DEF StatementFails
  <2>2. aborted' \in BOOLEAN /\ (aborted => aborted') /\ (setting.aborts => aborted')
    BY <2>1, SettingType DEF TypeOK
  <2>3. Reliable /\ ~Named(b) => aborted /\ \A w \in DOMAIN wrote : b \notin wrote[w]
    BY <1>5 DEF Unset
  <2>4. TypeOK'
    BY <1>2, <1>6, <1>12, <2>1, <2>2 DEF TypeOK
  <2>5. Phase' /\ Result'
    BY <1>2, <1>6, <1>9, <1>12, <2>1 DEF Phase, Result
  <2>6. ErrOK'
    <3>1. setting.nested
      BY <1>5 DEF FramesOK
    <3>2. Reliable => aborted'
      BY <1>14, <2>2, <2>3 DEF Reliable
    <3> QED
      BY <1>3, <1>4, <1>6, <1>9, <3>1, <3>2 DEF ErrOK
  <2>7. SavepointsOK'
    BY <2>1 DEF SavepointsOK
  <2>8. Saved' /\ Unset'
    BY <1>3, <1>4, <1>8, <2>1, <2>2, SavedCarried, UnsetCarried
  <2>9. Exact'
    <3>1. Without(b) \subseteq Kept /\ (Reliable /\ ~Named(b) => Without(b) = Kept)
      BY <2>3 DEF Without, Kept
    <3> QED
      BY <1>7, <1>14, <2>1, <2>2, <3>1 DEF Exact, Reliable
  <2> QED
    BY <1>11, <2>4, <2>5, <2>6, <2>7, <2>8, <2>9
<1> QED
  BY <1>10, <1>13, <1>14

LEMMA FailInv ==
    ASSUME Inv, NEW how \in {"error", "panic"}, Fail(how) PROVE Inv'
<1>1. /\ frames # <<>> /\ panicking' \in BOOLEAN /\ UNCHANGED <<setting, entered, wrote>>
      /\ Rollback(how) \/ Undo \/ LeavePlain
  BY DEF Fail
<1>2. CASE Rollback(how)
  BY <1>1, <1>2, RollbackInv
<1>3. CASE Undo
  BY <1>1, <1>3, UndoInv
<1>4. CASE LeavePlain
  BY <1>1, <1>4, LeaveInv DEF LeavePlain
<1> QED
  BY <1>1, <1>2, <1>3, <1>4

(* A new call within the innermost one, numbered entered + 1.              *)
LEMMA Entered ==
    ASSUME Inv, frames # <<>>, ~Top.err, Len(frames) < MaxDepth, entered < MaxBlocks,
           NEW kind \in {"savepoint", "plain"}, kind = "savepoint" <=> setting.nested,
           Enter(kind, FALSE), UNCHANGED <<setting, wrote, failed>>
    PROVE  /\ frames' \in Seq(Frame) /\ Len(frames') \leq MaxDepth
           /\ Len(frames) \in Nat \ {0} /\ DOMAIN frames' = 1..(Len(frames) + 1)
           /\ DOMAIN frames = 1..Len(frames)
           /\ frames' # <<>> /\ entered' = entered + 1 /\ entered' \in 0..MaxBlocks
           /\ entered \in Nat /\ entered + 1 \in Blocks /\ entered + 1 \notin failed
           /\ frames'[Len(frames) + 1].kind = kind
           /\ frames'[Len(frames) + 1].block = entered + 1
           /\ \A i \in DOMAIN frames : frames'[i] = frames[i] /\ frames[i].block < entered + 1
           /\ \A w \in DOMAIN wrote : entered + 1 \notin wrote[w]
           /\ Without(entered + 1) = Kept
           /\ FramesOK' /\ ErrOK' /\ WritesOK'
<1> USE DEF Inv
<1>1. /\ frames' = Append(frames, [kind |-> kind, block |-> entered + 1, err |-> FALSE])
      /\ entered' = entered + 1
  BY DEF Enter
<1>2. /\ entered \in Nat /\ MaxBlocks \in Nat /\ MaxDepth \in Nat
      /\ entered' \in 0..MaxBlocks /\ entered + 1 \in Blocks /\ entered + 1 \notin 1..entered
      /\ \A x \in 1..entered : x < entered + 1 /\ x \in 1..(entered + 1)
  BY <1>1, BoundsAssumption DEF TypeOK, Blocks
<1>3. PICK f : f = [kind |-> kind, block |-> entered + 1, err |-> FALSE]
  OBVIOUS
<1>4. f \in Frame /\ f.kind = kind /\ f.block = entered + 1 /\ ~f.err
  BY <1>2, <1>3 DEF Frame, Kinds
<1>5. /\ Len(frames) \in Nat \ {0} /\ DOMAIN frames = 1..Len(frames)
      /\ Len(frames) \in DOMAIN frames /\ ~frames[Len(frames)].err
  BY TopIndex
<1>6. /\ frames' \in Seq(Frame) /\ Len(frames') = Len(frames) + 1
      /\ DOMAIN frames' = 1..(Len(frames) + 1) /\ frames'[Len(frames) + 1] = f
      /\ \A i \in DOMAIN frames : frames'[i] = frames[i]
  BY <1>1, <1>3, <1>4, <1>5, Grown
<1>7. frames' # <<>> /\ Len(frames') \leq MaxDepth
  BY <1>2, <1>5, <1>6, Empty
<1>8. /\ entered + 1 \notin failed
      /\ \A i \in DOMAIN frames : frames[i].block \in 1..entered /\ frames[i].block < entered + 1
      /\ \A w \in DOMAIN wrote : entered + 1 \notin wrote[w]
  BY <1>2 DEF Phase, FramesOK, WritesOK
<1>9. Without(entered + 1) = Kept
  BY <1>8 DEF Without, Kept
<1>10. \A i \in DOMAIN frames' : i \in DOMAIN frames \/ i = Len(frames) + 1
  BY <1>5, <1>6
<1>11. \A i \in DOMAIN frames : i \in Nat /\ i < Len(frames) + 1 /\ i # Len(frames) + 1
  BY <1>5
<1>12. FramesOK'
  <2> SUFFICES ASSUME NEW i \in DOMAIN frames'
               PROVE  /\ frames'[i].kind = "root" <=> i = 1
                      /\ frames'[i].kind = "savepoint" => setting'.nested
                      /\ frames'[i].kind = "plain" => ~setting'.nested
                      /\ frames'[i].block \in 1..entered' /\ frames'[i].block \notin failed'
                      /\ \A j \in DOMAIN frames' : i < j => frames'[i].block < frames'[j].block
    BY DEF FramesOK
  <2>1. CASE i \in DOMAIN frames
    <3>1. ASSUME NEW j \in DOMAIN frames', i < j PROVE frames'[i].block < frames'[j].block
      <4>1. CASE j \in DOMAIN frames
        BY <1>6, <2>1, <3>1, <4>1 DEF FramesOK
      <4>2. CASE j = Len(frames) + 1
        BY <1>4, <1>6, <1>8, <2>1, <4>2
      <4> QED
        BY <1>10, <4>1, <4>2
    <3> QED
      BY <1>1, <1>2, <1>6, <1>8, <2>1, <3>1 DEF FramesOK
  <2>2. CASE i = Len(frames) + 1
    <3>1. i # 1 /\ \A j \in DOMAIN frames' : ~(i < j)
      BY <1>5, <1>10, <1>11, <2>2
    <3>2. entered + 1 \in 1..entered'
      BY <1>1, <1>2
    <3> QED
      BY <1>4, <1>6, <1>8, <2>2, <3>1, <3>2
  <2> QED
    BY <1>10, <2>1, <2>2
<1>13. ErrOK'
  <2>1. \A i \in DOMAIN frames' : ~frames'[i].err
    BY <1>4, <1>5, <1>6, <1>10 DEF ErrOK
  <2> QED
    BY <2>1 DEF ErrOK
<1>14. WritesOK'
  <2>1. \E n \in 0..MaxWrites : DOMAIN wrote' = 1..n
    BY DEF WritesOK
  <2>2. ASSUME NEW w \in DOMAIN wrote'
        PROVE  /\ wrote'[w] \subseteq 1..entered'
               /\ \A i, j \in DOMAIN frames' :
                     i < j /\ frames'[j].block \in wrote'[w] => frames'[i].block \in wrote'[w]
    <3>1. wrote'[w] \subseteq 1..entered /\ entered + 1 \notin wrote'[w]
      BY <1>8 DEF WritesOK
    <3>2. ASSUME NEW i \in DOMAIN frames', NEW j \in DOMAIN frames', i < j,
                 frames'[j].block \in wrote'[w]
          PROVE  frames'[i].block \in wrote'[w]
      <4>1. j \in DOMAIN frames
        BY <1>4, <1>6, <1>10, <3>1, <3>2
      <4>2. i \in DOMAIN frames
        BY <1>5, <1>10, <3>2, <4>1
      <4> QED
        BY <1>6, <3>2, <4>1, <4>2 DEF WritesOK
    <3> QED
      BY <1>1, <1>2, <3>1, <3>2
  <2> QED
    BY <2>1, <2>2 DEF WritesOK
<1> QED
  BY <1>1, <1>2, <1>4, <1>5, <1>6, <1>7, <1>8, <1>9, <1>12, <1>13, <1>14

(* The savepoint of the new call holds what counts so far.                 *)
LEMMA NestSetInv ==
    ASSUME Inv, frames # <<>>, ~Top.err, Len(frames) < MaxDepth, entered < MaxBlocks,
           setting.nested, SavepointSet(entered + 1), Enter("savepoint", FALSE),
           UNCHANGED <<setting, panicking, outcome, failed, wrote>>
    PROVE  Inv'
<1> USE DEF Inv
<1>1. /\ frames' \in Seq(Frame) /\ Len(frames') \leq MaxDepth
      /\ Len(frames) \in Nat \ {0} /\ DOMAIN frames' = 1..(Len(frames) + 1)
      /\ DOMAIN frames = 1..Len(frames)
      /\ frames' # <<>> /\ entered' = entered + 1 /\ entered' \in 0..MaxBlocks
      /\ entered \in Nat /\ entered + 1 \in Blocks /\ entered + 1 \notin failed
      /\ frames'[Len(frames) + 1].kind = "savepoint"
      /\ frames'[Len(frames) + 1].block = entered + 1
      /\ \A i \in DOMAIN frames : frames'[i] = frames[i] /\ frames[i].block < entered + 1
      /\ \A w \in DOMAIN wrote : entered + 1 \notin wrote[w]
      /\ Without(entered + 1) = Kept
      /\ FramesOK' /\ ErrOK' /\ WritesOK'
  BY Entered
<1>2. /\ ~aborted /\ UNCHANGED <<open, pending, aborted, committed>>
      /\ savepoints' = Append(savepoints, [name |-> entered + 1, writes |-> pending])
  BY DEF SavepointSet
<1>3. PICK s, m : s = [name |-> entered + 1, writes |-> pending] /\ m = Len(savepoints) + 1
  OBVIOUS
<1>4. s \in Savepoint /\ s.name = entered + 1 /\ s.writes = pending
  BY <1>1, <1>3 DEF Savepoint, TypeOK
<1>5. /\ savepoints' \in Seq(Savepoint) /\ DOMAIN savepoints' = 1..m
      /\ DOMAIN savepoints = 1..(m - 1) /\ m \in Nat \ {0} /\ savepoints'[m] = s
      /\ \A k \in DOMAIN savepoints : savepoints'[k] = savepoints[k]
  BY <1>2, <1>3, <1>4, AppendProperties, LenProperties DEF TypeOK
<1>6. /\ \A k \in DOMAIN savepoints' : k \in DOMAIN savepoints \/ k = m
      /\ \A k \in DOMAIN savepoints : k \in DOMAIN savepoints' /\ k < m /\ ~(m < k)
      /\ m \in DOMAIN savepoints' /\ ~(m < m)
  BY <1>5
<1>7. \A k \in DOMAIN savepoints : /\ savepoints[k].name \in 1..entered
                                   /\ savepoints[k].name < entered + 1
                                   /\ savepoints[k].name \in 1..(entered + 1)
  BY <1>1 DEF SavepointsOK
<1>8. \A i \in DOMAIN frames' : i \in DOMAIN frames \/ i = Len(frames) + 1
  BY <1>1
<1>9. (Reliable' <=> Reliable) /\ Kept' = Kept /\ \A b : Without(b)' = Without(b)
  BY KeptSame DEF Reliable
<1>10. TypeOK'
  BY <1>1, <1>2, <1>5 DEF TypeOK
<1>11. Phase'
  <2>1. failed' \subseteq 1..entered'
    BY <1>1 DEF Phase
  <2> QED
    BY <1>1, <1>2, <2>1 DEF Phase
<1>12. SavepointsOK'
  <2> SUFFICES ASSUME NEW k \in DOMAIN savepoints'
               PROVE  /\ savepoints'[k].name \in 1..entered'
                      /\ \A l \in DOMAIN savepoints' : k < l => savepoints'[k].name < savepoints'[l].name
    BY DEF SavepointsOK
  <2>1. CASE k = m
    <3>1. \A l \in DOMAIN savepoints' : ~(k < l)
      BY <1>6, <2>1
    <3>2. entered + 1 \in 1..(entered + 1)
      BY <1>1
    <3> QED
      BY <1>1, <1>4, <1>5, <2>1, <3>1, <3>2
  <2>2. CASE k \in DOMAIN savepoints
    <3>1. ASSUME NEW l \in DOMAIN savepoints', k < l PROVE savepoints'[k].name < savepoints'[l].name
      <4>1. CASE l = m
        BY <1>4, <1>5, <1>7, <2>2, <4>1
      <4>2. CASE l \in DOMAIN savepoints
        BY <1>5, <2>2, <3>1, <4>2 DEF SavepointsOK
      <4> QED
        BY <1>6, <4>1, <4>2
    <3> QED
      BY <1>1, <1>5, <1>7, <2>2, <3>1
  <2> QED
    BY <1>6, <2>1, <2>2
<1>13. Saved'
  <2> SUFFICES ASSUME NEW i \in DOMAIN frames', NEW k \in DOMAIN savepoints',
                      frames'[i].kind = "savepoint", savepoints'[k].name = frames'[i].block
               PROVE  /\ Without(frames[i].block)' \subseteq savepoints'[k].writes
                      /\ Reliable' => Without(frames[i].block)' = savepoints'[k].writes
    BY DEF Saved
  <2>1. PICK b : b = frames'[i].block
    OBVIOUS
  <2>2. Without(frames[i].block)' = Without(b)
    <3>1. Without(frames[i].block)' = Without(b)'
      BY <2>1 DEF Without
    <3> QED
      BY <1>9, <3>1
  <2>3. CASE i \in DOMAIN frames
    <3>1. b = frames[i].block /\ b < entered + 1 /\ frames[i].kind = "savepoint" /\ b # entered + 1
      <4>1. b \in Blocks /\ b < entered + 1
        BY <1>1, <2>1, <2>3, FrameType
      <4> QED
        BY <1>1, <2>1, <2>3, <4>1 DEF Blocks
    <3>2. k \in DOMAIN savepoints /\ savepoints'[k] = savepoints[k]
      BY <1>4, <1>5, <1>6, <2>1, <3>1
    <3> QED
      BY <1>9, <2>1, <2>2, <2>3, <3>1, <3>2 DEF Saved
  <2>4. CASE i = Len(frames) + 1
    <3>1. b = entered + 1
      BY <1>1, <2>1, <2>4
    <3>2. k = m
      BY <1>1, <1>5, <1>6, <1>7, <2>1, <3>1
    <3>3. Kept \subseteq pending /\ (Reliable => Kept = pending)
      BY <1>2 DEF Exact, Reliable
    <3> QED
      BY <1>1, <1>4, <1>5, <1>9, <2>2, <3>1, <3>2, <3>3
  <2> QED
    BY <1>8, <2>3, <2>4
<1>14. Unset'
  <2> SUFFICES ASSUME Reliable, NEW i \in DOMAIN frames', frames'[i].kind = "savepoint"
               PROVE  \E l \in DOMAIN savepoints' : savepoints'[l].name = frames'[i].block
    BY <1>9 DEF Unset, Named
  <2>1. CASE i \in DOMAIN frames
    <3>1. Named(frames[i].block)
      BY <1>1, <1>2, <2>1 DEF Unset
    <3> QED
      BY <1>1, <1>5, <1>6, <2>1, <3>1 DEF Named
  <2>2. CASE i = Len(frames) + 1
    BY <1>1, <1>4, <1>5, <1>6, <2>2
  <2> QED
    BY <1>8, <2>1, <2>2
<1>15. Exact'
  BY <1>2, <1>9 DEF Exact
<1>16. Result'
  BY DEF Result, Phase
<1> QED
  BY <1>1, <1>10, <1>11, <1>12, <1>13, <1>14, <1>15, <1>16

(* No savepoint for the new call: none is wanted, or the database refused  *)
(* it and now refuses what the call may write.                             *)
LEMMA NestUnsetInv ==
    ASSUME Inv, frames # <<>>, ~Top.err, Len(frames) < MaxDepth, entered < MaxBlocks,
           NEW kind \in {"savepoint", "plain"}, kind = "savepoint" <=> setting.nested,
           Enter(kind, FALSE), aborted' \in BOOLEAN, aborted => aborted',
           kind = "savepoint" => aborted' \/ ~Reliable,
           UNCHANGED <<open, pending, savepoints, committed>>,
           UNCHANGED <<setting, panicking, outcome, failed, wrote>>
    PROVE  Inv'
<1> USE DEF Inv
<1>1. /\ frames' \in Seq(Frame) /\ Len(frames') \leq MaxDepth
      /\ Len(frames) \in Nat \ {0} /\ DOMAIN frames' = 1..(Len(frames) + 1)
      /\ DOMAIN frames = 1..Len(frames)
      /\ frames' # <<>> /\ entered' = entered + 1 /\ entered' \in 0..MaxBlocks
      /\ entered \in Nat /\ entered + 1 \in Blocks /\ entered + 1 \notin failed
      /\ frames'[Len(frames) + 1].kind = kind
      /\ frames'[Len(frames) + 1].block = entered + 1
      /\ \A i \in DOMAIN frames : frames'[i] = frames[i] /\ frames[i].block < entered + 1
      /\ \A w \in DOMAIN wrote : entered + 1 \notin wrote[w]
      /\ Without(entered + 1) = Kept
      /\ FramesOK' /\ ErrOK' /\ WritesOK'
  BY Entered
<1>2. ~Named(entered + 1)
  BY <1>1 DEF Named, SavepointsOK
<1>3. \A i \in DOMAIN frames' : i \in DOMAIN frames \/ i = Len(frames) + 1
  BY <1>1
<1>4. /\ (Reliable' <=> Reliable) /\ Kept' = Kept /\ \A b : Without(b)' = Without(b)
      /\ \A b : Named(b)' <=> Named(b)
  BY KeptSame DEF Reliable, Named
<1>5. TypeOK'
  BY <1>1 DEF TypeOK
<1>6. Phase'
  <2>1. failed' \subseteq 1..entered'
    BY <1>1 DEF Phase
  <2> QED
    BY <1>1, <2>1 DEF Phase
<1>7. SavepointsOK'
  BY <1>1 DEF SavepointsOK
<1>8. Saved'
  <2> SUFFICES ASSUME NEW i \in DOMAIN frames', NEW k \in DOMAIN savepoints',
                      frames'[i].kind = "savepoint", savepoints'[k].name = frames'[i].block
               PROVE  /\ Without(frames[i].block)' \subseteq savepoints'[k].writes
                      /\ Reliable' => Without(frames[i].block)' = savepoints'[k].writes
    BY DEF Saved
  <2>1. PICK b : b = frames'[i].block
    OBVIOUS
  <2>2. Without(frames[i].block)' = Without(b)
    <3>1. Without(frames[i].block)' = Without(b)'
      BY <2>1 DEF Without
    <3> QED
      BY <1>4, <3>1
  <2>3. i \in DOMAIN frames
    BY <1>1, <1>2, <1>3 DEF Named
  <2> QED
    BY <1>1, <1>4, <2>1, <2>2, <2>3 DEF Saved
<1>9. Unset'
  <2> SUFFICES ASSUME Reliable, NEW i \in DOMAIN frames', frames'[i].kind = "savepoint",
                      ~Named(frames[i].block)'
               PROVE  /\ aborted' /\ \A w \in DOMAIN wrote' : frames'[i].block \notin wrote'[w]
                      /\ \A j \in DOMAIN frames' : i < j => ~Named(frames[j].block)'
    BY <1>4 DEF Unset
  <2>1. \A j \in DOMAIN frames' : \A b : b = frames'[j].block => (Named(frames[j].block)' <=> Named(b))
    BY DEF Named
  <2>2. CASE i \in DOMAIN frames
    <3>1. /\ aborted /\ \A w \in DOMAIN wrote : frames[i].block \notin wrote[w]
          /\ \A j \in DOMAIN frames : i < j => ~Named(frames[j].block)
      BY <1>1, <2>1, <2>2 DEF Unset
    <3>2. ASSUME NEW j \in DOMAIN frames', i < j PROVE ~Named(frames[j].block)'
      <4>1. CASE j \in DOMAIN frames
        BY <1>1, <2>1, <3>1, <3>2, <4>1
      <4>2. CASE j = Len(frames) + 1
        BY <1>1, <1>2, <2>1, <4>2
      <4> QED
        BY <1>3, <4>1, <4>2
    <3> QED
      BY <1>1, <2>2, <3>1, <3>2
  <2>3. CASE i = Len(frames) + 1
    <3>1. \A j \in DOMAIN frames' : ~(i < j)
      BY <1>1, <2>3
    <3> QED
      BY <1>1, <2>3, <3>1
  <2> QED
    BY <1>3, <2>2, <2>3
<1>10. Exact'
  BY <1>1, <1>4 DEF Exact
<1>11. Result'
  BY DEF Result, Phase
<1> QED
  BY <1>1, <1>5, <1>6, <1>7, <1>8, <1>9, <1>10, <1>11

(* The savepoint failed and the dialect says so: the handle of the block   *)
(* that called keeps the error, and there is no new call.                  *)
LEMMA NestErrInv ==
    ASSUME Inv, frames # <<>>, setting.nested,
           frames' = [frames EXCEPT ![Len(frames)].err = TRUE],
           aborted' \in BOOLEAN, aborted => aborted', Reliable => aborted',
           UNCHANGED <<open, pending, savepoints, committed>>,
           UNCHANGED <<setting, panicking, outcome, entered, failed, wrote>>
    PROVE  Inv'
<1> USE DEF Inv
<1>1. PICK n, f : n = Len(frames) /\ f = [frames[n] EXCEPT !.err = TRUE]
  OBVIOUS
<1>2. n \in Nat \ {0} /\ n \in 1..Len(frames) /\ n \in DOMAIN frames /\ frames[n] \in Frame
      /\ DOMAIN frames = 1..n
  BY <1>1, TopIndex, FrameType
<1>3. f \in Frame /\ f.kind = frames[n].kind /\ f.block = frames[n].block
  BY <1>1, <1>2, WithErr
<1>4. frames' = [frames EXCEPT ![n] = f]
  BY <1>1
<1>5. /\ [frames EXCEPT ![n] = f] \in Seq(Frame) /\ Len([frames EXCEPT ![n] = f]) = Len(frames)
      /\ DOMAIN [frames EXCEPT ![n] = f] = 1..Len(frames) /\ [frames EXCEPT ![n] = f][n] = f
      /\ \A i \in 1..Len(frames) : i # n => [frames EXCEPT ![n] = f][i] = frames[i]
  BY <1>2, <1>3, Replaced DEF TypeOK
<1>6. /\ frames' \in Seq(Frame) /\ Len(frames') = n /\ DOMAIN frames' = 1..n
      /\ frames'[n] = f /\ \A i \in 1..n : i # n => frames'[i] = frames[i]
  BY <1>1, <1>4, <1>5
<1>7. Alike(n)
  <2>1. n \in 0..Len(frames)
    BY <1>1, <1>2
  <2> QED
    BY <1>3, <1>6, <2>1 DEF Alike
<1>8. ErrOK'
  <2>1. \A i \in DOMAIN frames' : i # n => ~frames'[i].err
    BY <1>1, <1>2, <1>6 DEF ErrOK
  <2> QED
    BY <1>6, <2>1 DEF ErrOK, Reliable
<1>9. panicking' \in BOOLEAN
  BY DEF TypeOK
<1> QED
  BY <1>2, <1>7, <1>8, <1>9, Carried

LEMMA NestInv ==
    ASSUME Inv, Nest PROVE Inv'
<1> USE DEF Inv
<1>1. /\ frames # <<>> /\ Len(frames) < MaxDepth /\ entered < MaxBlocks
      /\ UNCHANGED <<setting, panicking, outcome, failed, wrote>>
  BY DEF Nest, Running
<1>2. Top.err => setting.nested /\ (Reliable => aborted)
  BY <1>1, TopIndex DEF ErrOK
<1>3. CASE setting.nested
  <2>1. PICK left \in BOOLEAN :
            /\ SavePoint(Top.err, entered + 1, left)
            /\ IF left
               THEN frames' = [frames EXCEPT ![Len(frames)].err = TRUE] /\ UNCHANGED entered
               ELSE Enter("savepoint", FALSE)
    BY <1>3 DEF Nest, SpName
  <2>2. CASE ~Top.err /\ SavepointSet(entered + 1) /\ left = FALSE
    BY <1>1, <1>3, <2>1, <2>2, NestSetInv
  <2>3. CASE /\ ~Top.err /\ (aborted \/ setting.fails)
             /\ StatementFails /\ left = setting.reports
    <3>1. /\ aborted' = (aborted \/ setting.aborts)
          /\ UNCHANGED <<open, pending, savepoints, committed>>
      BY <2>3 DEF StatementFails
    <3>2. aborted' \in BOOLEAN /\ (aborted => aborted') /\ (Reliable => aborted')
      BY <2>3, <3>1, SettingType DEF TypeOK, Reliable
    <3>3. CASE left
      BY <1>1, <1>3, <2>1, <3>1, <3>2, <3>3, NestErrInv
    <3>4. CASE ~left
      BY <1>1, <1>3, <2>1, <2>3, <3>1, <3>2, <3>4, NestUnsetInv
    <3> QED
      BY <3>3, <3>4
  <2>4. CASE Top.err /\ Skipped /\ left = TRUE
    <3>1. UNCHANGED <<open, pending, savepoints, aborted, committed>>
      BY <2>4 DEF Skipped, db
    <3>2. aborted' \in BOOLEAN /\ (Reliable => aborted')
      BY <1>2, <2>4, <3>1 DEF TypeOK
    <3> QED
      BY <1>1, <1>3, <2>1, <2>4, <3>1, <3>2, NestErrInv
  <2> QED
    BY <2>1, <2>2, <2>3, <2>4 DEF SavePoint
<1>4. CASE ~setting.nested
  <2>1. Enter("plain", Top.err) /\ UNCHANGED db
    BY <1>4 DEF Nest
  <2>2. /\ UNCHANGED <<open, pending, savepoints, aborted, committed>> /\ aborted' \in BOOLEAN
    BY <2>1 DEF db, TypeOK
  <2>3. ~Top.err /\ Top.err \in BOOLEAN
    BY <1>1, <1>2, <1>4, TopIndex, FrameType
  <2>4. Enter("plain", FALSE)
    <3>1. (Top.err) = FALSE
      BY <2>3
    <3> QED
      BY <2>1, <3>1
  <2> QED
    BY <1>1, <1>4, <2>2, <2>3, <2>4, NestUnsetInv
<1> QED
  BY <1>3, <1>4

LEMMA UnchangedInv ==
    ASSUME Inv, UNCHANGED vars PROVE Inv'
<1>1. /\ UNCHANGED <<setting, frames, panicking, outcome, entered, failed, wrote>>
      /\ UNCHANGED <<open, pending, savepoints, aborted, committed>>
  BY DEF vars, calls, db
<1> USE DEF Inv
<1>2. TypeOK' /\ Phase' /\ FramesOK' /\ ErrOK' /\ WritesOK' /\ SavepointsOK'
  BY <1>1 DEF TypeOK, Phase, FramesOK, ErrOK, WritesOK, SavepointsOK, Reliable
<1>3. Saved' /\ Unset' /\ Exact' /\ Result'
  BY <1>1 DEF Saved, Unset, Exact, Result, Reliable, Without, Kept, Named
<1> QED
  BY <1>2, <1>3

LEMMA NextInv == Inv /\ [Next]_vars => Inv'
<1> SUFFICES ASSUME Inv, [Next]_vars PROVE Inv'
  OBVIOUS
<1>1. CASE Begin
  BY <1>1, BeginInv
<1>2. CASE Nest
  BY <1>2, NestInv
<1>3. CASE Write
  BY <1>3, WriteInv
<1>4. CASE Commit
  BY <1>4, CommitInv
<1>5. CASE Return
  BY <1>5, ReturnInv
<1>6. CASE Recover
  BY <1>6, RecoverInv
<1>7. CASE Fail("error") \/ Fail("panic")
  BY <1>7, FailInv
<1>8. CASE UNCHANGED vars
  BY <1>8, UnchangedInv
<1> QED
  BY <1>1, <1>2, <1>3, <1>4, <1>5, <1>6, <1>7, <1>8 DEF Next

(* The inductive invariant holds of every run of Transaction calls.        *)
THEOREM TransactionInv == Spec => []Inv
  BY InitInv, NextInv, PTL DEF Spec

-----------------------------------------------------------------------------
(* The properties of Transaction.                                          *)

(* Every variable of DB.Transaction keeps its type, and the blocks inside  *)
(* one another stay within MaxDepth (finisher_api.go:621-661).             *)
THEOREM TransactionTypes == Spec => []TypeOK
<1>1. Inv => TypeOK
  BY DEF Inv
<1> QED
  BY <1>1, TransactionInv, PTL

(* For any nesting, writes, errors and panics: a block that fails takes    *)
(* exactly its own writes with it, the whole leaves all or nothing where   *)
(* savepoints are reliable, and elsewhere nothing that was reported        *)
(* committed is lost (finisher_api.go:618-661).                            *)
THEOREM TransactionAtomic == Spec => []Atomic
<1>1. Inv => Atomic
  <2> SUFFICES ASSUME Inv PROVE Atomic
    OBVIOUS
  <2>1. BlocksUndone
    BY DEF Inv, Exact, BlocksUndone
  <2>2. AllOrNothingIfReliable /\ NothingLost
    BY DEF Inv, Result, Reliable, AllOrNothingIfReliable, AllOrNothing, NothingLost
  <2> QED
    BY <2>1, <2>2 DEF Atomic
<1> QED
  BY <1>1, TransactionInv, PTL

(* However the outermost call ends, the transaction it has begun is over   *)
(* (finisher_api.go:641-656), unless the call was made on a handle with an *)
(* error.                                                                  *)
THEOREM TransactionNoOpenTx == Spec => []NoOpenTx
<1>1. Inv => NoOpenTx
  BY DEF Inv, Phase, NoOpenTx
<1> QED
  BY <1>1, TransactionInv, PTL

-----------------------------------------------------------------------------
(* Transaction implements NestedTx.                                        *)

(* The layers by what was written: a write that counts is in the innermost *)
(* layer that it was written in.                                           *)
Depth == IF setting.nested THEN Len(frames) ELSE IF frames = <<>> THEN 0 ELSE 1
Part(i) ==
    {w \in Kept : /\ i # 1 => frames[i].block \in wrote[w]
                  /\ i # Depth => frames[i + 1].block \notin wrote[w]}
Parts == [i \in 1..Depth |-> Part(i)]

AsParts ==
    ~setting.fails => /\ Layers = Parts /\ Depth \in Nat
                      /\ Parts \in Seq(SUBSET Writes) /\ Len(Parts) = Depth

(* What is known of a step that is compared with those of NestedTx.        *)
Compared == Inv /\ AsParts /\ AsParts' /\ ~setting.fails /\ setting' = setting

LEMMA DepthType ==
    ASSUME Inv
    PROVE  /\ Depth \in Nat /\ 1..Depth \subseteq DOMAIN frames /\ Len(frames) \in Nat
           /\ DOMAIN frames = 1..Len(frames)
           /\ frames = <<>> <=> Depth = 0
           /\ Depth > 1 => setting.nested /\ Depth = Len(frames)
<1>1. Len(frames) \in Nat /\ DOMAIN frames = 1..Len(frames) /\ (frames = <<>> <=> Len(frames) = 0)
  BY LenProperties, EmptySeq DEF Inv, TypeOK
<1> QED
  BY <1>1 DEF Depth

LEMMA LevelsAre ==
    ASSUME Inv
    PROVE  Levels = 1..Depth
<1>1. /\ Len(frames) \in Nat /\ DOMAIN frames = 1..Len(frames) /\ Depth \in Nat
      /\ frames = <<>> <=> Depth = 0
  BY DepthType
<1>2. \A i \in DOMAIN frames : /\ frames[i].kind = "root" <=> i = 1
                               /\ frames[i].kind = "savepoint" => setting.nested
                               /\ frames[i].kind = "plain" => ~setting.nested
                               /\ frames[i].kind \in {"root", "savepoint", "plain"}
  BY FrameType DEF Inv, FramesOK, Kinds
<1>3. CASE setting.nested
  BY <1>1, <1>2, <1>3 DEF Levels, Depth
<1>4. CASE ~setting.nested
  <2>1. \A i \in DOMAIN frames : frames[i].kind # "plain" <=> i = 1
    BY <1>2, <1>4
  <2> QED
    BY <1>1, <1>4, <2>1 DEF Levels, Depth
<1> QED
  BY <1>3, <1>4

(* A savepoint holds the writes that count outside of its block; where it  *)
(* is missing nothing was written since.                                   *)
LEMMA BaseIs ==
    ASSUME Inv, ~setting.fails, NEW i \in 2..Depth
    PROVE  Base(i) = Without(frames[i].block)
<1>1. i \in DOMAIN frames /\ i # 1 /\ setting.nested /\ frames # <<>>
  BY DepthType
<1>2. frames[i].kind = "savepoint"
  BY <1>1, FrameType DEF Inv, FramesOK, Kinds
<1>3. Reliable /\ pending = Kept
  BY <1>1 DEF Inv, Exact, Reliable
<1>4. CASE Named(frames[i].block)
  <2>1. PICK s \in DOMAIN savepoints :
          /\ savepoints[s].name = frames[i].block
          /\ s = CHOOSE j \in DOMAIN savepoints : savepoints[j].name = frames[i].block
    BY <1>4 DEF Named
  <2>2. savepoints[s].writes = Without(frames[i].block)
    BY <1>1, <1>2, <1>3, <2>1 DEF Inv, Saved
  <2> QED
    BY <1>1, <1>4, <2>1, <2>2 DEF Base
<1>5. CASE ~Named(frames[i].block)
  <2>1. \A w \in DOMAIN wrote : frames[i].block \notin wrote[w]
    BY <1>1, <1>2, <1>3, <1>5 DEF Inv, Unset
  <2>2. Without(frames[i].block) = Kept
    BY <2>1 DEF Without, Kept
  <2> QED
    BY <1>1, <1>3, <1>5, <2>2 DEF Base
<1> QED
  BY <1>4, <1>5

LEMMA IsAsParts == Inv => AsParts
<1> SUFFICES ASSUME Inv, ~setting.fails
             PROVE  /\ Layers = Parts /\ Depth \in Nat
                    /\ Parts \in Seq(SUBSET Writes) /\ Len(Parts) = Depth
  BY DEF AsParts
<1>1. Depth \in Nat /\ Levels = 1..Depth
  BY DepthType, LevelsAre
<1>2. ASSUME NEW i \in 1..Depth
      PROVE  (IF i + 1 \in Levels THEN Base(i + 1) ELSE pending) \ Base(i) = Part(i)
  <2>1. pending = Kept
    <3>1. frames # <<>>  BY DepthType
    <3> QED BY <3>1 DEF Inv, Exact
  <2>2. Base(i) = IF i = 1 THEN {} ELSE Without(frames[i].block)
    <3>1. CASE i = 1  BY <3>1 DEF Base
    <3>2. CASE i # 1
      <4>1. i \in 2..Depth  BY <1>1, <3>2
      <4> QED BY <3>2, <4>1, BaseIs
    <3> QED BY <3>1, <3>2
  <2>3. i # Depth => i + 1 \in Levels /\ Base(i + 1) = Without(frames[i + 1].block)
    <3> SUFFICES ASSUME i # Depth
                 PROVE  i + 1 \in Levels /\ Base(i + 1) = Without(frames[i + 1].block)
      OBVIOUS
    <3>1. i + 1 \in 2..Depth /\ i + 1 \in 1..Depth  BY <1>1
    <3> QED BY <1>1, <3>1, BaseIs
  <2>4. i = Depth => i + 1 \notin Levels
    BY <1>1
  <2> QED
    BY <2>1, <2>2, <2>3, <2>4 DEF Part, Without
<1>3. Layers = Parts
  BY <1>1, <1>2 DEF Layers, Parts
<1>4. \A i \in 1..Depth : Part(i) \in SUBSET Writes
  <2>1. Kept \subseteq Writes  BY DEF Inv, TypeOK, Kept
  <2> QED BY <2>1 DEF Part
<1>5. Parts \in Seq(SUBSET Writes) /\ Len(Parts) = Depth
  BY <1>1, <1>4, IsASeq, LenProperties DEF Parts
<1> QED
  BY <1>1, <1>3, <1>5

-----------------------------------------------------------------------------
(* The operators on sequences that NestedTx uses.                          *)

LEMMA AbstractEnds ==
    \A s : Abstract!Front(s) = Front(s) /\ Abstract!Last(s) = Last(s)
  BY DEF Front, Last, Abstract!Front, Abstract!Last

LEMMA Ends ==
    ASSUME NEW S, NEW s \in Seq(S), s # <<>>
    PROVE  /\ Front(s) \in Seq(S) /\ Len(s) \in Nat \ {0} /\ Len(Front(s)) = Len(s) - 1
           /\ \A i \in 1..(Len(s) - 1) : Front(s)[i] = s[i]
           /\ Last(s) = s[Len(s)] /\ Last(s) \in S
<1>1. Len(s) \in Nat \ {0} /\ Len(s) - 1 \in 0..Len(s) /\ Len(s) \in 1..Len(s)
  BY LenProperties, EmptySeq
<1>2. Last(s) = s[Len(s)] /\ Last(s) \in S
  BY <1>1, ElementOfSeq DEF Last
<1> QED
  BY <1>1, <1>2, Prefix DEF Front

LEMMA LastChanged ==
    ASSUME NEW S, NEW s \in Seq(S), s # <<>>, NEW x \in S, NEW t \in Seq(S),
           Len(t) = Len(s), t[Len(s)] = x, \A i \in 1..(Len(s) - 1) : t[i] = s[i]
    PROVE  t = Front(s) \o <<x>>
<1> DEFINE f == Front(s)
           u == f \o <<x>>
<1>1. f \in Seq(S) /\ Len(s) \in Nat \ {0} /\ Len(f) = Len(s) - 1
      /\ \A i \in 1..(Len(s) - 1) : f[i] = s[i]
  BY Ends
<1>2. <<x>> \in Seq(S) /\ Len(<<x>>) = 1 /\ <<x>>[1] = x
  OBVIOUS
<1> HIDE DEF f
<1>3. /\ u \in Seq(S) /\ Len(u) = Len(s)
      /\ \A i \in 1..Len(s) : u[i] = IF i <= Len(f) THEN f[i] ELSE <<x>>[i - Len(f)]
  <2>1. Len(f) + Len(<<x>>) = Len(s)  BY <1>1, <1>2
  <2> QED BY <1>1, <1>2, <2>1, ConcatProperties
<1>4. ASSUME NEW i \in 1..Len(t) PROVE t[i] = u[i]
  <2>1. CASE i = Len(s)
    BY <1>1, <1>2, <1>3, <2>1
  <2>2. CASE i # Len(s)
    <3>1. i \in 1..(Len(s) - 1) /\ i <= Len(f)  BY <1>1, <2>2
    <3> QED BY <1>1, <1>3, <3>1
  <2> QED BY <2>1, <2>2
<1>5. t = u
  <2> HIDE DEF u
  <2> QED BY <1>3, <1>4, SeqEqual
<1> QED
  BY <1>5 DEF f

LEMMA Shorter ==
    ASSUME NEW S, NEW s \in Seq(S), s # <<>>, NEW t \in Seq(S),
           Len(t) = Len(s) - 1, \A i \in 1..(Len(s) - 1) : t[i] = s[i]
    PROVE  t = Front(s)
<1>1. /\ Front(s) \in Seq(S) /\ Len(Front(s)) = Len(s) - 1
      /\ \A i \in 1..(Len(s) - 1) : Front(s)[i] = s[i]
  BY Ends
<1> QED
  BY <1>1, SeqEqual

-----------------------------------------------------------------------------
(* One lemma per way in which the layers change.                           *)

(* They stay.                                                              *)
LEMMA SameParts ==
    ASSUME Compared, Depth' = Depth, UNCHANGED <<wrote, failed, committed, outcome>>,
           \A i \in 1..Depth : frames'[i].block = frames[i].block
    PROVE  UNCHANGED Abstract!vars
<1>1. Kept' = Kept
  BY DEF Kept
<1>2. ASSUME NEW i \in 1..Depth PROVE Part(i)' = Part(i)
  <2>1. i # Depth => i + 1 \in 1..Depth
    BY DEF Compared, AsParts
  <2> QED
    BY <1>1, <2>1 DEF Part
<1>3. Parts' = Parts
  BY <1>2 DEF Parts
<1> QED
  BY <1>3 DEF Compared, AsParts, Abstract!vars

LEMMA EndsParts ==
    ASSUME Compared, frames' = <<>>
    PROVE  Layers' = <<>>
<1>1. Depth' = 0
  BY EmptySeq DEF Depth, Compared
<1> QED
  BY <1>1, EmptySeq DEF Compared, AsParts

LEMMA BeginRefines ==
    ASSUME Compared, Begin
    PROVE  Abstract!Open \/ Abstract!Abandon("error")
<1>1. /\ outcome = "none" /\ frames = <<>> /\ UNCHANGED <<committed, failed, wrote>>
      /\ DOMAIN wrote = {}
  BY DEF Begin, Compared, Inv, Phase
<1>2. Layers = <<>>
  BY <1>1, DepthType, EmptySeq DEF Compared, AsParts
<1>3. CASE outcome' = "error" /\ frames' = frames
  BY <1>1, <1>2, <1>3, EndsParts DEF Compared, Abstract!Abandon
<1>4. CASE outcome' = outcome /\ frames' = <<[kind |-> "root", block |-> 1, err |-> FALSE]>>
  <2>1. Depth' = 1
    BY <1>4 DEF Depth
  <2>2. Kept' = {}
    BY <1>1 DEF Kept
  <2>3. Part(1)' = {}
    BY <2>2 DEF Part
  <2>4. Layers' = <<{}>>
    BY <2>1, <2>3 DEF Compared, AsParts, Parts
  <2> QED
    BY <1>1, <1>2, <1>4, <2>4 DEF Compared, Abstract!Open
<1> QED
  BY <1>3, <1>4 DEF Begin

(* A new layer has nothing to its credit yet.                              *)
LEMMA EnterRefines ==
    ASSUME Compared, Running, setting.nested, Enter("savepoint", FALSE),
           UNCHANGED <<outcome, failed, wrote, committed>>
    PROVE  Abstract!Enter
<1>0. PICK n : n = Len(frames)
  OBVIOUS
<1>1. /\ frames # <<>> /\ n \in Nat \ {0} /\ DOMAIN frames = 1..n
      /\ Depth = n /\ TypeOK
  BY <1>0, DepthType DEF Running, Depth, Compared, Inv
<1>2. /\ Len(frames') = n + 1 /\ frames'[n + 1].block = entered + 1
      /\ \A i \in 1..n : frames'[i] = frames[i]
  <2>1. frames \in Seq(Frame)
    BY <1>1 DEF TypeOK
  <2>2. frames' = Append(frames, [kind |-> "savepoint", block |-> entered + 1, err |-> FALSE])
    BY DEF Enter
  <2> QED
    BY <1>0, <1>1, <2>1, <2>2
<1>3. Depth' = n + 1
  BY <1>2 DEF Depth, Compared
<1>4. Kept' = Kept /\ \A w \in Kept : w \in DOMAIN wrote /\ entered + 1 \notin wrote[w]
  <2>1. \A w \in DOMAIN wrote : wrote[w] \subseteq 1..entered
    BY DEF Compared, Inv, WritesOK
  <2>2. entered \in Nat
    BY <1>1 DEF TypeOK
  <2> QED
    BY <2>1, <2>2 DEF Kept
<1>5. ASSUME NEW i \in 1..n PROVE Part(i)' = Part(i)
  <2>1. CASE i = n
    <3>1. Part(i) = {w \in Kept : i # 1 => frames[i].block \in wrote[w]}
      BY <1>1, <2>1 DEF Part
    <3>2. Part(i)' = {w \in Kept : /\ i # 1 => frames[i].block \in wrote[w]
                                   /\ entered + 1 \notin wrote[w]}
      BY <1>1, <1>2, <1>3, <1>4, <2>1 DEF Part
    <3> QED
      BY <1>4, <3>1, <3>2
  <2>2. CASE i # n
    <3>1. i + 1 \in 1..n /\ i # n + 1
      BY <1>1, <2>2
    <3> QED
      BY <1>1, <1>2, <1>3, <1>4, <2>2, <3>1 DEF Part
  <2> QED
    BY <2>1, <2>2
<1>6. Part(n + 1)' = {}
  <2>1. n + 1 # 1  BY <1>1
  <2>2. Part(n + 1)' \subseteq {w \in Kept : entered + 1 \in wrote[w]}
    BY <1>2, <1>4, <2>1 DEF Part
  <2> QED
    BY <1>4, <2>2
<1>7. Parts' = Append(Parts, {})
  <2>1. /\ Parts \in Seq(SUBSET Writes) /\ Len(Parts) = n
        /\ Parts' \in Seq(SUBSET Writes) /\ Len(Parts') = n + 1
    BY <1>1, <1>3 DEF Compared, AsParts
  <2>2. /\ \A i \in 1..n : Parts'[i] = Parts[i]
        /\ Parts'[n + 1] = {}
    <3>1. Parts = [i \in 1..n |-> Part(i)] /\ Parts' = [i \in 1..(n + 1) |-> Part(i)']
      BY <1>1, <1>3 DEF Parts
    <3> QED BY <1>1, <1>5, <1>6, <3>1
  <2>3. PICK s \in Seq(SUBSET Writes) : s = Parts
    BY <2>1
  <2>4. PICK t \in Seq(SUBSET Writes) : t = Parts'
    BY <2>1
  <2>5. {} \in SUBSET Writes  OBVIOUS
  <2>6. /\ Append(s, {}) \in Seq(SUBSET Writes) /\ Len(Append(s, {})) = n + 1
        /\ \A i \in 1..n : Append(s, {})[i] = s[i]
        /\ Append(s, {})[n + 1] = {}
    BY <2>1, <2>3, <2>5, AppendProperties
  <2>7. \A i \in 1..(n + 1) : t[i] = Append(s, {})[i]
    <3>1. n \in Nat  BY <2>1, <2>3
    <3>2. ASSUME NEW i \in 1..(n + 1) PROVE i \in 1..n \/ i = n + 1
      BY <3>1
    <3> QED BY <2>2, <2>3, <2>4, <2>6, <3>2
  <2>8. t = Append(s, {})
    BY <2>1, <2>4, <2>6, <2>7, SeqEqual
  <2> QED
    BY <2>3, <2>4, <2>8
<1>8. Parts # <<>>
  BY <1>1, EmptySeq DEF Compared, AsParts
<1> QED
  BY <1>7, <1>8 DEF Compared, AsParts, Abstract!Enter

LEMMA LayersAre ==
    ASSUME Compared, NEW d, NEW e, Depth = d, Depth' = e
    PROVE  /\ d \in Nat /\ Layers \in Seq(SUBSET Writes) /\ Len(Layers) = d
           /\ \A i \in 1..d : Layers[i] = Part(i)
           /\ e \in Nat /\ Layers' \in Seq(SUBSET Writes) /\ Len(Layers') = e
           /\ \A i \in 1..e : Layers'[i] = Part(i)'
<1>1. /\ Layers = Parts /\ d \in Nat /\ Parts \in Seq(SUBSET Writes) /\ Len(Parts) = d
      /\ Layers' = Parts' /\ e \in Nat /\ Parts' \in Seq(SUBSET Writes) /\ Len(Parts') = e
  BY DEF Compared, AsParts
<1>2. Parts = [i \in 1..d |-> Part(i)] /\ Parts' = [i \in 1..e |-> Part(i)']
  BY DEF Parts
<1> QED
  BY <1>1, <1>2

LEMMA KeptType == Inv => Kept \subseteq DOMAIN wrote /\ Kept \in SUBSET Writes
  BY DEF Kept, Inv, TypeOK

(* A write is to the credit of the innermost layer.                        *)
LEMMA WriteRefines ==
    ASSUME Compared, Write
    PROVE  (\E w \in Writes : Abstract!Write(w)) \/ UNCHANGED Abstract!vars
<1>1. /\ frames # <<>> /\ Cardinality(DOMAIN wrote) < MaxWrites
      /\ UNCHANGED <<setting, frames, panicking, outcome, entered, failed, committed>>
  BY DEF Write, Running, calls, StatementFails
<1>2. PICK d : d = Depth /\ d = Depth'
  BY <1>1 DEF Depth
<1>3. /\ d \in Nat \ {0} /\ 1..d \subseteq DOMAIN frames /\ TypeOK /\ WritesOK /\ FramesOK
      /\ d \in 1..d
  BY <1>1, <1>2, DepthType DEF Compared, Inv
<1>4. CASE StatementFails /\ UNCHANGED wrote
  BY <1>1, <1>2, <1>4, SameParts
<1>5. ASSUME NEW w, w = Cardinality(DOMAIN wrote) + 1,
             wrote' = [x \in DOMAIN wrote \cup {w} |-> IF x = w THEN Enclosing ELSE wrote[x]]
      PROVE  w \in Writes /\ Abstract!Write(w)
  <2>1. /\ w \in Writes /\ w \notin DOMAIN wrote
    <3>1. PICK n \in 0..MaxWrites : DOMAIN wrote = 1..n
      BY <1>3 DEF WritesOK
    <3>2. n \in Nat /\ MaxWrites \in Nat /\ n \leq MaxWrites
      BY <3>1, BoundsAssumption
    <3>3. Cardinality(1..n) = n
      BY <3>2, FS_Interval
    <3>4. w = n + 1 /\ n < MaxWrites
      BY <1>1, <1>5, <3>1, <3>2, <3>3
    <3>5. n + 1 \notin 1..n /\ n + 1 \in 1..MaxWrites
      BY <3>2, <3>4
    <3> QED
      BY <3>1, <3>4, <3>5 DEF Writes
  <2>2. /\ DOMAIN wrote' = DOMAIN wrote \cup {w} /\ wrote'[w] = Enclosing
        /\ \A x \in DOMAIN wrote : wrote'[x] = wrote[x]
    BY <1>5, <2>1
  <2>3. /\ Enclosing \cap failed = {}
        /\ \A i \in DOMAIN frames : frames[i].block \in Enclosing
    BY <1>3 DEF Enclosing, FramesOK
  <2>4. Kept' = Kept \cup {w} /\ Kept \subseteq DOMAIN wrote /\ Kept \subseteq Writes
    BY <1>1, <1>3, <2>1, <2>2, <2>3, KeptType DEF Kept, Compared
  <2>5. \A i \in 1..(d - 1) : Part(i)' = Part(i)
    <3> SUFFICES ASSUME NEW i \in 1..(d - 1) PROVE Part(i)' = Part(i)
      OBVIOUS
    <3>1. i \in DOMAIN frames /\ i + 1 \in DOMAIN frames /\ i # d
      <4>1. i \in 1..d /\ i + 1 \in 1..d /\ i # d  BY <1>3
      <4> QED BY <1>3, <4>1
    <3>2. frames[i + 1].block \in wrote'[w]
      BY <2>2, <2>3, <3>1
    <3>3. Part(i)' = {x \in Kept' : /\ i # 1 => frames[i].block \in wrote'[x]
                                    /\ frames[i + 1].block \notin wrote'[x]}
      BY <1>1, <1>2, <3>1 DEF Part
    <3>4. Part(i) = {x \in Kept : /\ i # 1 => frames[i].block \in wrote[x]
                                  /\ frames[i + 1].block \notin wrote[x]}
      BY <1>2, <3>1 DEF Part
    <3> QED
      BY <2>1, <2>2, <2>4, <3>2, <3>3, <3>4
  <2>6. Part(d)' = Part(d) \cup {w}
    <3>1. Part(d)' = {x \in Kept' : d # 1 => frames[d].block \in wrote'[x]}
      BY <1>1, <1>2 DEF Part
    <3>2. Part(d) = {x \in Kept : d # 1 => frames[d].block \in wrote[x]}
      BY <1>2 DEF Part
    <3>3. frames[d].block \in wrote'[w]
      BY <1>3, <2>2, <2>3
    <3> QED
      BY <2>1, <2>2, <2>4, <3>1, <3>2, <3>3
  <2>7. PICK s, t : s = Layers /\ t = Layers'
    OBVIOUS
  <2>8. /\ s \in Seq(SUBSET Writes) /\ Len(s) = d /\ \A i \in 1..d : s[i] = Part(i)
        /\ t \in Seq(SUBSET Writes) /\ Len(t) = d /\ \A i \in 1..d : t[i] = Part(i)'
    BY <1>2, <2>7, LayersAre
  <2>9. s # <<>> /\ Last(s) = Part(d) /\ Part(d) \cup {w} \in SUBSET Writes
    <3>1. s # <<>>  BY <1>3, <2>8, EmptySeq
    <3>2. s \in Seq(SUBSET Writes)  BY <2>8
    <3>3. Last(s) = s[Len(s)] /\ Last(s) \in SUBSET Writes
      BY <3>1, <3>2, Ends
    <3> QED BY <1>3, <2>1, <2>8, <3>1, <3>3
  <2>10. t = Front(s) \o <<Last(s) \cup {w}>>
    <3>1. t[Len(s)] = Part(d) \cup {w} /\ \A i \in 1..(Len(s) - 1) : t[i] = s[i]
      <4>1. \A i \in 1..(d - 1) : i \in 1..d  BY <1>3
      <4> QED BY <1>3, <2>5, <2>6, <2>8, <4>1
    <3>2. t = Front(s) \o <<Part(d) \cup {w}>>
      BY <2>8, <2>9, <3>1, LastChanged
    <3> QED BY <2>9, <3>2
  <2>11. \A i \in DOMAIN s : w \notin s[i]
    <3>1. DOMAIN s = 1..d  BY <2>8, LenProperties
    <3>2. \A i \in 1..d : Part(i) \subseteq Kept  BY DEF Part
    <3> QED BY <2>1, <2>4, <2>8, <3>1, <3>2
  <2> QED
    BY <1>1, <2>1, <2>7, <2>9, <2>10, <2>11, AbstractEnds DEF Abstract!Write, Compared
<1>6. \/ StatementFails /\ UNCHANGED wrote
      \/ wrote' = [x \in DOMAIN wrote \cup {Cardinality(DOMAIN wrote) + 1} |->
                        IF x = Cardinality(DOMAIN wrote) + 1 THEN Enclosing ELSE wrote[x]]
  BY DEF Write
<1> QED
  BY <1>4, <1>5, <1>6

(* A plain call that ends is no layer.                                     *)
LEMMA PlainRefines ==
    ASSUME Compared, frames # <<>>, Top.kind # "root", ~setting.nested,
           frames' = Front(frames), UNCHANGED <<wrote, failed, committed, outcome>>
    PROVE  UNCHANGED Abstract!vars
<1>1. PICK n : n = Len(frames) - 1
  OBVIOUS
<1>2. n \in Nat \ {0} /\ Alike(n)
  BY <1>1, PoppedAlike DEF Compared
<1>3. frames' # <<>> /\ frames'[1].block = frames[1].block
  <2>1. 1 \in 1..n /\ 1 \in DOMAIN frames' /\ Len(frames') = n
    BY <1>2 DEF Alike
  <2> QED
    BY <1>2, <2>1, EmptySeq DEF Alike
<1>4. Depth = 1 /\ Depth' = 1
  BY <1>3 DEF Depth, Compared
<1>5. \A i \in 1..1 : i = 1
  OBVIOUS
<1> QED
  BY <1>3, <1>4, <1>5, SameParts

(* The layers of the calls around the innermost one that ends.             *)
LEMMA InnerEnds ==
    ASSUME Compared, frames # <<>>, Top.kind # "root", setting.nested,
           NEW e, Alike(e), e = Len(frames) - 1
    PROVE  /\ e \in Nat \ {0} /\ e + 1 = Len(frames) /\ Depth = e + 1 /\ Depth' = e
           /\ e \in DOMAIN frames /\ e + 1 \in DOMAIN frames /\ 1..e \subseteq DOMAIN frames
           /\ Top.block = frames[e + 1].block
           /\ \A i \in 1..e : frames'[i].block = frames[i].block
           /\ \A i \in 1..(e - 1) : i \in 1..e /\ i + 1 \in 1..e /\ i # e /\ i # e + 1
<1>1. TypeOK /\ FramesOK
  BY DEF Compared, Inv
<1>2. /\ Len(frames) \in Nat \ {0} /\ DOMAIN frames = 1..Len(frames) /\ Len(frames) # 1
      /\ Top = frames[Len(frames)]
  BY <1>1, TopIndex DEF FramesOK
<1>3. Depth = Len(frames) /\ Depth' = e
  BY DEF Depth, Compared, Alike
<1> QED
  BY <1>2, <1>3 DEF Alike

LEMMA ReturnRefines ==
    ASSUME Compared, Return
    PROVE  Abstract!Keep \/ UNCHANGED Abstract!vars
<1>1. /\ frames # <<>> /\ Top.kind # "root" /\ frames' = Front(frames)
      /\ UNCHANGED <<outcome, failed, committed, wrote>>
  BY DEF Return, Running, db
<1>2. CASE ~setting.nested
  BY <1>1, <1>2, PlainRefines
<1>3. CASE setting.nested
  <2>1. PICK e : e = Len(frames) - 1
    OBVIOUS
  <2>2. Alike(e)
    BY <1>1, <2>1, PoppedAlike DEF Compared
  <2>3. /\ e \in Nat \ {0} /\ e + 1 = Len(frames) /\ Depth = e + 1 /\ Depth' = e
        /\ e \in DOMAIN frames /\ e + 1 \in DOMAIN frames /\ 1..e \subseteq DOMAIN frames
        /\ \A i \in 1..e : frames'[i].block = frames[i].block
        /\ \A i \in 1..(e - 1) : i \in 1..e /\ i + 1 \in 1..e /\ i # e /\ i # e + 1
    BY <1>1, <1>3, <2>1, <2>2, InnerEnds
  <2>4. Kept' = Kept /\ wrote' = wrote
    BY <1>1, KeptSame
  <2>5. \A i \in 1..(e - 1) : Part(i)' = Part(i)
    BY <2>3, <2>4 DEF Part
  <2>6. Part(e)' = Part(e) \cup Part(e + 1)
    <3>1. Part(e)' = {w \in Kept : e # 1 => frames[e].block \in wrote[w]}
      <4>1. e \in 1..e  BY <2>3
      <4> QED BY <2>3, <2>4, <4>1 DEF Part
    <3>2. /\ Part(e) = {w \in Kept : /\ e # 1 => frames[e].block \in wrote[w]
                                     /\ frames[e + 1].block \notin wrote[w]}
          /\ Part(e + 1) = {w \in Kept : frames[e + 1].block \in wrote[w]}
      <4>1. e # e + 1 /\ e + 1 # 1  BY <2>3
      <4> QED BY <2>3, <4>1 DEF Part
    <3>3. \A w \in Kept : frames[e + 1].block \in wrote[w] => frames[e].block \in wrote[w]
      <4>1. WritesOK /\ Kept \subseteq DOMAIN wrote  BY KeptType DEF Compared, Inv
      <4>2. e < e + 1  BY <2>3
      <4> QED BY <2>3, <4>1, <4>2 DEF WritesOK
    <3> QED
      BY <3>1, <3>2, <3>3
  <2>7. PICK s, t : s = Layers /\ t = Layers'
    OBVIOUS
  <2>8. /\ s \in Seq(SUBSET Writes) /\ Len(s) = e + 1 /\ \A i \in 1..(e + 1) : s[i] = Part(i)
        /\ t \in Seq(SUBSET Writes) /\ Len(t) = e /\ \A i \in 1..e : t[i] = Part(i)'
    BY <2>3, <2>7, LayersAre
  <2>9. s # <<>>
    BY <2>3, <2>8, EmptySeq
  <2>10. PICK f : f = Front(s)
    OBVIOUS
  <2>11. /\ f \in Seq(SUBSET Writes) /\ Len(f) = e /\ Last(s) = Part(e + 1)
         /\ \A i \in 1..e : f[i] = Part(i)
    <3>1. s \in Seq(SUBSET Writes)
      BY <2>8
    <3>2. /\ f \in Seq(SUBSET Writes) /\ Len(f) = Len(s) - 1 /\ Last(s) = s[Len(s)]
          /\ \A i \in 1..(Len(s) - 1) : f[i] = s[i]
      BY <2>9, <2>10, <3>1, Ends
    <3>3. /\ e + 1 - 1 = e /\ e + 1 \in 1..(e + 1)
          /\ \A i \in 1..e : i \in 1..(e + 1)
      BY <2>3
    <3> QED
      BY <2>8, <3>2, <3>3
  <2>12. f # <<>> /\ Last(f) = Part(e) /\ t[e] \in SUBSET Writes
    <3>1. f # <<>>  BY <2>3, <2>11, EmptySeq
    <3>2. f \in Seq(SUBSET Writes)  BY <2>11
    <3>3. Last(f) = f[Len(f)]  BY <3>1, <3>2, Ends
    <3>4. e \in 1..e  BY <2>3
    <3>5. t[e] \in SUBSET Writes
      <4>1. t \in Seq(SUBSET Writes)  BY <2>8
      <4> QED BY <2>8, <3>4, <4>1, ElementOfSeq
    <3> QED BY <2>11, <3>1, <3>3, <3>4, <3>5
  <2>13. t = Front(f) \o <<Last(f) \cup Last(s)>>
    <3>1. PICK x \in SUBSET Writes : x = t[e]
      BY <2>12
    <3>2. /\ f \in Seq(SUBSET Writes) /\ t \in Seq(SUBSET Writes)
          /\ Len(t) = Len(f) /\ t[Len(f)] = x
      BY <2>8, <2>11, <3>1
    <3>3. \A i \in 1..(Len(f) - 1) : t[i] = f[i]
      BY <2>3, <2>5, <2>8, <2>11
    <3>4. t = Front(f) \o <<x>>
      BY <2>12, <3>2, <3>3, LastChanged
    <3>5. x = Last(f) \cup Last(s)
      <4>1. e \in 1..e  BY <2>3
      <4> QED BY <2>6, <2>8, <2>11, <2>12, <3>1, <4>1
    <3> QED
      BY <3>4, <3>5
  <2>14. Len(s) > 1
    BY <2>3, <2>8
  <2> QED
    BY <1>1, <2>7, <2>10, <2>13, <2>14, AbstractEnds DEF Abstract!Keep, Compared
<1> QED
  BY <1>2, <1>3

(* A block with a savepoint fails: its layer goes.                         *)
LEMMA UndoRefines ==
    ASSUME Compared, frames # <<>>, Undo, UNCHANGED <<wrote>>
    PROVE  Abstract!Drop
<1>1. PICK left \in BOOLEAN :
          frames' = [Front(frames) EXCEPT ![Len(frames) - 1].err = @ \/ left]
  BY DEF Undo
<1>2. /\ Top.kind = "savepoint" /\ Top.kind # "root"
      /\ failed' = failed \cup {Top.block} /\ UNCHANGED <<outcome, committed>>
  BY DEF Undo, RollbackTo, RolledBackTo, StatementFails, Skipped, db
<1>3. PICK e, b : e = Len(frames) - 1 /\ b = Top.block
  OBVIOUS
<1>4. Alike(e)
  BY <1>1, <1>2, <1>3, UndoFrames DEF Compared
<1>5. setting.nested
  BY <1>2, TopIndex DEF Compared, Inv, FramesOK
<1>6. /\ e \in Nat \ {0} /\ e + 1 = Len(frames) /\ Depth = e + 1 /\ Depth' = e
      /\ e \in DOMAIN frames /\ e + 1 \in DOMAIN frames /\ 1..e \subseteq DOMAIN frames
      /\ b = frames[e + 1].block
      /\ \A i \in 1..e : frames'[i].block = frames[i].block
      /\ \A i \in 1..(e - 1) : i \in 1..e /\ i + 1 \in 1..e /\ i # e /\ i # e + 1
  BY <1>2, <1>3, <1>4, <1>5, InnerEnds
<1>7. Kept' = Without(b)
  BY <1>2, <1>3, KeptFailed
<1>8. ASSUME NEW i \in 1..e PROVE Part(i)' = Part(i)
  <2>1. i # e + 1
    BY <1>6
  <2>2. Part(i)' = {w \in Kept : /\ b \notin wrote[w]
                                 /\ i # 1 => frames[i].block \in wrote[w]
                                 /\ i # e => frames[i + 1].block \notin wrote[w]}
    <3>1. i # e => i + 1 \in 1..e
      BY <1>6
    <3> QED
      BY <1>6, <1>7, <3>1 DEF Part, Without
  <2>3. Part(i) = {w \in Kept : /\ i # 1 => frames[i].block \in wrote[w]
                                /\ frames[i + 1].block \notin wrote[w]}
    BY <1>6, <2>1 DEF Part
  <2>4. CASE i = e
    BY <1>6, <2>2, <2>3, <2>4
  <2>5. CASE i # e
    <3>1. i + 1 \in DOMAIN frames /\ i + 1 < e + 1
      BY <1>6, <2>5
    <3>2. WritesOK /\ Kept \subseteq DOMAIN wrote
      BY KeptType DEF Compared, Inv
    <3>3. \A w \in Kept : b \in wrote[w] => frames[i + 1].block \in wrote[w]
      BY <1>6, <3>1, <3>2 DEF WritesOK
    <3> QED
      BY <2>2, <2>3, <2>5, <3>3
  <2> QED
    BY <2>4, <2>5
<1>9. PICK s, t : s = Layers /\ t = Layers'
  OBVIOUS
<1>10. /\ s \in Seq(SUBSET Writes) /\ Len(s) = e + 1 /\ \A i \in 1..(e + 1) : s[i] = Part(i)
       /\ t \in Seq(SUBSET Writes) /\ Len(t) = e /\ \A i \in 1..e : t[i] = Part(i)'
  BY <1>6, <1>9, LayersAre
<1>11. t = Front(s)
  <2>1. s # <<>> /\ Len(s) - 1 = e
    BY <1>6, <1>10, EmptySeq
  <2>2. \A i \in 1..e : t[i] = s[i]
    <3>1. \A i \in 1..e : i \in 1..(e + 1)  BY <1>6
    <3> QED BY <1>8, <1>10, <3>1
  <2>3. s \in Seq(SUBSET Writes) /\ t \in Seq(SUBSET Writes) /\ Len(t) = Len(s) - 1
    BY <1>10, <2>1
  <2> QED
    BY <2>1, <2>2, <2>3, Shorter
<1>12. Len(s) > 1
  BY <1>6, <1>10
<1> QED
  BY <1>2, <1>9, <1>11, <1>12, AbstractEnds DEF Abstract!Drop, Compared

(* With the outermost call the only one there is one layer.                *)
LEMMA Outermost ==
    ASSUME Compared, frames # <<>>, Top.kind = "root"
    PROVE  Len(Layers) = 1 /\ Layers[1] = Kept
<1>1. TypeOK /\ FramesOK
  BY DEF Compared, Inv
<1>2. Len(frames) = 1 /\ Depth = 1
  BY <1>1, TopIndex DEF FramesOK, Depth
<1>3. 1 \in 1..1 /\ Part(1) = Kept
  BY <1>2 DEF Part
<1>4. Layers = Parts /\ Parts = [i \in 1..1 |-> Part(i)] /\ Len(Parts) = 1
  BY <1>2 DEF Compared, AsParts, Parts
<1> QED
  BY <1>3, <1>4

LEMMA CommitRefines ==
    ASSUME Compared, Commit
    PROVE  Abstract!Commit \/ Abstract!Abandon("error")
<1>1. /\ frames # <<>> /\ frames' = <<>> /\ Top.kind = "root"
      /\ \/ /\ ~aborted /\ committed' = committed \cup pending
            /\ outcome' = IF Top.err THEN "error" ELSE "ok"
         \/ outcome' = "error" /\ committed' = committed
  BY DEF Commit, Running
<1>2. Layers' = <<>> /\ Len(Layers) = 1 /\ Layers[1] = Kept
  BY <1>1, EndsParts, Outermost
<1>3. committed = {} /\ outcome = "none" /\ pending = Kept
  BY <1>1 DEF Compared, Inv, Phase, Exact
<1>4. Top.err => aborted
  BY <1>1, TopIndex DEF Compared, Inv, ErrOK, Reliable
<1>5. CASE ~aborted /\ committed' = committed \cup pending
           /\ outcome' = IF Top.err THEN "error" ELSE "ok"
  BY <1>2, <1>3, <1>4, <1>5 DEF Compared, Abstract!Commit
<1>6. CASE outcome' = "error" /\ committed' = committed
  <2>1. Len(Layers) \leq 1
    BY <1>2
  <2> QED
    BY <1>2, <1>3, <1>6, <2>1 DEF Compared, Abstract!Abandon
<1> QED
  BY <1>1, <1>5, <1>6

LEMMA RollbackRefines ==
    ASSUME Compared, frames # <<>>, NEW how \in {"error", "panic"}, Rollback(how)
    PROVE  Abstract!Abandon(how)
<1>1. /\ frames' = <<>> /\ Top.kind = "root" /\ outcome' = how /\ committed' = committed
  BY DEF Rollback
<1>2. Layers' = <<>> /\ Len(Layers) = 1 /\ outcome = "none"
  BY <1>1, EndsParts, Outermost DEF Compared, Inv, Phase
<1>3. Len(Layers) \leq 1
  BY <1>2
<1> QED
  BY <1>1, <1>2, <1>3 DEF Compared, Abstract!Abandon

(* A nested call opens a layer, unless it is a plain one or it leaves an   *)
(* error on the handle of its caller.                                      *)
LEMMA NestRefines ==
    ASSUME Compared, Nest
    PROVE  Abstract!Enter \/ UNCHANGED Abstract!vars
<1>1. /\ Running /\ frames # <<>> /\ TypeOK
      /\ UNCHANGED <<setting, panicking, outcome, failed, wrote, committed>>
  BY DEF Nest, Running, Compared, Inv, SavePoint, SavepointSet, StatementFails, Skipped, db
<1>2. CASE setting.nested
  <2>1. PICK left \in BOOLEAN :
            IF left
            THEN frames' = [frames EXCEPT ![Len(frames)].err = TRUE]
            ELSE Enter("savepoint", FALSE)
    BY <1>2 DEF Nest
  <2>2. CASE ~left
    BY <1>1, <1>2, <2>1, <2>2, EnterRefines
  <2>3. CASE left
    <3>1. PICK n, f : n = Len(frames) /\ f = [frames[n] EXCEPT !.err = TRUE]
      OBVIOUS
    <3>2. n \in Nat \ {0} /\ n \in 1..Len(frames) /\ n \in DOMAIN frames /\ frames[n] \in Frame
      BY <1>1, <3>1, TopIndex, FrameType
    <3>3. f \in Frame /\ f.block = frames[n].block
      BY <3>1, <3>2, WithErr
    <3>4. frames' = [frames EXCEPT ![n] = f]
      BY <2>1, <2>3, <3>1
    <3>5. /\ Len([frames EXCEPT ![n] = f]) = Len(frames)
          /\ [frames EXCEPT ![n] = f][n] = f
          /\ \A i \in 1..Len(frames) : i # n => [frames EXCEPT ![n] = f][i] = frames[i]
      BY <1>1, <3>2, <3>3, Replaced DEF TypeOK
    <3>6. Len(frames') = n /\ \A i \in 1..n : frames'[i].block = frames[i].block
      BY <3>1, <3>3, <3>4, <3>5
    <3>7. Depth = n /\ Depth' = n
      BY <1>2, <3>1, <3>6 DEF Depth, Compared
    <3> QED
      BY <1>1, <3>6, <3>7, SameParts
  <2> QED
    BY <2>2, <2>3
<1>3. CASE ~setting.nested
  <2>1. PICK f : f = [kind |-> "plain", block |-> entered + 1, err |-> Top.err]
    OBVIOUS
  <2>2. frames' = Append(frames, f) /\ Len(frames) \in Nat \ {0} /\ frames \in Seq(Frame)
    BY <1>1, <1>3, <2>1, TopIndex DEF Nest, Enter, TypeOK
  <2>3. Len(Append(frames, f)) = Len(frames) + 1 /\ Append(frames, f)[1] = frames[1]
    BY <2>2
  <2>4. frames' # <<>> /\ frames'[1] = frames[1]
    BY <2>2, <2>3, EmptySeq
  <2>5. Depth = 1 /\ Depth' = 1
    BY <1>1, <1>3, <2>4 DEF Depth, Compared
  <2>6. \A i \in 1..1 : i = 1
    OBVIOUS
  <2> QED
    BY <1>1, <2>4, <2>5, <2>6, SameParts
<1> QED
  BY <1>2, <1>3

LEMMA FailRefines ==
    ASSUME Compared, NEW how \in {"error", "panic"}, Fail(how)
    PROVE  Abstract!Drop \/ Abstract!Abandon(how) \/ UNCHANGED Abstract!vars
<1>1. /\ frames # <<>> /\ wrote' = wrote
      /\ Rollback(how) \/ Undo \/ LeavePlain
  BY DEF Fail
<1>2. CASE Rollback(how)
  BY <1>1, <1>2, RollbackRefines
<1>3. CASE Undo
  BY <1>1, <1>3, UndoRefines
<1>4. CASE LeavePlain
  <2>1. /\ Top.kind = "plain" /\ Top.kind # "root" /\ frames' = Front(frames)
        /\ UNCHANGED <<failed, outcome, committed>>
    BY <1>4 DEF LeavePlain, db
  <2>2. ~setting.nested
    BY <1>1, <2>1, TopIndex DEF Compared, Inv, FramesOK
  <2> QED
    BY <1>1, <2>1, <2>2, PlainRefines
<1> QED
  BY <1>1, <1>2, <1>3, <1>4

LEMMA NothingRefines ==
    ASSUME Compared, UNCHANGED <<frames, outcome, failed, wrote, committed>>
    PROVE  UNCHANGED Abstract!vars
<1>1. Depth' = Depth
  BY DEF Depth, Compared
<1> QED
  BY <1>1, SameParts

(* Every step is one of NestedTx or changes nothing there.                 *)
LEMMA StepRefines ==
    ASSUME Inv, Inv', [Next]_vars
    PROVE  [Abstract!Next]_(Abstract!vars)
<1>1. AsParts /\ AsParts' /\ setting' = setting
  <2>1. setting' = setting
    BY DEF Next, Begin, Nest, Write, Commit, Return, Recover, Fail, vars
  <2>2. AsParts
    BY IsAsParts
  <2>3. AsParts'
    BY IsAsParts, PTL
  <2> QED
    BY <2>1, <2>2, <2>3
<1>2. CASE setting.fails
  BY <1>1, <1>2 DEF Abstract!vars
<1>3. CASE ~setting.fails
  <2>1. Compared
    BY <1>1, <1>3 DEF Compared
  <2>2. CASE Begin
    BY <2>1, <2>2, BeginRefines DEF Abstract!Next
  <2>3. CASE Nest
    BY <2>1, <2>3, NestRefines DEF Abstract!Next
  <2>4. CASE Write
    BY <2>1, <2>4, WriteRefines DEF Abstract!Next
  <2>5. CASE Commit
    BY <2>1, <2>5, CommitRefines DEF Abstract!Next
  <2>6. CASE Return
    BY <2>1, <2>6, ReturnRefines DEF Abstract!Next
  <2>7. CASE Recover
    BY <2>1, <2>7, NothingRefines DEF Recover, db
  <2>8. CASE Fail("error")
    BY <2>1, <2>8, FailRefines DEF Abstract!Next
  <2>9. CASE Fail("panic")
    BY <2>1, <2>9, FailRefines DEF Abstract!Next
  <2>10. CASE UNCHANGED vars
    BY <2>1, <2>10, NothingRefines DEF vars, calls, db
  <2> QED
    BY <2>2, <2>3, <2>4, <2>5, <2>6, <2>7, <2>8, <2>9, <2>10 DEF Next
<1> QED
  BY <1>2, <1>3

LEMMA InitRefines == Init => Abstract!Init
<1> SUFFICES ASSUME Init PROVE Abstract!Init
  OBVIOUS
<1>1. Inv /\ frames = <<>>
  BY InitInv DEF Init
<1>2. ~setting.fails => Layers = <<>>
  <2>1. Depth = 0 /\ AsParts
    BY <1>1, DepthType, IsAsParts
  <2> QED
    BY <2>1, EmptySeq DEF AsParts
<1> QED
  BY <1>2 DEF Init, Abstract!Init

(* Calls of Transaction behave as blocks within blocks, for any depth of   *)
(* nesting and any number of blocks and writes (finisher_api.go:618-661).  *)
THEOREM TransactionImplementsNestedTx == Spec => ImplementsNestedTx
<1>1. Inv /\ Inv' /\ [Next]_vars => [Abstract!Next]_(Abstract!vars)
  BY StepRefines
<1> QED
  BY <1>1, InitRefines, TransactionInv, PTL DEF Spec, ImplementsNestedTx, Abstract!Spec
=============================================================================
