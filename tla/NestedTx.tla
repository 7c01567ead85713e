------------------------------ MODULE NestedTx ------------------------------
(***************************************************************************)
(* What DB.Transaction promises (gorm/finisher_api.go:618-620 and       *)
(* tests/transaction_test.go): a stack of blocks, each of which adds its   *)
(* writes to the block around it when it succeeds and drops them when it   *)
(* fails; the writes of the outermost block are committed, or lost, as a   *)
(* whole.                                                                  *)
(***************************************************************************)
EXTENDS Integers, Sequences, SequencesExt

CONSTANT Writes

VARIABLES
    layers,      \* the writes each block that runs has to its credit
    committed,   \* the writes of the transaction that others can see
    outcome      \* what the outermost call has returned

vars == <<layers, committed, outcome>>

TypeOK ==
    /\ layers \in Seq(SUBSET Writes)
    /\ committed \in SUBSET Writes
    /\ outcome \in {"none", "ok", "error", "panic"}

Init == layers = <<>> /\ committed = {} /\ outcome = "none"

Open ==
    /\ outcome = "none" /\ layers = <<>>
    /\ layers' = <<{}>>
    /\ UNCHANGED <<committed, outcome>>

Write(w) ==
    /\ layers # <<>>
    /\ \A i \in DOMAIN layers : w \notin layers[i]
    /\ layers' = Front(layers) \o <<Last(layers) \cup {w}>>
    /\ UNCHANGED <<committed, outcome>>

Enter ==
    /\ layers # <<>>
    /\ layers' = Append(layers, {})
    /\ UNCHANGED <<committed, outcome>>

(* An inner block succeeds: its writes become those of the block around it. *)
Keep ==
    /\ Len(layers) > 1
    /\ layers' = Front(Front(layers)) \o <<Last(Front(layers)) \cup Last(layers)>>
    /\ UNCHANGED <<committed, outcome>>

(* An inner block fails: its writes, and those of the blocks it kept, go.  *)
Drop ==
    /\ Len(layers) > 1
    /\ layers' = Front(layers)
    /\ UNCHANGED <<committed, outcome>>

Commit ==
    /\ Len(layers) = 1
    /\ committed' = layers[1] /\ layers' = <<>> /\ outcome' = "ok"

Abandon(how) ==
    /\ outcome = "none" /\ Len(layers) \leq 1
    /\ layers' = <<>> /\ outcome' = how
    /\ UNCHANGED committed

Next ==
    \/ Open \/ Enter \/ Keep \/ Drop \/ Commit
    \/ \E w \in Writes : Write(w)
    \/ Abandon("error") \/ Abandon("panic")

Spec == Init /\ [][Next]_vars
=============================================================================
