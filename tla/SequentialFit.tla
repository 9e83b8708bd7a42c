---------------------------- MODULE SequentialFit ---------------------------
(***************************************************************************)
(* What a fine-tuning job promises whatever the number of processes: it    *)
(* behaves as one program that takes the steps in order, applies or skips  *)
(* the update of each, and at a step to save replaces the checkpoint of    *)
(* that step by the model as it is then, before it takes the next step.    *)
(***************************************************************************)
EXTENDS Naturals

CONSTANTS
    Steps,       \* the steps the data allows, 1..n
    SaveAt(_),   \* the steps after which a checkpoint is written
    IsLast(_)    \* the steps after which the job ends

VARIABLES
    taken,       \* steps taken
    model,       \* the steps whose update was applied
    phase,       \* "train", "save" or "saving"
    saved        \* saved[s]: the checkpoint of step s: whether it is whole
                 \* or only partly there ("torn"), and the model in it

None == [is |-> "none", model |-> {}]
Torn == [is |-> "torn", model |-> {}]
vars == <<taken, model, phase, saved>>

Init ==
    /\ taken = 0
    /\ model = {}
    /\ phase = "train"
    /\ saved = [s \in Steps |-> None]

Train ==
    /\ phase = "train" /\ taken + 1 \in Steps
    /\ taken > 0 => ~IsLast(taken)
    /\ taken' = taken + 1
    /\ model' \in {model, model \cup {taken + 1}}
    /\ phase' = IF SaveAt(taken + 1) THEN "save" ELSE "train"
    /\ UNCHANGED saved

BeginSave ==
    /\ phase = "save"
    /\ phase' = "saving"
    /\ saved' = [saved EXCEPT ![taken] = Torn]
    /\ UNCHANGED <<taken, model>>

EndSave ==
    /\ phase = "saving"
    /\ phase' = "train"
    /\ saved' = [saved EXCEPT ![taken] = [is |-> "whole", model |-> model]]
    /\ UNCHANGED <<taken, model>>

\* The job is started again, from nothing but what it left on the disk.
Again ==
    /\ taken' = 0
    /\ model' = {}
    /\ phase' = "train"
    /\ UNCHANGED saved

Next == Train \/ BeginSave \/ EndSave \/ Again

Spec == Init /\ [][Next]_vars
=============================================================================
