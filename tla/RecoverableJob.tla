--------------------------- MODULE RecoverableJob ---------------------------
(***************************************************************************)
(* What checkpoints promise a long job that may die at any moment: it      *)
(* carries on with exactly the model it last committed.  A model is the    *)
(* sequence of its updates, each named after the run that computed it.     *)
(* Committing is not atomic: there is a moment at which nothing is known   *)
(* to be committed.  The promise is void once an operator has chosen what  *)
(* to resume from.                                                         *)
(***************************************************************************)
EXTENDS Naturals, Sequences

CONSTANTS Unknown    \* what is committed while a commit is under way

VARIABLES
    model,     \* the updates the job's model has behind it
    committed, \* the model the job would carry on with, or Unknown
    run,       \* how often the job was started
    auto       \* no operator has interfered

vars == <<model, committed, run, auto>>

Init == model = <<>> /\ committed = <<>> /\ run = 1 /\ auto = TRUE

Update ==
    /\ model # Unknown
    /\ model' = Append(model, run)
    /\ UNCHANGED <<committed, run, auto>>

BeginCommit ==
    /\ committed' = Unknown
    /\ UNCHANGED <<model, run, auto>>

EndCommit ==
    /\ committed = Unknown
    /\ committed' = model
    /\ UNCHANGED <<model, run, auto>>

Die ==
    /\ model' = committed
    /\ UNCHANGED <<committed, run, auto>>

Again ==
    /\ model' = committed
    /\ run' = run + 1
    /\ UNCHANGED <<committed, auto>>

Interfere == auto' = FALSE

Next ==
    \/ auto /\ (Update \/ BeginCommit \/ EndCommit \/ Die \/ Again)
    \/ Interfere

Spec == Init /\ [][Next]_vars
=============================================================================
