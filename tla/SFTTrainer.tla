----------------------------- MODULE SFTTrainer -----------------------------
(***************************************************************************)
(* The SPMD fine-tuning job of verl/trainer/fsdp_dft_trainer.py: torchrun  *)
(* starts one process per rank, each runs FSDPSFTTrainer.fit() and they    *)
(* meet only in collectives (forward/backward of the sharded model, the    *)
(* gradient norm, the loss all_reduce, validation, the barriers and the    *)
(* full-state gather).  Rank 0 alone writes the checkpoint, file by file.  *)
(* There is no resume: a job that died is started again from step 0 into   *)
(* the same directory.                                                     *)
(***************************************************************************)
EXTENDS Integers, FiniteSets

CONSTANTS
    Rank,                \* the processes torchrun starts
    Rank0,               \* the one that logs, averages and writes
    StepsPerEpoch,       \* len(train_dataloader): 0 when drop_last drops all
    TotalEpochs,         \* trainer.total_epochs
    TotalTrainingSteps,  \* trainer.total_training_steps, or NoLimit for null
    NoLimit,
    TestFreq, SaveFreq,  \* trainer.test_freq / save_freq: -1 turns them off
    MicroBatches,        \* micro batches in a training batch
    ValBatches,          \* len(val_dataloader): 0 when drop_last drops all
    NParts,              \* files of a checkpoint: config.json and the others
    Hdfs,                \* whether trainer.default_hdfs_dir is set
    MaxRuns              \* bound: how often the job is started

Steps == 1..(StepsPerEpoch * TotalEpochs)
Limit == IF TotalTrainingSteps = NoLimit
         THEN StepsPerEpoch * TotalEpochs ELSE TotalTrainingSteps
Part == 1..NParts
NoFile == [run |-> 0, weights |-> [r \in Rank |-> {}]]

ASSUME RankAssumption == IsFiniteSet(Rank) /\ Rank0 \in Rank
ASSUME ConfigAssumption ==
    /\ StepsPerEpoch \in Nat /\ TotalEpochs \in Nat
    /\ NoLimit \notin Nat /\ TotalTrainingSteps \in Nat \cup {NoLimit}
    /\ TestFreq \in Int \ {0} /\ SaveFreq \in Int \ {0}
    /\ MicroBatches \in Nat \ {0} /\ ValBatches \in Nat
    /\ NParts \in Nat \ {0, 1}
    /\ Hdfs \in BOOLEAN /\ MaxRuns \in Nat \ {0}

VARIABLES
    pc,        \* pc[r]: where rank r is in fit()
    step,      \* step[r]: global_step
    left,      \* left[r]: micro or validation batches still to do
    inside,    \* inside[r]: r has entered the collective at pc[r]
    entered,   \* entered[r]: collectives r has entered since the start
    grads,     \* grads[r]: <<step, micro batch>> accumulated since zero_grad
    params,    \* params[r]: steps whose update r's shard of the model holds
    sched,     \* sched[r]: lr_scheduler.step() calls
    finite,    \* steps whose all-reduced gradient norm was finite
    gathered,  \* gathered[r]: r's shard as contributed to the last gather
    alive, run,        \* the job is running; how often it was started
    dirs, file,        \* global_step_* directories; file[s][i]: what wrote it
    remote             \* the copy in default_hdfs_dir

local == <<pc, step, left, inside, entered, grads, params, sched>>
disk == <<dirs, file, remote>>
vars == <<pc, step, left, inside, entered, grads, params, sched, finite,
          gathered, alive, run, dirs, file, remote>>

Collective == {"micro", "norm", "loss", "val", "valbar", "gather", "savebar"}
Local == {"fetch", "optim", "valmean", "mkdir", "write", "upload"}
\* Where a rank stops: fit() returned, or an exception left the process.
Stopped == {"done", "EmptyStackError"}
IsLast(s) == s >= Limit
ValDue(s) == IsLast(s) \/ (TestFreq > 0 /\ s % TestFreq = 0)
SaveDue(s) == IsLast(s) \/ (SaveFreq > 0 /\ s % SaveFreq = 0)

-----------------------------------------------------------------------------
Fresh ==
    /\ pc' = [r \in Rank |-> "fetch"]
    /\ step' = [r \in Rank |-> 0]
    /\ left' = [r \in Rank |-> 0]
    /\ inside' = [r \in Rank |-> FALSE]
    /\ entered' = [r \in Rank |-> 0]
    /\ grads' = [r \in Rank |-> {}]
    /\ params' = [r \in Rank |-> {}]
    /\ sched' = [r \in Rank |-> 0]
    /\ finite' = {}
    /\ gathered' = [r \in Rank |-> {}]

Init ==
    /\ pc = [r \in Rank |-> "fetch"]
    /\ step = [r \in Rank |-> 0]
    /\ left = [r \in Rank |-> 0]
    /\ inside = [r \in Rank |-> FALSE]
    /\ entered = [r \in Rank |-> 0]
    /\ grads = [r \in Rank |-> {}]
    /\ params = [r \in Rank |-> {}]
    /\ sched = [r \in Rank |-> 0]
    /\ finite = {}
    /\ gathered = [r \in Rank |-> {}]
    /\ alive = TRUE
    /\ run = 1
    /\ dirs = {}
    /\ file = [s \in Steps |-> [i \in Part |-> NoFile]]
    /\ remote = [s \in Steps |-> [i \in Part |-> NoFile]]

-----------------------------------------------------------------------------
(* A collective is entered and left: no rank leaves it before every rank    *)
(* has entered as many collectives as it has.                               *)
Post(r) ==
    /\ inside' = [inside EXCEPT ![r] = TRUE]
    /\ entered' = [entered EXCEPT ![r] = @ + 1]
    /\ UNCHANGED <<pc, step, left, grads, params, sched, alive, run, disk>>

Enter(r) ==
    /\ pc[r] \in Collective \ {"norm", "gather"} /\ ~inside[r]
    /\ Post(r)
    /\ UNCHANGED <<finite, gathered>>

\* clip_grad_norm_: the norm is known, to all ranks alike, when the last
\* shard has been contributed.  That it is finite is the data's choice.
EnterNorm(r) ==
    /\ pc[r] = "norm" /\ ~inside[r]
    /\ Post(r)
    /\ \/ finite' = finite
       \/ /\ \A q \in Rank \ {r} : entered[q] > entered[r]
          /\ finite' = finite \cup {step[r]}
    /\ UNCHANGED gathered

\* Mutant: the shard is the one from before this step's update.
EnterGatherStale(r) ==
    /\ pc[r] = "gather" /\ ~inside[r]
    /\ Post(r)
    /\ gathered' = [gathered EXCEPT ![r] = params[r] \ {step[r]}]
    /\ UNCHANGED finite

\* The full-state-dict gather reads every rank's shard as it is on entry.
EnterGather(r) ==
    /\ pc[r] = "gather" /\ ~inside[r]
    /\ Post(r)
    /\ gathered' = [gathered EXCEPT ![r] = params[r]]
    /\ UNCHANGED finite

Complete(r) == inside[r] /\ \A q \in Rank : entered[q] >= entered[r]

Goto(r, stage, n) ==
    /\ pc' = [pc EXCEPT ![r] = stage]
    /\ left' = [left EXCEPT ![r] = n]

\* What every departure from a collective has in common.
Leave(r, stage) ==
    /\ pc[r] = stage /\ Complete(r)
    /\ inside' = [inside EXCEPT ![r] = FALSE]
    /\ UNCHANGED <<step, entered, params, sched, finite, gathered, alive, run,
                   disk>>

-----------------------------------------------------------------------------
(* training_step                                                           *)

\* Mutant: training_step does not zero the gradients first.
FetchKeepingGrads(r) ==
    /\ pc[r] = "fetch"
    /\ \/ /\ step[r] + 1 \in Steps
          /\ step' = [step EXCEPT ![r] = @ + 1]
          /\ Goto(r, "micro", MicroBatches)
       \/ step[r] + 1 \notin Steps /\ Goto(r, "done", 0) /\ UNCHANGED step
    /\ UNCHANGED <<inside, entered, grads, params, sched, finite, gathered,
                   alive, run, disk>>

\* The dataloader yields the next batch (optimizer.zero_grad() first), or
\* the epochs are over and fit() falls out of its loops.
Fetch(r) ==
    /\ pc[r] = "fetch"
    /\ \/ /\ step[r] + 1 \in Steps
          /\ step' = [step EXCEPT ![r] = @ + 1]
          /\ grads' = [grads EXCEPT ![r] = {}]
          /\ Goto(r, "micro", MicroBatches)
       \/ /\ step[r] + 1 \notin Steps
          /\ Goto(r, "done", 0)
          /\ UNCHANGED <<step, grads>>
    /\ UNCHANGED <<inside, entered, params, sched, finite, gathered, alive, run,
                   disk>>

\* Mutant: the loop over the micro batches is off by one.
LeaveMicroOnceMore(r) ==
    /\ Leave(r, "micro")
    /\ grads' = [grads EXCEPT ![r] = @ \cup {<<step[r], left[r]>>}]
    /\ IF left[r] >= 0 THEN Goto(r, "micro", left[r] - 1)
                       ELSE Goto(r, "norm", 0)

\* loss.backward() of one micro batch: its gradient is added to the others.
LeaveMicro(r) ==
    /\ Leave(r, "micro")
    /\ grads' = [grads EXCEPT ![r] = @ \cup {<<step[r], left[r]>>}]
    /\ IF left[r] > 1 THEN Goto(r, "micro", left[r] - 1)
                      ELSE Goto(r, "norm", 0)

LeaveNorm(r) ==
    /\ Leave(r, "norm")
    /\ Goto(r, "optim", 0)
    /\ UNCHANGED grads

\* Mutant: each rank looks at the norm of its own shard of the gradient.
OptimizerStepOwnNorm(r) ==
    /\ pc[r] = "optim"
    /\ \/ params' = [params EXCEPT ![r] = @ \cup {step[r]}] /\ UNCHANGED grads
       \/ grads' = [grads EXCEPT ![r] = {}] /\ UNCHANGED params
    /\ sched' = [sched EXCEPT ![r] = @ + 1]
    /\ Goto(r, "loss", 0)
    /\ UNCHANGED <<step, inside, entered, finite, gathered, alive, run, disk>>

\* optimizer.step(), or its omission when the norm is not finite; the
\* learning-rate schedule advances in either case.
OptimizerStep(r) ==
    /\ pc[r] = "optim"
    /\ \/ /\ step[r] \in finite
          /\ params' = [params EXCEPT ![r] = @ \cup {step[r]}]
          /\ UNCHANGED grads
       \/ /\ step[r] \notin finite
          /\ grads' = [grads EXCEPT ![r] = {}]
          /\ UNCHANGED params
    /\ sched' = [sched EXCEPT ![r] = @ + 1]
    /\ Goto(r, "loss", 0)
    /\ UNCHANGED <<step, inside, entered, finite, gathered, alive, run, disk>>

\* The loss is reduced; then fit() takes global_step % test_freq and
\* global_step % save_freq and acts on them.
LeaveLoss(r) ==
    /\ Leave(r, "loss")
    /\ \/ /\ ValDue(step[r])
          /\ IF ValBatches > 0 THEN Goto(r, "val", ValBatches)
                               ELSE Goto(r, "valmean", 0)
       \/ /\ ~ValDue(step[r])
          /\ Goto(r, IF SaveDue(step[r]) THEN "gather" ELSE "fetch", 0)
    /\ UNCHANGED grads

-----------------------------------------------------------------------------
(* Validation                                                              *)

LeaveVal(r) ==
    /\ Leave(r, "val")
    /\ IF left[r] > 1 THEN Goto(r, "val", left[r] - 1)
                      ELSE Goto(r, "valmean", 0)
    /\ UNCHANGED grads

\* Mutant: the barrier after validation is inside "if rank == 0".
ValMeanBarrierOfRank0(r) ==
    /\ pc[r] = "valmean"
    /\ CASE r = Rank0 /\ ValBatches = 0 -> Goto(r, "EmptyStackError", 0)
         [] r = Rank0 /\ ValBatches > 0 -> Goto(r, "valbar", 0)
         [] OTHER -> Goto(r, IF SaveDue(step[r]) THEN "gather" ELSE "fetch", 0)
    /\ UNCHANGED <<step, inside, entered, grads, params, sched, finite,
                   gathered, alive, run, disk>>

\* Rank 0 stacks the losses, which no losses at all do not allow; the other
\* ranks go straight to the barrier.
ValMean(r) ==
    /\ pc[r] = "valmean"
    /\ IF r = Rank0 /\ ValBatches = 0 THEN Goto(r, "EmptyStackError", 0)
                                      ELSE Goto(r, "valbar", 0)
    /\ UNCHANGED <<step, inside, entered, grads, params, sched, finite,
                   gathered, alive, run, disk>>

\* Mutant: "elif": a step that was validated is not saved.
LeaveValBarrierNoSave(r) ==
    /\ Leave(r, "valbar")
    /\ Goto(r, "fetch", 0)
    /\ UNCHANGED grads

LeaveValBarrier(r) ==
    /\ Leave(r, "valbar")
    /\ Goto(r, IF SaveDue(step[r]) THEN "gather" ELSE "fetch", 0)
    /\ UNCHANGED grads

-----------------------------------------------------------------------------
(* save_checkpoint                                                         *)

\* Mutant: the barrier that ends save_checkpoint is inside "if rank == 0".
LeaveGatherBarrierOfRank0(r) ==
    /\ Leave(r, "gather")
    /\ Goto(r, CASE r = Rank0 -> "mkdir"
                 [] IsLast(step[r]) /\ r # Rank0 -> "done"
                 [] OTHER -> "fetch", 0)
    /\ UNCHANGED grads

LeaveGather(r) ==
    /\ Leave(r, "gather")
    /\ Goto(r, IF r = Rank0 THEN "mkdir" ELSE "savebar", 0)
    /\ UNCHANGED grads

Mkdir(r) ==
    /\ pc[r] = "mkdir"
    /\ dirs' = dirs \cup {step[r]}
    /\ Goto(r, "write", NParts)
    /\ UNCHANGED <<step, inside, entered, grads, params, sched, finite,
                   gathered, alive, run, file, remote>>

\* model.save_pretrained writes config.json and then the weights, and
\* tokenizer.save_pretrained the rest: one file per step of this action.
\* The weights are the shards as gathered from all ranks.  (fsdp2 writes
\* config.json once more, with the content it has.)
Stamp == [run |-> run, weights |-> gathered]
\* Mutant: the upload starts when the weights are there, before the rest.
WriteUploadEarly(r) ==
    /\ pc[r] = "write"
    /\ file' = [file EXCEPT ![step[r]][NParts - left[r] + 1] = Stamp]
    /\ IF left[r] > 2 THEN Goto(r, "write", left[r] - 1)
                      ELSE Goto(r, "upload", 0)
    /\ UNCHANGED <<step, inside, entered, grads, params, sched, finite,
                   gathered, alive, run, dirs, remote>>
\* Mutant: every checkpoint goes to the same directory.
WriteSamePath(r) ==
    /\ pc[r] = "write"
    /\ file' = [file EXCEPT ![1][NParts - left[r] + 1] = Stamp]
    /\ IF left[r] > 1 THEN Goto(r, "write", left[r] - 1)
                      ELSE Goto(r, IF Hdfs THEN "upload" ELSE "savebar", 0)
    /\ UNCHANGED <<step, inside, entered, grads, params, sched, finite,
                   gathered, alive, run, dirs, remote>>

Write(r) ==
    /\ pc[r] = "write"
    /\ file' = [file EXCEPT
                  ![step[r]][NParts - left[r] + 1] = Stamp]
    /\ IF left[r] > 1 THEN Goto(r, "write", left[r] - 1)
                      ELSE Goto(r, IF Hdfs THEN "upload" ELSE "savebar", 0)
    /\ UNCHANGED <<step, inside, entered, grads, params, sched, finite,
                   gathered, alive, run, dirs, remote>>

\* hdfs_io.copy: its return code is not looked at, so a failed command may
\* have copied any of the files.
Upload(r) ==
    /\ pc[r] = "upload"
    /\ \E copied \in SUBSET Part :
          remote' = [remote EXCEPT ![step[r]] =
              [i \in Part |-> IF i \in copied THEN file[step[r]][i] ELSE @[i]]]
    /\ Goto(r, "savebar", 0)
    /\ UNCHANGED <<step, inside, entered, grads, params, sched, finite,
                   gathered, alive, run, dirs, file>>

LeaveSaveBarrier(r) ==
    /\ Leave(r, "savebar")
    /\ Goto(r, IF IsLast(step[r]) THEN "done" ELSE "fetch", 0)
    /\ UNCHANGED grads

-----------------------------------------------------------------------------
RankStep(r) ==
    \/ Enter(r) \/ EnterNorm(r) \/ EnterGather(r)
    \/ Fetch(r) \/ LeaveMicro(r) \/ LeaveNorm(r) \/ OptimizerStep(r)
    \/ LeaveLoss(r)
    \/ LeaveVal(r) \/ ValMean(r) \/ LeaveValBarrier(r)
    \/ LeaveGather(r) \/ Mkdir(r) \/ Write(r) \/ Upload(r)
    \/ LeaveSaveBarrier(r)

\* A process dies, or an exception left it, and torchrun ends the others.
Crash ==
    /\ alive /\ \E r \in Rank : pc[r] # "done"
    /\ alive' = FALSE
    /\ UNCHANGED <<local, finite, gathered, run, disk>>

\* The same command is given again; nothing is read back from the disk.
Restart ==
    /\ \/ ~alive
       \/ \A r \in Rank : pc[r] = "done"
    /\ run < MaxRuns
    /\ alive' = TRUE
    /\ run' = run + 1
    /\ Fresh
    /\ UNCHANGED disk

\* The job is over and nobody starts it again.
Over ==
    /\ ~alive \/ \A r \in Rank : pc[r] = "done"
    /\ UNCHANGED vars

Next ==
    \/ alive /\ \E r \in Rank : RankStep(r)
    \/ Crash
    \/ Restart
    \/ Over

Spec == Init /\ [][Next]_vars

\* Every process keeps running while the job does: the operating system
\* schedules it and the collective library completes what all have entered.
FairSpec == Spec /\ \A r \in Rank : WF_vars(alive /\ RankStep(r))

-----------------------------------------------------------------------------
(* Properties                                                              *)

\* The type invariant.
TypeOK ==
    /\ pc \in [Rank -> Collective \cup Local \cup Stopped]
    /\ step \in [Rank -> {0} \cup Steps]
    /\ left \in [Rank -> Nat]
    /\ inside \in [Rank -> BOOLEAN]
    /\ entered \in [Rank -> Nat]
    /\ grads \in [Rank -> SUBSET (Steps \X Nat)]
    /\ params \in [Rank -> SUBSET Steps]
    /\ sched \in [Rank -> Nat]
    /\ finite \in SUBSET Steps
    /\ gathered \in [Rank -> SUBSET Steps]
    /\ alive \in BOOLEAN
    /\ run \in Nat
    /\ dirs \in SUBSET Steps
    /\ file \in [Steps -> [Part -> [run : Nat, weights : [Rank -> SUBSET Steps]]]]
    /\ remote \in [Steps -> [Part -> [run : Nat, weights : [Rank -> SUBSET Steps]]]]

\* The collective a rank is in or will enter next: <<stage, step, left>>.
\* The branches of fit() depend on nothing a rank does not share.
Upcoming(r) ==
    CASE pc[r] \in Collective -> <<pc[r], step[r], left[r]>>
      [] pc[r] = "optim" -> <<"loss", step[r], 0>>
      [] pc[r] \in {"valmean", "EmptyStackError"} -> <<"valbar", step[r], 0>>
      [] pc[r] \in {"mkdir", "write", "upload"} -> <<"savebar", step[r], 0>>
      [] pc[r] = "fetch" /\ step[r] + 1 \in Steps ->
             <<"micro", step[r] + 1, MicroBatches>>
      [] OTHER -> <<"end", step[r], 0>>

\* Two ranks inside a collective after the same number of them are in the
\* same one, at the same step and batch: rank 0's private work (averaging,
\* writing files), skipped updates and early exits never make one rank call
\* barrier() where another calls all_reduce().
CollectivesMatch ==
    \A p, q \in Rank :
        inside[p] /\ inside[q] /\ entered[p] = entered[q]
            => Upcoming(p) = Upcoming(q)

\* The steps whose optimizer.step() rank r has behind it are 1..Past(r).
Past(r) == IF pc[r] \in {"micro", "norm", "optim"} THEN step[r] - 1 ELSE step[r]

\* The sharded model is one model: each rank holds the updates of exactly
\* the steps with a finite norm it has passed, so ranks that skip an update
\* skip it together; the schedule counts every step, skipped or not.
ShardsAgree ==
    \A r \in Rank :
        /\ params[r] = finite \cap (1..Past(r))
        /\ sched[r] = Past(r)

\* What optimizer.step() applies is the gradient of all micro batches of
\* this step and of nothing else, also after a skipped update.
GradientsOfThisStep ==
    \A r \in Rank : pc[r] = "optim" =>
        grads[r] = {step[r]} \X (1..MicroBatches)

Whole(s, f) == \A i, j \in Part : f[s][i] = f[s][j]
Written(s) == s \in dirs /\ Whole(s, file) /\ file[s][1].run = run

\* A file this run wrote for step s holds the model as it was after step s
\* on every rank, although the other ranks wait only at the barrier.
CheckpointIsOneModel ==
    \A s \in Steps, i \in Part :
        file[s][i].run = run =>
            file[s][i].weights = [r \in Rank |-> finite \cap (1..s)]

\* No rank goes on beyond a step to save before its checkpoint is written.
NobodyPassesAnUnsavedStep ==
    alive => \A r \in Rank, s \in Steps :
        SaveDue(s) /\ (s < step[r] \/ (s = step[r] /\ pc[r] \in {"fetch", "done"}))
            => Written(s)

\* A step of the job never writes a file of a checkpoint it wrote before.
WrittenOnce ==
    [][\A s \in Steps, i \in Part :
          run' = run /\ file[s][i].run = run => file'[s][i] = file[s][i]]_vars

\* What this run uploaded comes from a checkpoint it had written to the end:
\* a file that is in HDFS is the one in the local directory.
RemoteFollowsLocal ==
    \A s \in Steps, i \in Part :
        remote[s][i].run = run => Written(s) /\ remote[s][i] = file[s][i]

\* A job that is left running runs fit() to its end on every rank.
FitReturns == <>[]alive => <>(\A r \in Rank : pc[r] = "done")

(* The job as the sequential program SequentialFit: its progress is that of *)
(* rank 0, which alone writes.                                              *)
OnDisk(s) ==
    LET weights == file[s][1].weights IN
    IF \A i \in Part : file[s][i] = NoFile THEN [is |-> "none", model |-> {}]
    ELSE IF Whole(s, file) /\ \A r \in Rank : weights[r] = weights[Rank0]
         THEN [is |-> "whole", model |-> weights[Rank0]]
         ELSE [is |-> "torn", model |-> {}]
Phase ==
    IF step[Rank0] = 0 \/ ~SaveDue(step[Rank0]) THEN "train"
    ELSE IF pc[Rank0] = "write" /\ left[Rank0] < NParts THEN "saving"
    ELSE IF pc[Rank0] \in {"micro", "norm", "optim", "fetch", "upload",
                           "savebar", "done"} THEN "train" ELSE "save"
Sequential ==
    INSTANCE SequentialFit WITH
        SaveAt <- SaveDue, taken <- Past(Rank0), model <- params[Rank0],
        phase <- Phase, saved <- [s \in Steps |-> OnDisk(s)]

\* The job on any number of ranks implements the sequential program.
ImplementsSequential == Sequential!Spec

=============================================================================
