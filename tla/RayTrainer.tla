----------------------------- MODULE RayTrainer -----------------------------
(***************************************************************************)
(* The checkpoints of the PPO trainer (verl/trainer/ppo/ray_trainer.py and *)
(* utils/checkpoint/).  One driver runs RayPPOTrainer.fit(); to save it    *)
(* calls the actor's workers, then the critic's, and each worker writes    *)
(* its own files; then the driver writes the position in the data and at   *)
(* last the tracker file with the number of the step.  Worker 0 of a role  *)
(* removes old checkpoints of its role before the new one is written.  The *)
(* job may die between any two of these steps; started again, it resumes   *)
(* from the step the tracker names, from one the operator names, or not.   *)
(***************************************************************************)
EXTENDS Integers, Sequences, FiniteSets

CONSTANTS
    Worker,           \* ranks of a worker group
    NFiles,           \* files each writes: model, optimizer, extra state
    UseCritic,        \* whether the algorithm has one
    MaxKeep,          \* MaxKeep[role]: max_<role>_ckpt_to_keep or NoLimit
    NoLimit,
    BatchesPerEpoch,  \* len(train_dataloader)
    TotalEpochs,      \* trainer.total_epochs
    TotalSteps,       \* total_training_steps
    SaveFreq,         \* trainer.save_freq
    Esi,              \* whether the capacity of the machines can expire
    Modes,            \* trainer.resume_mode, chosen anew for each run
    MaxRuns,          \* bound: how often the job is started
    None, Torn        \* no file; a file that is being written

Roles == IF UseCritic THEN <<"actor", "critic">> ELSE <<"actor">>
Role == {Roles[i] : i \in DOMAIN Roles}
File == 1..NFiles
\* A finished job that is run again takes one step more.
Steps == 1..(TotalSteps + MaxRuns)

ASSUME WorkerAssumption == IsFiniteSet(Worker) /\ Worker # {}
ASSUME CountAssumption ==
    /\ NFiles \in Nat \ {0} /\ BatchesPerEpoch \in Nat \ {0}
    /\ TotalEpochs \in Nat \ {0} /\ TotalSteps \in Nat \ {0}
    /\ SaveFreq \in Int /\ MaxRuns \in Nat \ {0} /\ Esi \in BOOLEAN
    /\ UseCritic \in BOOLEAN
    /\ Modes \subseteq {"auto", "resume_path", "disable"}
ASSUME KeepAssumption ==
    MaxKeep \in [Role -> (Nat \ {0}) \cup {NoLimit}] /\ NoLimit \notin Nat
ASSUME NothingAssumption ==
    /\ None # Torn
    /\ \A x \in {None, Torn} : x \notin Nat /\ x \notin Seq(Nat)

VARIABLES
    pc,       \* where the driver is
    step,     \* global_steps
    epoch, pos,  \* epochs begun by this run; batches of this one given out
    model,    \* model[role][w][f]: the updates in what w keeps in file f
    saving,   \* index in Roles of the role being saved
    at,       \* at[w]: openings and closings of files w has done
    kept,     \* kept[role]: previous_saved_paths of worker 0, as steps
    run, mode, auto,   \* the run, its resume_mode, all reruns were "auto"
    folder,   \* the global_step_<s> directories
    file,     \* file[s][role][w][f]: the updates in it, None or Torn
    data,     \* data[s]: the position in data.pt, None or Torn
    tracker   \* latest_checkpointed_iteration.txt: a step, None or Torn

memory == <<step, epoch, pos, model, saving, at, kept>>
disk == <<folder, file, data, tracker>>
vars == <<pc, step, epoch, pos, model, saving, at, kept, run, mode, auto,
          folder, file, data, tracker>>

All(x) == [w \in Worker |-> [f \in File |-> x]]
Now == Roles[saving]

IsLast == step >= TotalSteps
\* should_save_ckpt_esi: the time left is of the environment.
Expiring == {FALSE, Esi}
SaveDue(esi) == SaveFreq > 0 /\ (IsLast \/ step % SaveFreq = 0 \/ esi)

-----------------------------------------------------------------------------
Init ==
    /\ pc = "load" /\ step = 0 /\ epoch = 0 /\ pos = 0
    /\ model = [role \in Role |-> All(<<>>)]
    /\ saving = 1 /\ at = [w \in Worker |-> 0]
    /\ kept = [role \in Role |-> <<>>]
    /\ run = 1 /\ mode \in Modes \ {"resume_path"} /\ auto = TRUE
    /\ folder = {}
    /\ file = [s \in Steps |-> [role \in Role |-> All(None)]]
    /\ data = [s \in Steps |-> None]
    /\ tracker = None

\* The process starts with global_steps = 0 and the initial models.
Scratch ==
    /\ pc' = "train" /\ step' = 1
    /\ UNCHANGED <<epoch, pos, model, saving, at, kept, run, mode, auto, disk>>

\* Every worker loads its own files: a missing or torn one raises.
Loadable(s) ==
    \A role \in Role, w \in Worker, f \in File :
        file[s][role][w][f] \notin {None, Torn}

\* Mutant: the critic keeps its initial weights.
ResumeActorOnly(s) ==
    /\ Loadable(s) /\ data[s] # Torn
    /\ pc' = "train" /\ step' = s + 1
    /\ model' = [file[s] EXCEPT !["critic"] = All(<<>>)]
    /\ pos' = IF data[s] = None THEN 0 ELSE data[s]
    /\ UNCHANGED <<epoch, saving, at, kept, run, mode, auto, disk>>

\* The step after the folder's number; without a data.pt the data starts over.
Resume(s) ==
    /\ Loadable(s) /\ data[s] # Torn
    /\ pc' = "train" /\ step' = s + 1
    /\ model' = file[s]
    /\ pos' = IF data[s] = None THEN 0 ELSE data[s]
    /\ UNCHANGED <<epoch, saving, at, kept, run, mode, auto, disk>>

Raise ==
    /\ pc' = "failed"
    /\ UNCHANGED <<memory, run, mode, auto, disk>>

LoadFails(s) == ~(Loadable(s) /\ data[s] # Torn) /\ Raise

\* Mutant: the newest folder, whatever the tracker says.
LoadCheckpointNewest ==
    /\ pc = "load"
    /\ \/ mode = "disable" /\ Scratch
       \/ mode = "auto" /\ folder = {} /\ Scratch
       \/ /\ folder # {}
          /\ LET s == CHOOSE x \in folder : \A y \in folder : y <= x
             IN  Resume(s) \/ LoadFails(s)

\* find_latest_ckpt_path
LatestStep == IF tracker \in folder THEN tracker ELSE None

\* _load_checkpoint.  The tracker is read in both modes that resume, and an
\* empty one is no number.
LoadCheckpoint ==
    /\ pc = "load"
    /\ \/ mode = "disable" /\ Scratch
       \/ mode # "disable" /\ tracker = Torn /\ Raise
       \/ mode = "auto" /\ tracker # Torn /\ LatestStep = None /\ Scratch
       \/ /\ mode = "auto" /\ tracker # Torn /\ LatestStep # None
          /\ Resume(LatestStep) \/ LoadFails(LatestStep)
       \/ /\ mode = "resume_path" /\ tracker # Torn
          /\ \E s \in folder : Resume(s) \/ LoadFails(s)

-----------------------------------------------------------------------------
\* The end of an iteration of the loop over the data.
NextStep == pc' = (IF IsLast THEN "done" ELSE "train") /\ step' = step + 1

Updated == [role \in Role |-> [w \in Worker |->
               [f \in File |-> Append(model[role][w][f], run)]]]

Train ==
    /\ pc = "train" /\ pos < BatchesPerEpoch
    /\ pos' = pos + 1
    /\ model' = Updated
    /\ \E esi \in Expiring :
          \/ /\ SaveDue(esi)
             /\ pc' = "rotate" /\ saving' = 1 /\ UNCHANGED step
          \/ /\ ~SaveDue(esi)
             /\ NextStep /\ UNCHANGED saving
    /\ UNCHANGED <<epoch, at, kept, run, mode, auto, disk>>

\* The loop over the epochs starts at 0 in every run, wherever the data is.
EndOfEpoch ==
    /\ pc = "train" /\ pos = BatchesPerEpoch
    /\ pos' = 0 /\ epoch' = epoch + 1
    /\ pc' = IF epoch' = TotalEpochs THEN "done" ELSE "train"
    /\ UNCHANGED <<step, model, saving, at, kept, run, mode, auto, disk>>

-----------------------------------------------------------------------------
\* Mutant: as many are removed as there are too many once it is written.
ExcessLate(role) ==
    IF MaxKeep[role] # NoLimit /\ Len(kept[role]) > MaxKeep[role]
    THEN Len(kept[role]) - MaxKeep[role] ELSE 0

\* Mutant: all but the new one are removed.
ExcessAll(role) ==
    IF MaxKeep[role] # NoLimit /\ Len(kept[role]) >= MaxKeep[role]
    THEN Len(kept[role]) ELSE 0

\* keep_start: how many saved paths worker 0 gives up.
Excess(role) ==
    IF MaxKeep[role] # NoLimit /\ Len(kept[role]) >= MaxKeep[role]
    THEN Len(kept[role]) - MaxKeep[role] + 1 ELSE 0

\* Worker 0 removes old checkpoints, then all make the directory and meet.
Rotate ==
    /\ pc = "rotate"
    /\ LET gone == {kept[Now][i] : i \in 1..Excess(Now)}
       IN  file' = [s \in Steps |->
                      IF s \in gone THEN [file[s] EXCEPT ![Now] = All(None)]
                      ELSE file[s]]
    /\ kept' = [kept EXCEPT ![Now] = SubSeq(@, Excess(Now) + 1, Len(@))]
    /\ folder' = folder \cup {step}
    /\ at' = [w \in Worker |-> 0]
    /\ pc' = "write"
    /\ UNCHANGED <<step, epoch, pos, model, saving, run, mode, auto, data,
                   tracker>>

\* torch.save of the next file of worker w: opened, then complete.
WriteFile(w) ==
    /\ pc = "write" /\ at[w] < 2 * NFiles
    /\ at' = [at EXCEPT ![w] = @ + 1]
    /\ LET f == at[w] \div 2 + 1
       IN  file' = [file EXCEPT ![step][Now][w][f] =
                      IF at[w] % 2 = 0 THEN Torn ELSE model[Now][w][f]]
    /\ UNCHANGED <<pc, step, epoch, pos, model, saving, kept, run, mode, auto,
                   folder, data, tracker>>

\* Mutant: nobody waits for the other workers.
RoleSavedNoBarrier ==
    /\ pc = "write" /\ \E w \in Worker : at[w] = 2 * NFiles
    /\ kept' = [kept EXCEPT ![Now] = Append(@, step)]
    /\ \/ saving < Len(Roles) /\ saving' = saving + 1 /\ pc' = "rotate"
       \/ saving = Len(Roles) /\ UNCHANGED saving /\ pc' = "data"
    /\ UNCHANGED <<step, epoch, pos, model, at, run, mode, auto, disk>>

\* The last barrier; the next role, or the driver's own files.
RoleSaved ==
    /\ pc = "write" /\ \A w \in Worker : at[w] = 2 * NFiles
    /\ kept' = [kept EXCEPT ![Now] = Append(@, step)]
    /\ \/ saving < Len(Roles) /\ saving' = saving + 1 /\ pc' = "rotate"
       \/ saving = Len(Roles) /\ UNCHANGED saving /\ pc' = "data"
    /\ UNCHANGED <<step, epoch, pos, model, at, run, mode, auto, disk>>

OpenData ==
    /\ pc = "data"
    /\ data' = [data EXCEPT ![step] = Torn]
    /\ pc' = "dataopen"
    /\ UNCHANGED <<memory, run, mode, auto, folder, file, tracker>>

WriteData ==
    /\ pc = "dataopen"
    /\ data' = [data EXCEPT ![step] = pos]
    /\ pc' = "tracker"
    /\ UNCHANGED <<memory, run, mode, auto, folder, file, tracker>>

\* open(..., "w") empties the tracker.
OpenTracker ==
    /\ pc = "tracker"
    /\ tracker' = Torn
    /\ pc' = "trackeropen"
    /\ UNCHANGED <<memory, run, mode, auto, folder, file, data>>

WriteTracker ==
    /\ pc = "trackeropen"
    /\ tracker' = step
    /\ NextStep
    /\ UNCHANGED <<epoch, pos, model, saving, at, kept, run, mode, auto,
                   folder, file, data>>

-----------------------------------------------------------------------------
\* The job dies: preempted, out of memory, the disk is full.
Crash ==
    /\ pc \notin {"down", "failed", "done"} /\ run < MaxRuns
    /\ pc' = "down"
    /\ UNCHANGED <<memory, run, mode, auto, disk>>

\* It is started again, with a resume_mode; nothing is left in memory.
Restart ==
    /\ pc \in {"down", "failed", "done"} /\ run < MaxRuns
    /\ run' = run + 1
    /\ mode' \in Modes
    /\ mode' = "resume_path" => folder # {}
    /\ auto' = (auto /\ mode' = "auto")
    /\ pc' = "load" /\ step' = 0 /\ epoch' = 0 /\ pos' = 0
    /\ model' = [role \in Role |-> All(<<>>)]
    /\ saving' = 1 /\ at' = [w \in Worker |-> 0]
    /\ kept' = [role \in Role |-> <<>>]
    /\ UNCHANGED disk

Over == pc \in {"done", "failed", "down"} /\ run = MaxRuns /\ UNCHANGED vars

Work ==
    \/ LoadCheckpoint \/ Train \/ EndOfEpoch \/ Rotate \/ RoleSaved
    \/ (\E w \in Worker : WriteFile(w))
    \/ OpenData \/ WriteData \/ OpenTracker \/ WriteTracker

Next == Work \/ Crash \/ Restart \/ Over

Spec == Init /\ [][Next]_vars
FairSpec == Spec /\ WF_vars(Work) /\ WF_vars(Restart)
-----------------------------------------------------------------------------
(* Properties.                                                              *)
\* Step s is on the disk: s updates of one and the same history in all files
\* of both roles, and the position in the data that belongs to them.
Whole(s) ==
    /\ \E h \in {file[s]["actor"][w][1] : w \in Worker} :
          h \in Seq(Nat) /\ Len(h) = s /\ file[s] = [role \in Role |-> All(h)]
    /\ data[s] \in 1..BatchesPerEpoch
    /\ data[s] % BatchesPerEpoch = s % BatchesPerEpoch

\* Whatever the moment the job dies at, and however often it died before,
\* the tracker names a step that can be loaded, of both roles, all workers
\* and the data, unless it is empty or an operator interfered.  Saving,
\* rotation and the order of the driver's files must work together.
TrackerIsLoadable ==
    auto /\ tracker \notin {None, Torn} => Whole(tracker)

\* The updates the running models have behind them.
Done == IF pc \in {"train", "done"} THEN step - 1 ELSE step

\* A running job, resumed or not, is in a state of an uninterrupted one: all
\* shards of actor and critic share one history, as long as global_steps
\* says, and the next batch is the one that follows in the data.  When a
\* batch is taken, fewer than save_freq steps would be lost by a crash, also
\* in a run that resumed in the middle of a period.
ResumedAsIfNeverDied ==
    auto /\ pc \notin {"load", "down", "failed"} =>
        /\ \E h \in {model["actor"][w][1] : w \in Worker} :
              Len(h) = Done /\ model = [role \in Role |-> All(h)]
        /\ pos % BatchesPerEpoch = Done % BatchesPerEpoch
        /\ pc = "train" /\ SaveFreq > 0 =>
              Done - (IF tracker = None THEN 0 ELSE tracker) \in 0..(SaveFreq - 1)

\* max_ckpt_to_keep bounds what each run leaves, at every moment of saving;
\* what earlier runs left is not counted (the list is in memory).
KeptPerRun ==
    \A role \in Role : MaxKeep[role] # NoLimit =>
        Cardinality({s \in Steps : file[s][role] # All(None)})
            <= run * MaxKeep[role]

AWorker == CHOOSE w \in Worker : TRUE
Committed == IF tracker = None THEN <<>>
             ELSE IF tracker = Torn THEN Torn
             ELSE file[tracker]["actor"][AWorker][1]
Model == IF pc \in {"load", "down", "failed"} THEN Committed
         ELSE model["actor"][AWorker][1]

Job == INSTANCE RecoverableJob WITH
           model <- Model, committed <- Committed, Unknown <- Torn

\* The trainer with its files and workers implements the job that carries on
\* with exactly what it last committed.
ImplementsRecoverableJob == Job!Spec

\* A job that is started again whenever it dies, and in the end does not die
\* any more, gets to its last step, unless it died while the tracker was
\* empty or an operator interfered.
JobIsFinished ==
    [](auto /\ ~(pc = "down" /\ tracker = Torn)) => <>[](pc = "done")
=============================================================================
