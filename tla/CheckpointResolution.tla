------------------------ MODULE CheckpointResolution ------------------------
(***************************************************************************)
(* resolve_model_path of scripts/eval_math.sh, which decides which weights *)
(* of a training job (SFTTrainer) are evaluated.                           *)
(***************************************************************************)
EXTENDS SFTTrainer, FiniteSetsExt

BasePath == 0
HasConfig(s) == file[s][1] # NoFile

\* Mutant: "head -n 1" in place of "tail -n 1".
ResolveFirst ==
    IF dirs # {} /\ HasConfig(Min(dirs)) THEN Min(dirs) ELSE BasePath

\* The last global_step_* directory if it has a config.json, else the path
\* that was given, which is no checkpoint.
ResolveModelPath ==
    IF dirs # {} /\ HasConfig(Max(dirs)) THEN Max(dirs) ELSE BasePath

\* All files are there, of one model; os.makedirs alone makes no checkpoint.
Loadable(s) == s \in dirs /\ HasConfig(s) /\ Whole(s, file)

\* After a job has taken its last step and ended, what is evaluated is the
\* model as that run left it, whatever earlier runs left in the directory.
FinishedJobIsEvaluated ==
    (\A r \in Rank : pc[r] = "done" /\ step[r] \in Steps /\ IsLast(step[r])) =>
        /\ ResolveModelPath = step[Rank0]
        /\ Written(ResolveModelPath)
        /\ file[ResolveModelPath][1].weights = params

\* README.md:98: "The evaluation script resolves the latest global_step_*
\* checkpoint automatically": when the job is over and there is a checkpoint
\* of it, one is found.
LatestCheckpointIsFound ==
    (~alive /\ \E s \in Steps : Loadable(s)) => ResolveModelPath # BasePath

=============================================================================
