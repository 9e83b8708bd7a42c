---------------------------- MODULE EvalPipeline ----------------------------
(***************************************************************************)
(* math_evaluation/math_eval.py and evaluate.py: for each data set a main  *)
(* process splits the examples among one worker per GPU, waits for them,   *)
(* merges the files they wrote and scores the merged answers.  The output  *)
(* directory outlives the run, and the next run, of another model perhaps  *)
(* and on another number of GPUs, finds in it what the last one left.      *)
(*                                                                         *)
(* An example is its idx.  An answer is known by its example, the run that *)
(* produced it and its number among the n_sampling answers.                *)
(***************************************************************************)
EXTENDS Integers, Sequences, FiniteSets

CONSTANTS
    NData,       \* data sets in --data_names
    N,           \* examples in a data set
    K,           \* n_sampling
    Worlds,      \* numbers of CUDA devices a run may find
    MaxRuns,     \* bound: how often the evaluation is started
    None

ASSUME SizeAssumption ==
    /\ {NData, N, K, MaxRuns} \subseteq Nat \ {0} /\ None \notin Nat
    /\ Worlds # {} /\ Worlds \subseteq Nat \ {0} /\ IsFiniteSet(Worlds)

Data == 1 .. NData
Example == 1 .. N
Rank == UNION {0 .. w - 1 : w \in Worlds}

VARIABLES
    run, world,  \* the running evaluation and its device count
    blank,       \* examples in which parse_question finds no question
    pc,          \* where the main process is
    data,        \* the data set it works on
    worker,      \* worker[r]: what process r does
    died,        \* history: data sets for which a worker of this run died
    file,        \* file[d][r]: {d}_results_rank_{r}.json
    next,        \* the rank whose file is merged next
    merged,      \* all_samples, by idx: the run an example's answers are from
    scores,      \* the verdicts, each with the answer it is about
    metrics      \* metrics[d]: {d}_metrics.json, with the samples it is about

vars == <<run, world, blank, pc, data, worker, died, file, next, merged, scores, metrics>>
work == <<worker, died, file>>
job == <<run, world, blank>>

\* An exception left the main process, or everything was killed.
Ended == {"done", "failed", "AssertionError", "killed"}

Idle == [r \in Rank |-> "off"]

\* A file that was opened and is not written yet holds no JSON.
Opened == [run |-> run, examples |-> {}, whole |-> FALSE]

Init ==
    /\ run = 1 /\ world \in Worlds /\ blank \in SUBSET Example
    /\ pc = "start" /\ data = 1
    /\ worker = Idle /\ died = {}
    /\ file = [d \in Data |-> [r \in Rank |-> None]]
    /\ next = 0 /\ merged = <<>> /\ scores = <<>>
    /\ metrics = [d \in Data |-> None]

-----------------------------------------------------------------------------

(* The main process hands out the examples.                                *)

\* Mutant: the last rank gets no more than the others.
ChunkWithoutRest(r) == ((r * (N \div world)) + 1) .. ((r + 1) * (N \div world))

\* Equal slices, and the rest for the last rank.
Chunk(r) ==
    LET size == N \div world IN
    ((r * size) + 1) .. (IF r = world - 1 THEN N ELSE (r + 1) * size)

Spawn ==
    /\ pc = "start"
    /\ worker' = [r \in Rank |-> IF r < world THEN "running" ELSE "off"]
    /\ pc' = "join"
    /\ UNCHANGED <<job, data, died, file, next, merged, scores, metrics>>

(* A worker has answered the examples of its chunk that hold a question    *)
(* and opens its file; it is empty until the answers are written.          *)
OpenFile(r) ==
    /\ worker[r] = "running"
    /\ worker' = [worker EXCEPT ![r] = "writing"]
    /\ file' = [file EXCEPT ![data][r] = Opened]
    /\ UNCHANGED <<job, pc, data, died, next, merged, scores, metrics>>

WriteFile(r) ==
    /\ worker[r] = "writing"
    /\ worker' = [worker EXCEPT ![r] = "exited"]
    /\ file' = [file EXCEPT ![data][r] =
                   [run |-> run, examples |-> Chunk(r) \ blank, whole |-> TRUE]]
    /\ UNCHANGED <<job, pc, data, died, next, merged, scores, metrics>>

(* A worker dies before it has answers or while it writes them.            *)
WorkerDies(r) ==
    /\ worker[r] \in {"running", "writing"}
    /\ worker' = [worker EXCEPT ![r] = "died"]
    /\ died' = died \cup {data}
    /\ UNCHANGED <<job, pc, data, file, next, merged, scores, metrics>>

\* Mutant: the main process waits for results, not for exits.
JoinResults ==
    /\ pc = "join"
    /\ \A r \in Rank : r < world => worker[r] = "exited"
    /\ pc' = "merge" /\ next' = 0 /\ merged' = <<>>
    /\ UNCHANGED <<job, data, work, scores, metrics>>

(* p.join() for all of them; nobody looks at their exit codes.             *)
Join ==
    /\ pc = "join"
    /\ \A r \in Rank : worker[r] \notin {"running", "writing"}
    /\ pc' = "merge" /\ next' = 0 /\ merged' = <<>>
    /\ UNCHANGED <<job, data, work, scores, metrics>>

-----------------------------------------------------------------------------

(* merge_results                                                           *)

\* Samples with the idx of an earlier one take its place when evaluate()
\* makes a dict of them.
MergedWith(f) ==
    [i \in f.examples \cup DOMAIN merged |->
        IF i \in f.examples THEN f.run ELSE merged[i]]

\* Mutant: the file is left where it is.
MergeKeeping ==
    /\ pc = "merge" /\ next < world
    /\ LET f == file[data][next] IN
        /\ f # None /\ f.whole
        /\ merged' = MergedWith(f)
    /\ next' = next + 1
    /\ UNCHANGED <<job, pc, data, work, scores, metrics>>

\* One file is read and removed.
MergeFile ==
    /\ pc = "merge" /\ next < world
    /\ LET f == file[data][next] IN
        /\ f # None /\ f.whole
        /\ merged' = MergedWith(f)
        /\ file' = [file EXCEPT ![data][next] = None]
    /\ next' = next + 1
    /\ UNCHANGED <<job, pc, data, worker, died, scores, metrics>>

(* The file is not there, or is no JSON: the exception ends the run.       *)
MergeFails ==
    /\ pc = "merge" /\ next < world
    /\ \/ file[data][next] = None
       \/ file[data][next] # None /\ ~file[data][next].whole
    /\ pc' = "failed"
    /\ UNCHANGED <<job, data, work, next, merged, scores, metrics>>

(* All files are merged; evaluate() asserts that there are samples.        *)
StartScoring ==
    /\ pc = "merge" /\ next = world
    /\ pc' = IF DOMAIN merged = {} THEN "AssertionError" ELSE "score"
    /\ scores' = <<>>
    /\ UNCHANGED <<job, data, work, next, merged, metrics>>

-----------------------------------------------------------------------------

(* evaluate                                                                *)

\* The samples in the order of their idx, and all answers in that order.
Samples ==
    [i \in 1 .. Cardinality(DOMAIN merged) |-> CHOOSE x \in DOMAIN merged :
        Cardinality({y \in DOMAIN merged : y <= x}) = i]

NAnswers == Len(Samples) * K

Answer(n) == <<Samples[((n - 1) \div K) + 1], ((n - 1) % K) + 1>>

\* Mutant: an answer that takes too long to compare gets no verdict.
VerdictOrNone ==
    /\ pc = "score" /\ next < world + NAnswers
    /\ next' = next + 1
    /\ \/ scores' = Append(scores, Answer(next - world + 1))
       \/ scores' = scores
    /\ UNCHANGED <<job, pc, data, work, merged, metrics>>

Verdict ==
    /\ pc = "score" /\ next < world + NAnswers
    /\ next' = next + 1
    /\ scores' = Append(scores, Answer(next - world + 1))
    /\ UNCHANGED <<job, pc, data, work, merged, metrics>>

(* Any other exception of the comparison leads to exit().                  *)
VerdictFails ==
    /\ pc = "score" /\ next < world + NAnswers
    /\ pc' = "failed"
    /\ UNCHANGED <<job, data, work, next, merged, scores, metrics>>

\* The verdicts sample number s is given.
SliceOf(s) == SubSeq(scores, ((s - 1) * K) + 1, IF s * K < Len(scores) THEN s * K
                                                 ELSE Len(scores))

(* The verdicts are dealt out, each sample asserts that it got as many as  *)
(* it has answers, and the metrics are written.  Then the next data set.   *)
Report ==
    /\ pc = "score" /\ next = world + NAnswers
    /\ IF \E s \in DOMAIN Samples : Len(SliceOf(s)) # K
       THEN /\ pc' = "AssertionError"
            /\ UNCHANGED <<metrics, data, next>>
       ELSE /\ metrics' = [metrics EXCEPT ![data] =
                   [run |-> run, samples |-> merged,
                    scores |-> {<<Samples[s], SliceOf(s)>> : s \in DOMAIN Samples}]]
            /\ pc' = IF data < NData THEN "start" ELSE "done"
            /\ data' = IF data < NData THEN data + 1 ELSE data
            /\ next' = 0
    /\ worker' = Idle
    /\ UNCHANGED <<job, died, file, merged, scores>>

-----------------------------------------------------------------------------

(* The job is killed with all its processes.                               *)
Kill ==
    /\ pc \notin Ended
    /\ pc' = "killed" /\ worker' = Idle
    /\ UNCHANGED <<job, data, died, file, next, merged, scores, metrics>>

(* The script is called again with the same output directory.              *)
Restart ==
    /\ pc \in Ended /\ run < MaxRuns
    /\ run' = run + 1 /\ world' \in Worlds
    /\ pc' = "start" /\ data' = 1
    /\ worker' = Idle /\ died' = {}
    /\ next' = 0 /\ merged' = <<>> /\ scores' = <<>>
    /\ UNCHANGED <<blank, file, metrics>>

Over == pc \in Ended /\ run = MaxRuns /\ UNCHANGED vars

Work ==
    \/ Spawn \/ Join \/ MergeFile \/ MergeFails \/ StartScoring
    \/ Verdict \/ VerdictFails \/ Report
    \/ \E r \in Rank : OpenFile(r) \/ WriteFile(r) \/ WorkerDies(r)

Next == Work \/ Kill \/ Restart \/ Over

Spec == Init /\ [][Next]_vars

\* The operating system schedules the processes, and each generation ends.
FairSpec == Spec /\ WF_vars(Work)

-----------------------------------------------------------------------------

\* What a run whose workers all survived reports on a data set is about
\* every question once and about its own answers only, whatever earlier runs
\* left in the directory and however the examples divide among the GPUs.
EveryExampleOnce ==
    \A d \in Data :
        metrics[d] # None /\ metrics[d].run = run /\ d \notin died
            => metrics[d].samples = [i \in Example \ blank |-> run]

\* Every sample is scored, by the verdicts on its own answers in their order:
\* Avg@k and Pass@k depend on it.  A comparison that times out gives a verdict
\* too: the assertions of evaluate.py (lines 15 and 59) fail at most when a
\* worker died or the data set holds no question at all.
ScoresBelongToSamples ==
    /\ \A d \in Data : metrics[d] # None => metrics[d].scores =
          {<<i, [j \in 1 .. K |-> <<i, j>>]>> : i \in DOMAIN metrics[d].samples}
    /\ pc = "AssertionError" => data \in died \/ blank = Example

\* A run that reached its summary has reported on every data set itself and
\* leaves no file a later run could take for one of its own.
NothingLeftBehind ==
    pc = "done" => \A d \in Data :
        /\ metrics[d].run = run
        /\ \A r \in Rank : file[d][r] # None => file[d][r].run # run

\* merge_results, line 131, "merge the results of all processes": metrics
\* are about answers of the run that reports them.
MetricsOfThisRun ==
    \A d \in Data : metrics[d] # None =>
        \A i \in DOMAIN metrics[d].samples : metrics[d].samples[i] = metrics[d].run

\* Every run comes to an end, also when workers die or a file is missing.
EvaluationEnds == pc \notin Ended ~> pc \in Ended

=============================================================================
