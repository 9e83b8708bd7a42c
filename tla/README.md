# PriFT in TLA+

PriFT fine-tunes language models with a loss that weights every token by what a
frozen reference model thinks of it, on top of a vendored copy of the verl
library, and evaluates the result on mathematics benchmarks.  This directory
holds TLA+ models of the concurrent and stateful parts of that code, TLC
configurations that check them on small instances, and TLAPS proofs about them
for every instance.  `PROJECT.json` maps every definition to the lines of code
it stands for, and lists the runs, the mutants that show each property can fail,
the hazards and the theorems.

Paths below are relative to the root of the repository.

## 1. The system

### Parts, state, operations

| Part | State | Operations | What is hard about it | What makes it correct |
|---|---|---|---|---|
| **Fine-tuning job** `verl/verl/trainer/fsdp_dft_trainer.py` | per process: position in `fit()`, step counter, gradients, a shard of the weights, learning-rate schedule; shared: the checkpoint directory and its copy in HDFS | `fit`, `training_step`, `validation_step`, `save_checkpoint` | one process per GPU that meet only in collectives; rank 0 does private work in between; updates may be skipped; the checkpoint is written in place, file by file; no resume | ranks always meet in the same collective; shards stay one model; a checkpoint is one model; nobody passes a checkpoint that is due; the job equals a sequential one |
| **Choice of the checkpoint** `scripts/eval_math.sh` | none; reads the directory | `resolve_model_path` | what crashes and reruns leave behind | the weights evaluated are those of the job that finished |
| **Token weights** `verl/verl/trainer/prift_weights.py`, `_reference_weights` | loop counters, running sums, the list of weights | reference forward per slice of the batch, lower mass per slice of the vocabulary | slices that do not divide, are null, negative or too large; ties; underflow | slicing changes nothing; weights respect the order of probabilities |
| **Token loss** `_compute_loss_and_backward` | per rank: sums, token counts | mask, weight, `all_reduce`, scale | uneven token counts, ranks without tokens, sequence parallelism | the averaged loss is the mean over all tokens; no method silently trains as another |
| **Chat completion scheduler** `verl/verl/workers/rollout/chat_scheduler.py` | per conversation: its request, the counter of ongoing requests, its messages, its done event; an LRU cache from requests to servers; the servers' counts | `generate_sequences`, `submit_chat_completions`, the callback with its tools | hundreds of tasks of one event loop, interleaved at every `await`; a cache of bounded size; requests and tools that fail | balance, stickiness, done exactly when quiet, every batch ends |
| **Mathematics evaluation** `math_evaluation/math_eval.py`, `evaluate.py` | per data set: the files of the workers, merged samples, verdicts, metrics | split, generate, join, merge, score, report | workers that die, kills and reruns in one output directory, comparisons that time out | every question once, verdicts with their own samples, metrics about the run that writes them |
| **PPO checkpoints** `verl/verl/trainer/ppo/ray_trainer.py`, `utils/checkpoint/` | step folders, the files of every worker of two roles, `data.pt`, the tracker file, the list of kept folders | save, rotate, resume in three modes | a crash between any two of these, reruns of reruns | the tracker never names what is not there; a resumed job is one that never died |
| **Training batches** `ray_trainer.py`, `workers/fsdp_workers.py`, `workers/actor/dp_actor.py`, `critic/dp_critic.py`, the sharding managers | the driver's rows, each rank's rows and micro batches, shards, what is on the device | the remote calls of one iteration | rows are reordered, repeated, padded, grouped, cut and put back; every rank must run the model equally often; the reward function runs beside | results are with their rows; each trajectory is trained on; nobody waits in a collective alone |
| **Worker groups and dispatch** `single_controller/`, `protocol.py`; **sequence length balancing** `utils/seqlen_balancing.py` | none | pure functions | batches that do not divide, boundaries | what is collected is what was sent, in order; partitions are complete and level |
| **Agent loops** `verl/verl/experimental/agent_loop/` | tokens and mask of a conversation, turns, server counts and cache, tool instances | choose a server, run a loop, postprocess | many tasks on one event loop, evictions, tools that fail, responses cut anywhere | only generated tokens train; requests fit; everything is given back |
| **Tool rate limiting** `verl/verl/tools/search_tool.py`, `sandbox_fusion_tools.py` | tokens of a named actor, threads of pools | acquire, release, execute | two concurrency groups, failures between acquire and release | no token is lost or made |
| The rest: PPO arithmetic, Megatron workers, rollout servers, models, data sets, rewards, graders, examples | | | device code, real-valued tensors, text, services | see section 7 |

### How they interact

The job writes `global_step_<n>` directories; `resolve_model_path` picks one; the
evaluation pipeline loads it in one worker per GPU.  Nothing but the file system
ties these three together, so the models of the first two share the disk
(`CheckpointResolution` extends `SFTTrainer`) and the third treats "which model"
as the number of the run.  Inside the job, `training_step` calls the token loss,
which calls the token weights; both are models of their own because the job only
depends on one of their results, whether the gradient norm is finite.

verl's side is a stack.  The PPO trainer's `fit()` is modelled twice, because
its two hard parts do not touch: `RayTrainer` is the loop with its checkpoints,
one update being a step, and `TrainingBatch` is what one iteration of the loop
does with the rows, on top of `DataProto` and `SeqlenBalancing`.  The agent
loops generate the responses of such a batch; they call tools, which share the
rate limiter, so `AgentLoop` is composed with `RateLimiter` and its properties
are about both.  The chat completion scheduler is the older way to generate.
None of these belongs to PriFT's own scripts, which use verl for the fine-tuning
job only.

## 2. Modules

In the order in which they were written, the most important behaviour first.

| Module | What it is | Code |
|---|---|---|
| `SFTTrainer` | the SPMD job, its crashes and reruns, and its properties | `fsdp_dft_trainer.py` |
| `SequentialFit` | abstract: one program that takes the steps in order and saves | what `fit()` promises |
| `CheckpointResolution` | extends `SFTTrainer` by the choice of a checkpoint | `scripts/eval_math.sh` |
| `SFTTrainerProofs` | theorems about the job, its checkpoints, their evaluation, and that it implements `SequentialFit` | |
| `TokenWeights`, `TokenLoss`, `TokenProofs` | the two loops over slices; the loss on all ranks; theorems about both | `prift_weights.py`, `fsdp_dft_trainer.py` |
| `ChatScheduler`, `ChatSchedulerProofs` | the conversations of consecutive batches; theorems | `chat_scheduler.py` |
| `EvalPipeline`, `EvalPipelineProofs` | main process and workers over several data sets and runs; theorems | `math_eval.py`, `evaluate.py` |
| `RayTrainer`, `RayTrainerProofs` | the PPO job with its checkpoints, crashes and reruns; theorems | `ray_trainer.py`, `utils/checkpoint/` |
| `RecoverableJob` | abstract: a job that carries on with what it last committed | what checkpoints promise |
| `RateLimiter` | the token bucket actor and the pools that use it | `search_tool.py`, `sandbox_fusion_tools.py` |
| `AgentLoop`, `AgentLoopProofs` | manager, workers and conversations, with an instance of `RateLimiter`; theorems | `experimental/agent_loop/` |
| `DataProto`, `SeqlenBalancing` | pure operators: chunk, split, repeat, pad, unpad; the differencing method, the reverse index | `protocol.py`, `seqlen_balancing.py` |
| `TrainingBatch`, `TrainingBatchProofs` | driver and ranks over iterations of PPO; theorems, also about the balancing | `ray_trainer.py`, `fsdp_workers.py`, `dp_actor.py`, `dp_critic.py` |
| `SumTheorems` | what several proofs need: induction stated with sets, sums over finite sets | |
| `MC...` | values for the constants | |

Definitions named after a fault (`ValMeanBarrierOfRank0`, `LeastByAddress`, ...)
stand before the definition they are a faulty form of.  No specification uses
them: each is substituted for the right one to see that a property fails.

### `SFTTrainer`

`pc[r]` is the position of rank r in `fit()`: the collectives `micro` (forward
and backward of a micro batch), `norm` (`clip_grad_norm_`), `loss`
(`all_reduce`), `val` (a validation batch), `valbar` and `savebar` (barriers),
`gather` (full state dict), and the stretches between them that touch nothing
shared, `fetch`, `optim`, `valmean`, `mkdir`, `write`, `upload`.

A collective is entered (`Enter...`) and left (`Leave...`) in separate steps.  A
rank leaves when every rank has entered as many collectives as it has; that is
all the collective library guarantees when calls match, and what it does when
they do not match is what `CollectivesMatch` is about.  Weights are sets: `params[r]`
holds the steps whose update is in r's shard, so "these shards are one model"
is an equation.  The norm becomes finite or not when the last rank contributes.
A checkpoint is `NParts` files, the first of which is `config.json`; each records
the run that wrote it and the shards it was made from.  `Crash` may come between
any two steps.  `Restart` gives the same command again: nothing is read back.

`ValMean` keeps a detail that is easily lost: rank 0 stacks the validation
losses, which raises on an empty loader, while the other ranks go to the barrier.

### `TokenWeights`, `TokenLoss`

`exp(logit - max)` is a small natural number: weights depend on the order of these
values, their sums, their ties and their underflow to 0, and on nothing else.
`StreamChunk` is one turn of the loop over the vocabulary, `Prob` and `Mass` one
turn of the loop over the batch.  The denominator of a weight is kept, so all
comparisons are between integers.  In `TokenLoss` probabilities are multiples of
`1/One`, and `WeightOf` takes the one the method weights by.  A rank computes, all reduce,
each scales; groups of ranks that share a batch model sequence parallelism.

### `ChatScheduler`

All tasks share one event loop, so an action is a stretch between two `await`s.
A conversation has one request in flight, and `_submit_chat_completions_and_callback`
with its nested callback becomes: `Begin` (task created), `First` or `Follow`
(choice of the server, up to the `await` of the request), `Lose` (the assertion on
the cache), `Error`, `Stop`, `CallTools` (the request is over, up to the `await` of
`gather`), `ToolReturns`, `ToolRaises`.  The heap is its top, `Least`; the LRU cache
is a sequence.  `messages` is the length of the message list, which is what the
code compares with `max_assistant_turns`.

### `EvalPipeline`

A worker opens its file (`OpenFile`), and the file holds no JSON until it is
written (`WriteFile`); a worker may die before or in between, and `setup` does not
look.  `MergeFile` reads and removes one file and raises on one that is missing or
cut off.  `Verdict` is one comparison; one that times out still has a verdict.
Examples without a question are dropped by every run in the same way (`blank`).
`Restart` may find another number of GPUs.

### `RayTrainer`

One driver, so `pc` is where `fit()` is; in `write` the workers of a role are at
`at[w]`, each file being opened (`Torn`) and then complete.  `Rotate` is worker 0's
removal of old folders and the barrier, `RoleSaved` the last barrier; then
`data.pt` and the tracker, each opened before it is written.  A model is the
sequence of the runs that computed its updates, so "the same history in all files
of both roles" is an equation.  `Restart` chooses a `resume_mode` anew; `auto`
remembers whether an operator ever interfered.  The list of saved paths, `kept`, is in
memory and gone with the process.

### `AgentLoop`, `RateLimiter`

A token is `p`, `g` or `t`, by where it came from; nothing else about it matters to
the mask.  A conversation is `new`, `sent`, `tools`, `over` or `raised`; every action is
what its task does between two awaits: `Start`, `LastAnswer`, `CallTools` (the
answer is parsed, the instances are created and the calls sent), `ToolOver`,
`Gathered` (the tokens of the tools, the checks of the turn, the next request).
`Row` is the output and its padding.  In `RateLimiter` a call is `sent` to a pool,
`acquiring` once a thread has it, `running` under a token, then `ok` or `failed`
until its caller collects it.  `mailbox` is the queue of the actor's only
thread for `acquire`; `Release` is served beside it.  Both tools find the actor by
one name, so the limit is that of whoever came first.

### `TrainingBatch`

`phase` is the remote call the driver is at.  `Call` pads and chunks the rows for the
ranks; `End...` collects, unpads and joins the results.  On a rank: `Load`,
`Sync` (weights to the inference engine), `Gather` (rows of the group of tensor or
sequence parallelism), `Generate`, `PlanDynamic` or `PlanFixed` (micro batches),
`Forward`, `Step`, `GiveBack` (reverse the order, own piece, offload).  Steps that
are collectives of the whole world (`Sync`, `PlanDynamic`, `Forward`, `Step`) need
every rank to be there; a rank that has fewer micro batches than another would
leave it alone, which is what `IterationEnds` excludes.  A row remembers which
response each result was computed for, and with which versions of the shards.

## 3. Runs

| Run | Configuration | Question and answer |
|---|---|---|
| `sft_spmd` | `SFTTrainer.cfg` | Does a job of two ranks stay in step, write checkpoints that are one model, behave like the sequential program and get to the end of `fit()`, whatever updates are skipped, wherever it crashes, when it is run again?  And does the evaluation find its model?  Yes. |
| `resolve_latest` | `ResolveLatest.cfg` | Is the latest checkpoint always found, as `README.md:98` says?  **No**: finding 1. |
| `tokens` | `TokenWeights.cfg` | Does slicing change a weight, or the 0/1 weights contradict the order of probabilities?  No. |
| `token_loss` | `TokenLoss.cfg` | Is the averaged loss the mean over all unmasked tokens of all ranks?  Yes. |
| `token_loss_dft` | `TokenLossDft.cfg` | Does every combination train with the method it names?  **No**: finding 2. |
| `chat` | `ChatScheduler.cfg` | With a cache that is too small for one batch and large enough for the next: balance, stickiness, the done event, no running conversation lost where the cache is large enough, and every batch that loses none ends.  They hold. |
| `eval` | `EvalPipeline.cfg` | Every question once, verdicts with their samples, no stray files, every run ends.  They hold where workers survive. |
| `eval_stale` | `EvalStale.cfg` | Are metrics about the run that writes them?  **No**: finding 3. |
| `ppo` | `RayTrainer.cfg` | Can what the tracker names be loaded at every moment, does a resumed job continue as if it had never died, does rotation keep its bound, and does a job that is restarted finish?  Yes, with two checkpoints to keep or more. |
| `agent` | `AgentLoop.cfg` | Are tokens of the limiter, tool instances and servers given back whatever fails, do requests fit, and is exactly what a server generated trained on?  Yes. |
| `batch` | `TrainingBatch.cfg` | Through dispatch, groups, micro batches and back: are results with their rows, is every trajectory trained on, is device memory given back, is the work level, and does every rank come to every collective?  Yes, where the ranks divide the prompts. |
| `batch_budget` | `TrainingBatchBudget.cfg` | Does a micro batch hold at most `max_token_len` tokens, as its documentation says?  **No**: finding 4. |

### Bounds, and why they are enough

* `sft_spmd`: two ranks are enough for rank 0 and another to be apart, and the
  order of two others among themselves changes nothing shared (the theorems are
  for any number).  Two epochs of two steps with a limit of three: the job stops in
  the middle of an epoch; `test_freq = save_freq = 2`: a step with neither
  validation nor save, one with both by frequency, one with both as the last.
  Two micro batches, so there is one that is not the last.  Two files, so a
  checkpoint can be half written.  Two runs, so a file can be of another run.
* `tokens`: three rows and slices of two; three tokens with ties at the top, below
  the top and everywhere, and with a value that underflowed; slices that are null,
  negative, not a divisor and too large.
* `token_loss`: two ranks with two positions each, cross entropy in {0, 1}, every mask: a
  rank without tokens is next to one with two.  The target has probability 0, 1/2 or 1
  under the online model and the rest of 1 under the reference, so `dft` and `prift_prob`
  give different, also fractional, weights; those of `prift_mass` are 0 and 1.
* `chat`: three conversations, the third in a second batch, and a cache of one
  entry: the first batch evicts its own entries, the second finds room; up to two
  tools an answer, `MaxTurns = 5` ends conversations.
* `eval`: three examples on two GPUs (slices of one and two) and on four (slices of
  none, and all of them on the last), two answers, two data sets, two runs.
* `ppo`: two workers per role, so the files of one can be there without the other's;
  two checkpoints of the actor to keep and three of the critic, so they rotate at
  different times; epochs of two steps and `save_freq` 2 with three steps, and machines
  that expire: saves in and out of the rhythm.  Three runs, so a rerun can itself
  die.  One file per worker, because opening and closing it are already two steps.
* `agent`: on the first worker a conversation with tools beside a single turn, on the
  second a single turn.  Two tool calls at a time through two pools of one thread,
  a limit of one if the search comes first, of two if the sandbox does.  Responses
  of three tokens and tool messages of up to two: a tool message can pass the end,
  and answers of several lengths can.  Two servers and a cache for two.
* `batch`: six configurations, chosen at the start: two ranks with three responses to
  each prompt, two epochs, dynamic micro batches and validation of three rows (which
  two ranks do not divide); four ranks in groups of two for tensor and sequence
  parallelism of the actor but not of the critic, with a short last mini batch, fixed and
  dynamic; two iterations, so that the second generates with updated weights; and one
  prompt for two ranks with and without automatic padding.  Lengths differ by one
  and by two, around a budget of four.

Deadlock checking is off only in `chat`, where a lost task really leaves the system
waiting forever.  The other specifications have an explicit step for "over".

### Fairness

* `sft_spmd`, weak fairness of every rank's step while the job is alive: the
  operating system schedules each process, and a collective all have entered
  completes.  A crash is never required, and `FitReturns` is about jobs that are
  left alive from some moment on.
* `chat`, weak fairness of every conversation's step and of `Return`: the event
  loop runs each ready task, a request is answered or raises, a tool returns or
  raises.  The tools of the repository have timeouts.
* `eval`, weak fairness of the whole of `Work`: while a run is not over some process
  of it moves.  It says nothing about which, so a step that keeps being
  possible may be put off, but only finitely long, because each takes work away.
* `ppo`, weak fairness of `Work` and of `Restart`: the job moves while it is alive and
  is started again when it died; both are what `JobIsFinished` is about.  A crash
  is possible at every step, and the number of runs bounds how many there are.
* `agent` and `batch`, weak fairness of `Next`: something goes on while something can.
  Every path is finite, so this is no assumption about who is scheduled.
* `tokens`, `token_loss`: each process runs its only thread.

## 4. Findings

1. `resolve_model_path` looks only at the highest-numbered directory and gives up if
   it has no `config.json`: after a crash between `os.makedirs` and
   `save_pretrained`, an older whole checkpoint is passed over (`scripts/eval_math.sh:29`).
2. With sequence parallelism and `loss.method=dft`, the default, the loss is not
   weighted; only the two PriFT methods are refused
   (`verl/verl/trainer/fsdp_dft_trainer.py:583`).
3. `setup` ignores exit codes and `merge_results` takes the files it finds: after a
   killed run, a dead worker is replaced by the answers of the earlier run
   (`math_evaluation/math_eval.py:206`).
4. `rearrange_micro_batches` documents `max_token_len` as the maximum of a micro batch
   but only divides the total by it; the balanced parts can be larger
   (`verl/verl/utils/seqlen_balancing.py:294`).  `LevelWork` says by how much: at
   most the longest sequence.

Observations without a run of their own.

*Fine-tuning job.*  `README.md:30` counts all tokens at most as probable as the target,
the code (`prift_weights.py:79`) only strictly less probable ones and the target
itself, so ties differ.  An empty validation loader makes rank 0 raise while the others
wait in the barrier (`fsdp_dft_trainer.py:767`).  With sequence parallelism the number of
valid tokens is counted once per rank of a group (`:589`).  `test_freq` 0 raises before
it is compared with 0 (`:751`).  A rerun with fewer steps leaves the larger numbers of the run before, and
those are what `resolve_model_path` picks; in the model a rerun repeats the command, so no run
shows this.

*Chat completion scheduler.*  A batch with more conversations than `max_cache_size` evicts
entries of requests in flight; the follow-up fails an assertion in a task nobody
awaits, and `generate_sequences` never returns (`chat_scheduler.py:328`).  A first request that
raises is only logged; `postprocess` then refuses the whole batch (`:257`).
`max_assistant_turns` is compared with the number of all messages (`:111`).

*PPO checkpoints.*  With one checkpoint to keep, which a warning of the trainer
recommends (`ray_trainer.py:931`), the old one is removed before the new one is written and a
crash in between leaves the tracker naming nothing.  A crash between opening and
writing the tracker leaves it empty, and `int("")` raises in every mode that resumes.
A finished job that is run again trains one step more.  Folders of
earlier runs are never rotated out.  `resume_path` and `disable` overwrite existing folders in
place.  With Megatron's `async_save` the tracker is written although the save is still
under way (`megatron_checkpoint_manager.py:505`).

*Agent loops.*  A batch that fails leaves the servers awake.  A thread pool that
dies keeps its tokens.  The second tool to start gets the first tool's limit.  With
`enable_global_rate_limit=False` the sandbox calls `release` on `None`.

*Batches.*  The configuration check accepts `prompts * n` that the ranks divide, but
generation dispatches the prompts before they are repeated (`ray_trainer.py:418`).
Automatic padding pads the driver's own batch in place, so the union after the
call fails.  `min_num_micro_batch` larger than the batch raises, although its documentation
speaks of empty micro batches.  The critic with images and dynamic micro batches uses
`indices` before it is defined (`dp_critic.py:189`).

## 5. Proofs

Every safety property that a run checks, and both refinements, are theorems: for all
values of the constants that satisfy the named assumptions of the component's
module.  The assumptions are those of the code:

| Module | Assumptions | What they say |
|---|---|---|
| `SFTTrainer` | `RankAssumption`, `ConfigAssumption` | finitely many ranks, rank 0 among them; frequencies that are not 0 (0 raises at `global_step % test_freq`), at least one micro batch, at least two files in a checkpoint |
| `TokenWeights` | `SizeAssumption`, `DistAssumption`, `ChunkAssumption`, `ThresholdAssumption` | some rows and tokens, natural numbers for `exp`, integers for the chunk sizes (also 0 and below) |
| `TokenLoss` | `JobAssumption` | finitely many ranks and positions, the groups of a layout part the ranks, and probabilities are at most 1 |
| `ChatScheduler` | `ServersAssumption`, `ConvAssumption`, `BatchAssumption`, `BoundAssumption` | finitely many servers and conversations |
| `EvalPipeline` | `SizeAssumption` | there are data sets, examples, answers and devices |
| `RayTrainer` | `WorkerAssumption`, `CountAssumption`, `KeepAssumption`, `NothingAssumption` | there are workers, files, steps; what `max_ckpt_to_keep` may be |
| `AgentLoop` | `ConvAssumption`, `LengthAssumption` | finitely many conversations and servers, each conversation with a worker and a prompt that fits; lengths and limits are not 0 |
| `TrainingBatch` | `SetupAssumption` | what the trainer's `_validate_config` and the workers' constructors assert: ranks divide into groups and the trajectories into ranks, mini batches are not empty, sizes of micro batches are given when they are not planned by tokens |

**`SFTTrainerProofs`** — `TypeCorrect` and `CollectivesAlwaysMatch`.  That ranks in
the same numbered collective are in the same one is not inductive: what two
ranks do next must be related also when they are not in a collective, or one has
entered and the other has not.  `Upcoming(r)` is the collective a rank is in or
will enter next, `After` the function that gives the next one from this one
alone.  `LockInv` says that ranks are at most one collective apart, that their
`Upcoming` is equal, or that one is `After` the other's, according to who is
inside.  Entering, working and leaving are the three kinds of steps (`Enters`,
`Works`, `Leaves`); each action is shown to be of one kind, and the invariant is
shown once per kind.

`ShardsAlwaysAgree`, `GradientsAreOfThisStep`, `CheckpointsAreOneModel`:
`ModelInv` adds to `LockInv` what has been accumulated
while micro batches are left (`GradInv`), that only rank 0 writes (`SaverInv`), that
a rank that entered the gather contributed its shard after this step
(`GatherInv`), and that files of this run are of steps rank 0 has behind it
(`FileInv`).  Two lemmas use the lock step: the rank that makes the norm finite is
the last to arrive and nobody has used the norm yet (`LastAtNorm`), and when
rank 0 writes, every rank has contributed to this very gather (`AllGathered`).

`NobodyPasses`, `FilesAreWrittenOnce`, `CopiesFollowCheckpoints`:
`WriteInv` follows rank 0 through the files of a checkpoint; `Reached` turns a
rank's `Upcoming` into the last step that is over for it, and `NearRanks` carries
what rank 0 has saved to the others: a rank can be beyond a step only if
rank 0 has entered the barrier that ends `save_checkpoint`.  A file is never
changed because writing it again would write the same model.

`FinalModelIsEvaluated`: `LimitInv` says that no directory
has a number beyond the last step of the job, so the highest one is the last
step's, and by `NobodyPasses` it is complete.

`JobIsSequential`: `SFTTrainer` implements `SequentialFit`.
The sequential program's progress is that of rank 0 (`Past(Rank0)`), its model
rank 0's shard, its phase is read off rank 0's position, and its checkpoints off
the disk (none, torn, or whole with one model).  `OptimizerStep` of rank 0 is
`Train`, its first `Write` is `BeginSave`, its last one `EndSave`, a restart is
`Again`, and all else, of rank 0 and of the others, is a stutter.  `PhaseInv` is
what is missing: the files rank 0 has not yet reached are of an older run, so
the first file really tears the checkpoint and the last one makes it whole.

**`TokenProofs`** — `WeightsAreAsDefined`, `MoreProbableIsKept`, `AverageIsGlobalMean`.
In `WeightInv` the rows that are through have the weights of the reference definition, and each
row of the slice under way has the sums over exactly the tokens `Seen`; a slice adds
the sum over a set that is disjoint from these, whatever its size.  That mass is
monotone is then a fact about the reference alone: a more probable token has no less mass
below it.  For the loss, `LossInv` says that after the all-reduce every rank knows the
tokens of all, and that no rank divides before; then the mean over the ranks, the factor of the
world size and the global number of tokens cancel in the sum over all of them, whatever the
weights: every multiple of `1/One` for any `One`.

**`ChatSchedulerProofs`** — `TypeCorrect`, `SessionsAreSticky`, `LoadIsBalanced`,
`DoneIsQuiet`, `ToolsAnswerFirst`, `DoneIsSettled`.  The invariant says what the phase
of a conversation means for its counters and its event (`RegularInv`), that it has
a first server exactly when it has sent something (`HomeInv`), that every entry
of the cache is a request that was sent to its conversation's first server
(`CacheInv`), and that the servers' counts are the numbers of conversations and
level (`LoadInv`).  It holds for any size of the cache.

`FollowUpsAreCached` needs an order on the cache (`KeptInv`): entries are of different
requests, those of older batches come first, and a conversation whose batch fits
into the cache has its request there while it may still need it.  An entry is dropped only when the
cache is full; were it one of the running batch, all entries would be, and by
the pigeonhole principle the batch would be larger than the cache.

**`AgentLoopProofs`** — `TokensAreConserved`, `ServersHaveRoom`,
`MasksSelectGeneratedTokens`.  The invariant of the limiter (`LimiterInv`) says that the
mailbox holds calls that ask for a token, each once, and that free tokens, tokens of
running calls and tokens on their way back are the limit; it is kept by every
action of `RateLimiter` on its own, and the loops only send idle calls and collect
finished ones, which `CallsAreTheirs` shows.  `ChatInv` relates the tokens of
a conversation to their mask (`Content`): they are the prompt and as many more as the mask is
long, and the mask is 1 exactly at those a server generated, whatever was cut.  `Rows` carries this over to the padded rows, and `ServersHaveRoom` follows
because a conversation that sends a request has a mask shorter than
`response_length`.  `SessionsAreLevel` rests on `SessionInv`: a worker's cache has one entry for
a conversation, with its server, and with room for all conversations none of
these is ever dropped (`NotFull`: entries of different conversations of one worker are
no more than these conversations).

**`EvalPipelineProofs`** — `EveryExampleIsReported`, `VerdictsStayWithSamples`, `RunsCleanUp`.
The chunks of the workers follow one another and end with the last example
(`ChunksFollow`), also when there are more workers than examples; so what is merged after n workers
is a prefix (`Upto`).  `WorkerInv` and `FileInv` say whose file may be there: one of this run
only while its worker is waited for or it is yet to be merged.  `ScoreInv` numbers the verdicts that the pool has given;
the slices that are cut from them belong to one sample each (`ElementsAreNumbered`).

**`RayTrainerProofs`** — `TrackerNamesAWholeStep`, `AResumedJobContinues`,
`TrainerImplementsRecoverableJob`, for any numbers of workers, files, steps, crashes
and reruns.  They need one assumption about the configuration, `KeepsTwo`: nobody
sets `max_ckpt_to_keep` to 1, with which the old checkpoint is gone before the new
one is there.  The invariant has a part that holds always and a part that holds while no
operator interfered.  `SaveInv` says which files of the step's checkpoint are those
of the models in memory; after the last barrier these are all.  `KeptInv` says that
the saved paths are in the order of the steps and, for the roles still to be saved,
before the current step.  `TrackInv` says that everything kept is the current step or
not newer than what the tracker names.  Rotation with at least two to keep spares
the newest kept path, so it cannot take away what the tracker names
(`RotateSparesTracked`); writing goes to a later step (`WriteFileSparesTracked`).  That fewer
than `save_freq` steps can be lost, also by a run that resumed in the middle of a
period, rests on `Done - Tracked <= Done % SaveFreq` and on arithmetic of remainders.
For the refinement, `Train` is `Update`, opening and writing the tracker are
`BeginCommit` and `EndCommit`, a crash is `Die`, a restart `Again`, and the many steps in
which the files are written and removed are stutters.  `CheckpointsAreBounded` is about any
`max_ckpt_to_keep`, also 1, and counts (`CountInv`): the folders that this run's list does not name are
at most those of the runs before it.

**`TrainingBatchProofs`** — invariants that build on the ones before.

* `DeviceInv` for `MemoryIsGivenBack`: where a rank is in a call decides what is in its device memory.
* `BatchInv` for `ResultsStayWithRows`: the rows of each rank are a slice of what was sent, those of
  its group after `Gather`; what it gives back is the same slice of `Reply`, which is what one
  process would answer.  While micro batches are run, `Dealt` says that
  the places of the rows are in the plan or in the order of what is done, each once, which the reverse
  index undoes.  Padding, chunks, groups and repetition are each shown to lead from slices to slices.
* `WorkInv` and `LevelInv` for `WorkIsLevel`.  Two theorems about the differencing method come first: in
  `PartitionsFit` a partition has no more than the mean and one item, in `EqualPartitionsAreLevel` partitions of
  equal size differ by no more than two items may.  They follow the heap of states (`StateOf`, `HeapOf`) by
  induction over its merges.  `WorkInv` says what is left of the mini batches of all
  epochs (`TodoInv`), that all ranks are at the same one (`SameInv`), and that the micro batches
  ahead are a plan of this mini batch (`PlanInv`).  Ranks that plan together take as many as the
  neediest; a rank with fewer rows never gets an empty one because a rank needs no more micro batches than it has rows, and all have
  as many rows.
* `TrainedInv` for `EveryEpochTrainsOnAll`: how often a rank has trained on the x-th row of its
  group is a function of its place alone (`Times`): the epoch, one more for the mini batches
  before the one it is at, and for the micro batches before the next one.  A trajectory's row is in
  the slice of exactly one group, so no other rank has trained on it.
* `MeetInv` for `NobodyWaitsForEver`: any two ranks are between the same two collectives of the whole
  world, the ranks of a group gather together, and those that run the model have as many micro batches
  ahead.  That is kept only because ranks at the same mini batch have as many rows (`SameInv`), which makes
  fixed micro batches as many on all ranks, and because ranks that plan dynamically plan together.  The
  theorem says that in every state short of the end the conditions of some action are met: what
  `IterationEnds` needs beside fairness, stated without `ENABLED`.
* `FateInv` for `OnlyUnevenPromptsFail`: a batch has its responses only when the ranks divide the prompts,
  and the driver fails only when they do not.  With `prompts` padded by `d` rows, `(prompts + d) n - d`
  responses come back, so the union fits if and only if `d = 0` or `n = 1`.

**`SumTheorems`** — the theorems of the library for induction take an operator as parameter, which the provers cannot
instantiate.  Stated with sets (`NumberInduction`, `SubsetInduction`, from the existence of
minima in well-founded orders) they can be used, and with them what a recursive function computes can be
proved: that `SumFunctionOnSet` is additive, and that the recursions of the balancing are defined.

**Only model-checked.**  Liveness (`FitReturns`, `BatchesEnd`, `EvaluationEnds`, `BatchEnds`,
`IterationEnds`, `JobIsFinished`): fairness and `ENABLED` are out of the prover's reach.  What
`IterationEnds` says apart from them, that nobody is stuck on the way and which end is reached, is proved
(`NobodyWaitsForEver`, `OnlyUnevenPromptsFail`); that a batch takes only so many steps is not.

## 6. Plan

1. Response masks of the chat completion scheduler (`_mask_out_tools_calling_tokens`), once a
   sensible abstraction of a chat template is found.
2. Pipelines of Megatron workers, whose dispatch differs from that of `TrainingBatch`.

## 7. Not modelled, and why

* Tensor arithmetic: forward and backward passes, optimizers, PPO's advantages and
  losses.  Real numbers are outside these tools; what control depends on (a norm
  that is finite, an order of probabilities, a token count) is in the models.
* What happens inside torch's collectives, FSDP, Megatron, vLLM, SGLang and Ray:
  they appear as what the code relies on.
* Text: tokenizers, chat templates, parsing and grading of mathematical answers.
* `fsdp_sft_trainer.py`, the original of the trainer that is modelled, and the recipes and
  examples of verl (SPIN, SPPO, DAPO and others), trainers of their own.
  `scripts/train.sh` runs the fine-tuning job only.
* The response masks of the chat completion scheduler: they count end-of-sequence tokens in
  what a tokenizer's chat template makes of the messages.
* Worker groups: how they are created and spread over machines, futures, and the modes
  of dispatch for Megatron.  One of these, for pipelines that are used as data
  parallelism, has a collect function that does not give the rows back in the order
  of its dispatch if both dimensions are larger than one; no worker registers it.
* `greedy_partition` and the seqlen statistics: not called, or only logged.
* The servers of asynchronous rollout: sleeping and waking are in the models of their
  users, requests inside vLLM and SGLang are not.
* A rerun of the job with other settings in the same directory; the model reruns the
  same command.
