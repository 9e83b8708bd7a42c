--------------------------- MODULE TrainingBatch ----------------------------
(***************************************************************************)
(* One batch through RayPPOTrainer.fit(): the driver hands a batch to the  *)
(* ranks of the FSDP workers (workers/fsdp_workers.py), one remote call    *)
(* after another, and joins what comes back to the rows it has.  Ranks     *)
(* share their rows in groups, of tensor parallelism to generate and of    *)
(* sequence parallelism to train, cut them into micro batches, and run the *)
(* model on one micro batch at a time, all ranks of the world together.    *)
(* A collective is one step of the ranks that meet in it.                  *)
(***************************************************************************)
EXTENDS DataProto, SeqlenBalancing

CONSTANTS
    Setups,       \* the configurations, one is chosen
    MaxTokenLen,  \* ppo_max_token_len_per_gpu and the like
    None

\* A configuration: world ranks; tp, and sp[model]; prompts in a batch with n
\* responses each; ppo_mini_batch_size, ppo_micro_batch_size_per_gpu and, for
\* infer, log_prob_micro_batch_size_per_gpu; ppo_epochs; tests: rows of the
\* validation batch, after repeat; use_dynamic_bsz, balance_batch, automatic
\* padding, offload (parameters and cache engine); iterations: bound on the
\* batches; lengths: bound on those of a trajectory.
Model == {"actor", "critic"}
ASSUME SetupAssumption ==
    /\ MaxTokenLen \in Nat \ {0}
    /\ \A s \in Setups :
          /\ {s.world, s.tp, s.prompts, s.n, s.mini, s.epochs} \subseteq Nat \ {0}
          /\ \A m \in Model : s.sp[m] \in Nat \ {0}
          /\ s.tests \in Nat /\ s.offload \in BOOLEAN
          /\ s.world % s.tp = 0 /\ \A m \in Model : s.world % s.sp[m] = 0
          /\ (s.prompts * s.n) % s.world = 0
          /\ ~s.dynamic => s.prompts >= s.mini /\ {s.micro, s.infer} \subseteq Nat \ {0}
          /\ \A m \in Model :
                LET mini == (s.mini * s.n) \div (s.world \div s.sp[m])
                IN  mini > 0 /\ (~s.dynamic => mini % s.micro = 0)
          /\ \A l \in s.lengths : l \in 1..MaxTokenLen

VARIABLES
    setup,
    phase,     \* what fit() is at: a remote call, "advantage", or its end
    iter,      \* batches begun
    length,    \* length[<<p, j>>]: of the j-th response to prompt p
    batch,     \* the driver's rows
    cut,       \* rows of padding in the call that is under way
    tested,    \* the validated rows
    reward,    \* of compute_reward_async: None, rows it was sent, its result
    rank,      \* rank[r]: where it is in a call, and what it holds
    version,   \* version[m][r]: optimizer steps done
    engine,    \* engine[r]: versions of the shards its inference engine has
    resident,  \* resident[r]: what is in device memory
    trained    \* trained[m][r][t]: how often r trained on trajectory t

driver == <<setup, phase, iter, length, batch, cut, tested, reward>>
device == <<version, engine, resident, trained>>
vars == <<setup, phase, iter, length, batch, cut, tested, reward, rank,
          version, engine, resident, trained>>

Rank == 1..setup.world
Trajectory == (1..setup.prompts) \X (1..setup.n)

\* A row of the batch before anything is known of it.
Row(p) == [uid |-> p, resp |-> None, logp |-> None, value |-> None, score |-> None]
Rows(n) == [p \in 1..n |-> Row(p)]

\* start, sync, gather, generate, plan, forward, step, back, returned
Idle == [at |-> "idle", rows |-> <<>>, todo |-> <<>>, plan |-> <<>>,
         order |-> <<>>, out |-> <<>>]

Init ==
    /\ setup \in Setups
    /\ phase = (IF setup.tests > 0 THEN "validate" ELSE "generate")
    /\ iter = 1 /\ length = None /\ cut = 0 /\ reward = None
    /\ batch = Rows(IF setup.tests > 0 THEN setup.tests ELSE setup.prompts)
    /\ tested = <<>>
    /\ rank = [r \in Rank |-> Idle]
    /\ version = [m \in Model |-> [r \in Rank |-> 0]]
    /\ engine = [r \in Rank |-> {0}]
    /\ resident = [r \in Rank |-> IF setup.offload THEN {} ELSE Model \cup {"engine"}]
    /\ trained = [m \in Model |-> [r \in Rank |-> [t \in Trajectory |-> 0]]]

Generates == phase \in {"validate", "generate"}
Updates == phase \in {"update_actor", "update_critic"}
Used == IF phase \in {"values", "update_critic"} THEN "critic" ELSE "actor"
GroupSize == IF Generates THEN setup.tp ELSE setup.sp[Used]
LeaderOf(r) == (((r - 1) \div GroupSize) * GroupSize) + 1
Group(r) == [i \in 1..GroupSize |-> LeaderOf(r) + i - 1]

\* The piece of the group's rows that goes back from r.
Own(r, rows) == Chunk(rows, GroupSize)[r - LeaderOf(r) + 1]

-----------------------------------------------------------------------------
(* The driver.                                                              *)

Fail == phase' = "failed" /\ UNCHANGED <<setup, iter, length, batch, cut, tested, reward>>

\* The rows a call is dispatched with.  Automatic padding pads the argument
\* itself, which except for generation is the driver's batch.
Sent ==
    IF phase = "validate" THEN PadToDivisor(batch, setup.world)
    ELSE IF setup.padding THEN AutoPad(batch, setup.world)
    ELSE batch

\* DP_COMPUTE_PROTO: one equal piece for each rank.
Call ==
    /\ phase \notin {"advantage", "done", "failed"}
    /\ \A r \in Rank : rank[r] = Idle
    /\ \/ /\ Len(Sent) % setup.world # 0
          /\ Fail /\ UNCHANGED rank
       \/ /\ Len(Sent) % setup.world = 0
          /\ rank' = [r \in Rank |-> [Idle EXCEPT !.at = "start",
                                          !.rows = Chunk(Sent, setup.world)[r]]]
          /\ cut' = Len(Sent) - Len(batch)
          /\ batch' = IF Generates THEN batch ELSE Sent
          /\ \/ phase = "generate" /\ length' \in [Trajectory -> setup.lengths]
             \/ phase # "generate" /\ UNCHANGED length
          /\ UNCHANGED <<setup, phase, iter, tested, reward>>
    /\ UNCHANGED device

Returned == \A r \in Rank : rank[r].at = "returned"
Collected == Unpad(Concat([r \in Rank |-> rank[r].out]), cut)
Free == rank' = [r \in Rank |-> Idle] /\ UNCHANGED device

Lengths(rows) ==
    Eager([i \in DOMAIN rows |-> length[<<rows[i].resp[1], rows[i].resp[2]>>]])

\* The responses of validation, beside the rows they were generated for.
EndValidate ==
    /\ phase = "validate" /\ Returned
    /\ \E out \in {Collected} :
          tested' = [i \in DOMAIN out |-> <<batch[i].uid, out[i]>>]
    /\ batch' = Rows(setup.prompts)
    /\ phase' = "generate"
    /\ UNCHANGED <<setup, iter, length, cut, reward>> /\ Free

\* batch.repeat and union with the responses.
Joined(out) == LET rows == Repeat(batch, setup.n)
               IN  [i \in DOMAIN rows |-> [rows[i] EXCEPT !.resp = out[i]]]

\* _balance_batch: the partitions one after the other, for dispatch to cut.
Order(rows) ==
    IF setup.balance THEN Concat(Partitions(Lengths(rows), setup.world, TRUE))
    ELSE [i \in DOMAIN rows |-> i]

\* Union, balance, and compute_reward_async gets its copy of the batch.  A
\* union of batches of different sizes fails.
EndGenerate ==
    /\ phase = "generate" /\ Returned
    /\ \E out \in {Collected} :
          \/ Len(out) # Len(batch) * setup.n /\ Fail
          \/ /\ Len(out) = Len(batch) * setup.n
             /\ \E rows \in {Joined(out)} : \E order \in {Order(rows)} :
                   /\ batch' = [i \in DOMAIN rows |-> rows[order[i]]]
                   /\ reward' = [done |-> FALSE, rows |-> batch']
             /\ phase' = "log_prob"
             /\ UNCHANGED <<setup, iter, length, cut, tested>>
    /\ Free

\* Union with the results of compute_log_prob and compute_values.
EndInfer ==
    /\ phase \in {"log_prob", "values"} /\ Returned
    /\ \E out \in {Collected} :
          \/ Len(out) # Len(batch) /\ Fail
          \/ /\ Len(out) = Len(batch)
             /\ \/ /\ phase = "log_prob" /\ phase' = "values"
                   /\ batch' = [i \in DOMAIN batch |-> [batch[i] EXCEPT !.logp = out[i]]]
                \/ /\ phase = "values" /\ phase' = "advantage"
                   /\ batch' = [i \in DOMAIN batch |-> [batch[i] EXCEPT !.value = out[i]]]
             /\ UNCHANGED <<setup, iter, length, cut, tested, reward>>
    /\ Free

\* The reward function has scored the rows it was sent.
Score ==
    /\ reward # None /\ ~reward.done
    /\ reward' = [reward EXCEPT !.done = TRUE]
    /\ UNCHANGED <<setup, phase, iter, length, batch, cut, tested, rank>>
    /\ UNCHANGED device

\* ray.get(future_reward); the advantages are the driver's own work.
Advantage ==
    /\ phase = "advantage" /\ reward.done
    /\ batch' = [i \in DOMAIN batch |->
           [batch[i] EXCEPT !.score = reward.rows[i].resp]]
    /\ reward' = None
    /\ phase' = "update_critic"
    /\ UNCHANGED <<setup, iter, length, cut, tested, rank>> /\ UNCHANGED device

EndUpdateCritic ==
    /\ phase = "update_critic" /\ Returned
    /\ phase' = "update_actor"
    /\ UNCHANGED <<setup, iter, length, batch, cut, tested, reward>> /\ Free

\* The next batch of the data loader.
EndUpdateActor ==
    /\ phase = "update_actor" /\ Returned
    /\ \/ iter = setup.iterations /\ phase' = "done" /\ UNCHANGED <<iter, batch>>
       \/ /\ iter < setup.iterations
          /\ phase' = "generate" /\ iter' = iter + 1
          /\ batch' = Rows(setup.prompts)
    /\ rank' = [r \in Rank |-> Idle]
    /\ trained' = [m \in Model |-> [r \in Rank |-> [t \in Trajectory |-> 0]]]
    /\ UNCHANGED <<setup, length, cut, tested, reward, version, engine, resident>>

-----------------------------------------------------------------------------
(* The ranks.                                                               *)

\* Mutant: the memory is not given back.
Resident(r, what) == resident[r]

\* What is on the device of r when what has been offloaded.
Offloaded(r, what) == IF setup.offload THEN resident[r] \ what ELSE resident[r]

\* The call arrives: the model's parameters are loaded to the device.
Load(r) ==
    /\ rank[r].at = "start"
    /\ resident' = [resident EXCEPT ![r] = @ \cup {Used}]
    /\ rank' = [rank EXCEPT ![r].at = IF Generates THEN "sync" ELSE "gather"]
    /\ UNCHANGED <<driver, version, engine, trained>>

\* FSDPVLLMShardingManager.__enter__: the engine wakes up, gets the weights of
\* all shards, the actor's parameters leave, and the cache comes back.
Sync ==
    /\ \A r \in Rank : rank[r].at = "sync"
    /\ engine' = [r \in Rank |-> {version["actor"][q] : q \in Rank}]
    /\ resident' = [r \in Rank |-> Offloaded(r, {"actor"}) \cup {"engine"}]
    /\ rank' = [r \in Rank |-> [rank[r] EXCEPT !.at = "gather"]]
    /\ UNCHANGED <<driver, version, trained>>

\* ppo_mini_batch_size, normalised by the workers' constructors.
MiniBatch == (setup.mini * setup.n) \div (setup.world \div setup.sp[Used])

\* Mutant: an iterator over the mini batches, used up after the first epoch.
WorkOnce(rows) == IF Updates THEN Split(rows, MiniBatch) ELSE <<rows>>

\* What a rank runs the model on: everything once, or mini batches in epochs.
Work(rows) ==
    IF Updates THEN Concat([e \in 1..setup.epochs |-> Split(rows, MiniBatch)])
    ELSE <<rows>>

\* preprocess_data: the ranks of a group have the rows of all of them.
Gather(r) ==
    /\ r = LeaderOf(r) /\ \A i \in 1..GroupSize : rank[Group(r)[i]].at = "gather"
    /\ LET rows == Concat([i \in 1..GroupSize |-> rank[Group(r)[i]].rows])
       IN  rank' = [q \in Rank |->
              IF LeaderOf(q) # r THEN rank[q]
              ELSE [rank[q] EXCEPT !.rows = rows,
                        !.todo = IF Generates THEN <<>> ELSE Work(rows),
                        !.at = IF Generates THEN "generate" ELSE "plan"]]
    /\ UNCHANGED <<driver, device>>

\* The engine answers each prompt n times, in validation once; the group does
\* so alike on all its ranks.  Then it goes to sleep.
Generate(r) ==
    /\ rank[r].at = "generate"
    /\ LET n == IF phase = "validate" THEN 1 ELSE setup.n
           rows == Repeat(rank[r].rows, n)
           answers == [i \in DOMAIN rows |-> <<rows[i].uid, ((i - 1) % n) + 1, engine[r]>>]
       IN  rank' = [rank EXCEPT ![r].out = Own(r, answers), ![r].at = "returned"]
    /\ resident' = [resident EXCEPT ![r] = Offloaded(r, {"engine"})]
    /\ UNCHANGED <<driver, version, engine, trained>>

Budget == MaxTokenLen * setup.sp[Used]
Now(r) == Head(rank[r].todo)
Needed(r) == NumMicroBatches(Lengths(Now(r)), Budget)

\* Mutant: every rank takes as many micro batches as it needs.
NumAlone(r) == Needed(r)

\* rearrange_micro_batches: as many as the neediest rank of the world needs.
NumTogether(r) == Max({Needed(q) : q \in Rank})

PlanDynamic ==
    /\ setup.dynamic /\ \A r \in Rank : rank[r].at = "plan"
    /\ \E num \in {[r \in Rank |-> NumTogether(r)]} :
          rank' = [r \in Rank |-> [rank[r] EXCEPT
              !.plan = Partitions(Lengths(Now(r)), num[r], FALSE), !.at = "forward"]]
    /\ UNCHANGED <<driver, device>>

\* Micro batches of a fixed number of rows.
PlanFixed(r) ==
    /\ ~setup.dynamic /\ rank[r].at = "plan"
    /\ LET size == IF Updates THEN setup.micro ELSE setup.infer
       IN  rank' = [rank EXCEPT ![r].plan = Split([i \in DOMAIN Now(r) |-> i], size),
                                ![r].at = "forward"]
    /\ UNCHANGED <<driver, device>>

\* What a forward pass gives for a row.
Result(row) ==
    <<row.resp[1], row.resp[2], {version[Used][q] : q \in Rank}>>

\* The trajectories of the micro batch that is next on r.
Part(r) == [i \in DOMAIN Head(rank[r].plan) |-> Now(r)[Head(rank[r].plan)[i]]]
Count(r, t) ==
    Cardinality({i \in DOMAIN Part(r) : SubSeq(Part(r)[i].resp, 1, 2) = t})

\* One micro batch on all ranks: they exchange parameters, and gradients.
Forward ==
    /\ \A r \in Rank : rank[r].at = "forward"
    /\ \/ /\ ~Updates /\ UNCHANGED trained
          /\ rank' = [r \in Rank |-> [rank[r] EXCEPT
                 !.out = @ \o [i \in DOMAIN Part(r) |-> Result(Part(r)[i])],
                 !.order = @ \o Head(rank[r].plan),
                 !.plan = Tail(@),
                 !.at = IF Len(rank[r].plan) > 1 THEN "forward" ELSE "back"]]
       \/ /\ Updates
          /\ trained' = [trained EXCEPT ![Used] =
                 [r \in Rank |-> [t \in Trajectory |-> @[r][t] + Count(r, t)]]]
          /\ rank' = [r \in Rank |-> [rank[r] EXCEPT
                 !.plan = Tail(@),
                 !.at = IF Len(rank[r].plan) > 1 THEN "forward" ELSE "step"]]
    /\ UNCHANGED <<driver, version, engine, resident>>

\* After the micro batches of a mini batch: optimizer.step, unless the norm of
\* the gradients, which is one for all ranks, is not finite.
Step ==
    /\ \A r \in Rank : rank[r].at = "step"
    /\ \/ version' = [version EXCEPT ![Used] = [r \in Rank |-> @[r] + 1]]
       \/ UNCHANGED version
    /\ rank' = [r \in Rank |-> [rank[r] EXCEPT !.todo = Tail(@),
                     !.at = IF Len(rank[r].todo) = 1 THEN "back" ELSE "plan"]]
    /\ UNCHANGED <<driver, engine, resident, trained>>

\* The results in the order of the rows, the group's piece of them, and the
\* parameters leave the device.
GiveBack(r) ==
    /\ rank[r].at = "back"
    /\ \E back \in {ReverseIdx(rank[r].order)} :
          rank' = [rank EXCEPT ![r].at = "returned", ![r].out =
              IF Updates THEN <<>> ELSE Own(r, [i \in DOMAIN @ |-> @[back[i]]])]
    /\ resident' = [resident EXCEPT ![r] = Offloaded(r, {Used})]
    /\ UNCHANGED <<driver, version, engine, trained>>

-----------------------------------------------------------------------------
Over == phase \in {"done", "failed"} /\ reward = None /\ UNCHANGED vars

Drive ==
    \/ Call \/ EndValidate \/ EndGenerate \/ EndInfer \/ Advantage
    \/ EndUpdateCritic \/ EndUpdateActor
Run(r) ==
    \/ Load(r) \/ Gather(r) \/ Generate(r) \/ PlanFixed(r) \/ GiveBack(r)
Meet == Sync \/ PlanDynamic \/ Forward \/ Step

Next == Drive \/ Meet \/ Score \/ (\E r \in Rank : Run(r)) \/ Over

Spec == Init /\ [][Next]_vars
FairSpec == Spec /\ WF_vars(Next)
-----------------------------------------------------------------------------
(* Properties.                                                              *)

\* Whatever the order the rows were in at the ranks, results come back to
\* the rows they are of: the responses to their prompts, n different ones for
\* each, the log probabilities and values to their responses, the scores to
\* what was scored, though the reward function runs while the batch goes on;
\* in validation, padding and all, too.  And the old log probabilities are
\* those of the very weights the engine generated the response with, one
\* version on all ranks.
ResultsBelongToRows ==
    /\ \A i \in DOMAIN tested : tested[i][1] = tested[i][2][1]
    /\ tested # <<>> => Len(tested) = setup.tests
    /\ \A i, j \in DOMAIN batch :
          LET row == batch[i] IN
          /\ row.resp # None =>
                /\ row.resp[1] = row.uid
                /\ i # j => row.resp # batch[j].resp
          /\ row.logp # None => row.logp = row.resp /\ Cardinality(row.logp[3]) = 1
          /\ row.value # None => SubSeq(row.value, 1, 2) = SubSeq(row.resp, 1, 2)
          /\ row.score # None => row.score = row.resp

\* When an update is over every trajectory of the batch was trained on
\* ppo_epochs times, by one sequence-parallel group, on all its ranks alike.
TrainedOncePerEpoch ==
    Updates /\ Returned =>
        \A t \in Trajectory :
            /\ \A r \in Rank : trained[Used][r][t] = trained[Used][LeaderOf(r)][t]
            /\ \E r \in Rank : trained[Used][r][t] = setup.epochs
            /\ Cardinality({r \in Rank : trained[Used][r][t] > 0}) = GroupSize

\* With offloading, a rank that generates or runs a model has that one on its
\* device and no other, and between calls the device is empty.
OneModelOnDevice ==
    setup.offload => \A r \in Rank :
        /\ rank[r].at = "generate" => resident[r] = {"engine"}
        /\ rank[r].at \in {"plan", "forward", "step"} => resident[r] = {Used}
        /\ rank[r].at \in {"idle", "returned"} => resident[r] = {}

Tokens(rows) == Total(Lengths(rows), [i \in DOMAIN rows |-> i])
Longest == Max(setup.lengths)
Shortest == Min(setup.lengths)

\* The work is level.  Balanced ranks differ by no more than two sequences may
\* differ, and all micro batches of a rank hold something, and not more than
\* one sequence above the budget.
LevelWork ==
    /\ setup.balance /\ phase = "log_prob" /\ (\A r \in Rank : rank[r].at = "start") =>
          \A q, r \in Rank :
              Tokens(rank[q].rows) <= Tokens(rank[r].rows) + Longest - Shortest
    /\ setup.dynamic => \A r \in Rank : \A i \in DOMAIN rank[r].plan :
          LET part == rank[r].plan[i] IN
          /\ part # <<>>
          /\ Total(Lengths(Now(r)), part) <= Budget + Longest

\* rearrange_micro_batches, line 262: "max_token_len (int): max sum of
\* attention_mask per micro-batch".
MicroBatchesFit ==
    setup.dynamic => \A r \in Rank : \A i \in DOMAIN rank[r].plan :
        Total(Lengths(Now(r)), rank[r].plan[i]) <= Budget

\* Every batch gets through all its calls: no rank waits in a collective the
\* others do not come to.  Only a number of prompts that the ranks do not
\* divide fails, with automatic padding too unless one response to each
\* prompt is generated and the number of rows divides.
IterationEnds ==
    <>[](phase = IF setup.prompts % setup.world = 0 THEN "done" ELSE "failed")
=============================================================================
