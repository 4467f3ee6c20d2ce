# A TLA+ model of PG-OPD (verl)

The repository trains a vision-language policy by reinforcement learning and
self-distillation. Its program is `code/PG-OPD/verl`, a fork of verl: a driver
process runs the training loop, worker groups hold the sharded models on GPUs,
a vLLM engine that shares those GPUs generates the responses, and checkpoints
make a job restartable. This directory holds TLA+ modules for the parts of it
whose correctness depends on order, failure and agreement, TLC configurations
that check them on small instances, and proofs for every value of the constants
that the TLA+ proof system has checked. Paths below are relative to
`code/PG-OPD/verl` unless they begin with `code/`.

## 1. Inventory

| Component | State it keeps | Operations | Talks to | What is hard | What makes it correct |
|---|---|---|---|---|---|
| Checkpoint manager (`utils/checkpoint/*_checkpoint_manager.py`) | `previous_saved_paths`, directories and files of every step | save on all ranks, two barriers, make room before and retain after, remove a directory | called by workers; writes the disk | crash between any two file operations; ranks finish dumps at different times; two trims of one list | never removes what the tracker names; no rank waits for ever |
| PPO trainer, checkpoint side (`trainer/ppo/ray_trainer.py`) | `global_steps`, dataloader position, `data.pt`, tracker file | save, load, find the latest, expiry saves | manager of every model, disk | several files make one checkpoint; crash between them; resume | tracked checkpoint complete; steps and batches in sync |
| SFT trainers (`trainer/sft_trainer*.py`, `fsdp_sft_trainer.py`, `utils/checkpoint/checkpoint_handler.py`) | the same, with one data file per rank or one in all, a renamed tracker | save, load, loop | manager, disk | rank 0 does not wait for the others before the tracker | as above; ranks resume at the same batch; nothing durable is lost again |
| Hybrid engine (`workers/fsdp_workers.py`, `engine_workers.py`, `workers/rollout/vllm_rollout/*`) | mode, weights of trainer and engine, what is in GPU memory, random states, prefix cache, requests | switch to rollout and back, wake up, sleep, generate, abort | agent loop (external), engine | weights dropped and resent; requests in flight during sleep and abort; LoRA and base weights; resume | engine generates with the trained weights; stale cache never used; never runs asleep; random streams apart |
| Rollout executor (`vllm_rollout.py`, `vllm_async_server.py`) | request and reply sockets | calls of all workers over ZeroMQ | engine, workers | an exception ends a worker's loop; a reply left in its socket | a call reads its own replies; what returns was carried out by all |
| Training step (`ray_trainer.fit`, `workers/actor/dp_actor.py`) | the batch, column by column; versions of actor and critic | generate, repeat, merge, balance, reward (perhaps late), log probabilities, advantage, teacher batch, mini-batches | worker groups, reward process | rows reordered between columns; late reward; options that skip columns | rows aligned; on-policy; no missing column |
| Actor update on a rank (`dp_actor.update_policy`) | gradient, optimizer, teacher (averaged or progressive) | mini- and micro-batches, scaling, dropped gradients, teacher update | the other ranks | short last mini-batch; dropped steps; restart | a step is made from its own rows, which weigh alike; the teacher follows the student |
| Estimators, losses, rollout correction (`core_algos.py`, `rollout_corr_helper.py`) | none | advantages of 11 estimators, policy losses, weights and rejection | driver, actor | groups in pieces, observations, rejected tokens, clipping on both sides, two corrections | only the own group and the kept tokens count; a step stays in its bounds |
| Forward pass and kernels (`dp_actor.py`, `utils/ulysses.py`, `models/transformers/*`, `utils/kernel/*`) | none | remove padding, slice, gather, exchange heads, log probabilities, fused kernels | ranks of a sequence-parallel group | every index shifted by one, by a slice and by padding | a token's log probability is made of what precedes it in its own row |
| Workers and engines (`fsdp_workers.py`, `engine_workers.py`, `workers/engine/*`) | where weights and optimizer state are | normalise sizes, load, offload, save, wake up | driver | flags of their own in every mode | what a call needs is on the GPU; sizes divide as the check promises |
| Batches (`protocol.py`, `utils/tensordict_utils.py`) | columns in two containers | union, repeat, select, slice, chunk, pad, concat, serialise | everybody | two libraries index the two containers | rows stay together |
| Worker groups (`single_controller/*`) | pools, bundles, ranks, environment, methods of fused classes, mesh information | create, split, merge, spawn, fuse, dispatch, execute, collect | Ray, workers | nested splits, padding that must come off again, mapping and mask of one mesh | each worker its own GPU and rows; results in order |
| Sequence-length balancing (`utils/seqlen_balancing.py`) | none | Karmarkar-Karp, micro-batches, inverse permutation, group-wise partition | `_balance_batch`, `dp_actor` | agreement on the number of micro-batches; inverse of an index list | a partition, balanced, undone exactly |
| Reward managers, sandbox client (`workers/reward_manager/prime.py`, `utils/reward_score/sandbox_fusion/*`) | process pool, shared semaphore | score with timeouts, retries | sandbox service | timeouts leave processes behind; slots held through retries; killed processes | one score per response, its own; every call ends |
| Activation offloading (`utils/activation_offload.py`) | groups on CPU and GPU, two copy streams | push, commit, offload, reload, pop | FSDP layers | a count stands for a place in the model; streams run on their own | a layer's backward pass finds its own tensors, copied back |
| Conversations and datasets (`workers/rollout/schemas.py`, `utils/dataset/*`) | tokens with masks and positions | add messages, generation prompt, finalise; items and batches of four datasets | engine, tools | prompts put on and taken off; truncation on either side | only answers of the model are trained |
| Model in pieces (`models/qwen2/megatron/*`, `model_merger/*`) | shards per rank, stage and chunk | divide, load, save, merge | checkpoints | interleaved projections, tied embeddings, layer offsets | the pieces make the model |
| Epochs and dataloader | epoch, position | iterate, restore | checkpoints | boundary of epochs at resume | each batch once per epoch |
| Profiler, file copies, TransferQueue glue, rollout skip, score functions, vision models, vendored PyTorch, tracking, evaluation scripts | - | - | - | - | - |

How they interact. The driver (`RayPPOTrainer.fit`) is one thread. It calls
worker groups, whose methods run on all ranks and are collectives; the results
come back through the collect function of the call. Generation goes through an
agent-loop manager that is **not in the repository** (`verl.experimental.agent_loop`
is imported but missing); it wakes the replicas, sends requests and puts them
to sleep, and is modelled from the calls and comments that mention it. Rewards
may be computed by another process while the driver goes on. Checkpoints are
the only state that outlives a job.

`PROJECT.json` lists every component with its status and every hazard at its
line, with the properties that speak about it.

## 2. The modules

```
CheckpointManager ----+--> PpoCheckpoint --+--> MCPpoCheckpoint
                      |                    +--> (implements DurableProgress)
                      +--> SftCheckpoint --+--> MCSftCheckpoint
                                           +--> (implements DurableProgress)
HybridEngine -----------------------------------> MCHybridEngine
RolloutExecutor (implements CollectiveCall)
TrainStep --------------------------------------> MCTrainStep
SeqlenBalancing -----+---> WorkerCall --------+-> MCWorkerSteps
                     +---> ActorUpdate -------+
                 ActivationOffload -----------+
RewardPool -------------------------------------> MCRewardPool
Fractions --+--> Advantages, PolicyLoss, Kernels -+
PackedForward, Workers, Containers, Shards -------+--> Algorithms --> MCAlgorithms
WorkerGroups (on Containers) ---------------------+
Conversations --> TrainedTokens ------------------+
Proofs: CheckpointManagerProofs <- PpoCheckpointProofs, SftCheckpointProofs;
        ProtocolProofs (HybridEngine, ActivationOffload, RewardPool,
        RolloutExecutor); TrainStepProofs;
        SequenceProofs (SeqlenBalancing, TrainedTokens) <-
        BatchProofs (WorkerCall, ActorUpdate), AlgorithmsProofs
```

A definition marked `mutant` is not part of a model: it is the mistake a
property of a run is shown to catch when it takes the place of the definition
after it. `PROJECT.json` maps every other definition to the lines it stands
for.

### CheckpointManager

One save by all ranks of a worker group. `at[m][r]` is where rank `r` is in
`save_checkpoint` of model `m`, `saved[m]` is `previous_saved_paths` of rank 0,
`doomed[m]` the directories it is removing, `whole` and `torn` the files on
disk. The actions are the steps between which another rank can act or the job
can die: `EnsureCapacity`, `RemoveFile` and `RemoveDir` (one file of `rmtree` at
a time, in any order), `MakeDir`, the barrier, `BeginDump` and `EndDump`, the
second barrier, `Register` with the removals it causes, `EndRetire`.

Abstracted: model, optimizer and extra files of a rank are one file; the
Hugging Face dump of rank 0 with its barrier is part of the dump; the list is
trimmed when a removal begins, as only rank 0 reads it and only at the next
save. `del_local_ckpt_after_load` is left out because its guard
(`is_non_local`) never holds for a local path.

### PpoCheckpoint

`RayPPOTrainer` seen from its saves. One training step is one action (`Train`),
because nothing inside it is on disk; `SaveDue` is the condition of
ray_trainer.py:2725-2743. A save goes through the models of `SaveOrder` one
after the other (`StartSave`, `WorkersSave`, `EndSave`), then `data.pt`
(`BeginSaveData`, `EndSaveData`), then the tracker, which is opened (and so
emptied) and written in two actions. `Crash` can happen anywhere; a start finds
the tracker (`StartFromScratch`, `StartFromCheckpoint`, `StartFails`). With
`async_save`, a Megatron option, the tracker is not written.

`pos` counts the batches the dataloader has delivered, as if there were one
long epoch. The manager removes only the directory of its model; the folder of
the step stays, so `folders` only grows. `resume_path` and the HDFS copy are
left out. `total_training_steps` may be smaller than the loop, so that a job
killed at its end trains one step more; the runs include this.

### SftCheckpoint

The SFT trainers with `CheckpointHandler`: manager, then the data files of
`DataRanks`, then the tracker by rename, then a barrier in SPMD mode.
`DataRanks = {Leader}` is Ray mode and also `FSDPSFTTrainer`, whose rank 0
writes the only data file. `held[r][s]` is the position in rank `r`'s data file
of step `s`, and `pos[r]` where its dataloader stands: a resumed rank takes the
position its file holds. A rank whose data file is missing only warns and starts
anew, at position 0; one whose data file is torn stops the job.

As rank 0 does not wait for the data files of the others before it renames the
tracker, `DataInSync`, the claim of the comment at
checkpoint_handler.py:104-105 for all ranks, is violated (the run
`sft_data_lost`). `DataLostOnce` is what remains of it: rank 0 is always at the
batch of the step; another rank is too, or it started anew at a tracked
checkpoint whose data file a crash had cost it, and is behind by just the
batches up to that checkpoint. All ranks leave the loop together in the model;
where `total_training_steps` lies beyond the loop, a rank that is behind would
have batches left and wait for the others in a collective.

### DurableProgress

The abstract specification of both: the step in progress becomes durable as one
event, a restart begins after the durable step, a crash loses nothing else. A
trainer whose tracker write is not atomic may lose the durable step for good
while it commits (`MayLose`).

### HybridEngine

The workers of a replica and the vLLM server on top of them. Weights are version
numbers (`base`, `adapter`); a full fine-tuning job increments the base, a LoRA
job the adapter. `RolloutMode` and `TrainerMode` are the two switches on each
worker, with what they send (`SendsBase`, `SendsAdapter`), what sleep level 1 or
2 keeps (`Kept`), and the two random streams. `CheckLora` and `Run` are one
coroutine cut at its await; `AbortAllRequests` and `ClearAfterAbort` another.
`Answered`, `ForgetAnswers`, `WakeUp`, `Serve` and `BeginSleep` are the external
manager. `KeepsInSync(c)` is the condition on the configuration under which
every switch brings back what the engine lacks. It excludes LoRA with a dummy
load, and LoRA in the engine-based worker with level-2 sleep: there `wake_up`
passes `base_sync_done` on (`engine_workers.py:574`) and the base weights, which
sleeping has destroyed, are never sent again.

### TrainStep

The batch as a table `batch[column][row]`. A cell holds where its value came
from (`from`, a set of samples) and the version of the weights that computed it
(`by`), never the value. The actions are the stages of `fit` in their order;
`Balance` may put the rows in any of the given orders; a reward computed
elsewhere keeps the rows it was given and arrives later (`RewardArrives`). The
configuration record carries the options that skip or add a stage. The update of
the actor runs mini-batch by mini-batch, all ranks together.

### SeqlenBalancing and WorkerCall

`SeqlenBalancing` is the pure algorithms: sets, states, the heap and its order,
the merge, and the partitions and inverse permutations built on them. `WorkerCall`
uses them in one call of a worker group, as `compute_log_prob`: `Balance` on the
driver, `Dispatch` by dp rank, `Prepare` and the all-reduce (`Agree`) on the
workers, `Forward` as a collective of all ranks, `Return` and `Collect`. With the
prefix grouper the partition is by groups, and `WorkBalanced` also says that
what is dispatched to a rank is made of whole ones (`GroupsStayTogether`). Results
are the rows they were computed from, so that a permutation that is not undone
shows. Left out: `keep_minibatch` (no caller sets it), the options for pipelines,
and the greedy partition, which is never called.

### ActorUpdate

`update_policy` on every data-parallel rank. A gradient is the list of the rows
it was computed from with the weight of one token of each, a fraction; weights of
a model are the versions averaged in them. `BeginMini` cuts a mini-batch (with
the all-reduce of the number of dynamic micro-batches), `Micro` is the forward
and backward pass of the next micro-batch, `OptimizerStep` drops a gradient that
is not finite (`NotFinite` says when the aggregation divides zero by zero),
`EndUpdate` updates the teacher, `Save` and `Restart` keep what a checkpoint
holds: the actor, and not the averaged teacher. `Divisor` is `agg_loss`, `Scale`
the `loss_scale_factor`.

### RewardPool

The prime reward manager and the sandbox client: rows in a process pool, one
deadline, threads of cases behind a semaphore that all processes share, retries
within a slot, results in any order, the rule that everything after the first
compile error is one, a process that dies and takes the pool with it, and the
processes killed at the end of a call, which never give their slots back. A
score function may return a dictionary (`Dict`). The manager indexes it with
`[0]`, which raises for the whole batch, and `verify` sets all its scores to 0
(`Verified`); a dictionary that comes after the deadline is not read.

### RolloutExecutor and CollectiveCall

The server sends every call over one request socket per worker and reads the
replies in the order of the workers. A worker that raises answers and leaves its
loop. A collective method holds every worker until all have entered it.
`CollectiveCall` is what a caller may expect; the refinement maps a call in
progress to `outcome = "none"` and the first failure to `broken`.

### ActivationOffload

Layers push their tensors in groups, commits issue copies on two streams, and
the window map says after which commit a group must have left. `tag` remembers
where a layer's tensors went; `leaving` and `coming` are copies issued and not
waited for. A teacher judging on the same module between the two passes commits
groups as well.

### Algorithms and the modules of functions

What is a function of its input is an operator, and `Algorithms` chooses an input
for one of them, or leads through a sequence of calls: `CallWorker` on a worker,
`OperateOnBatch` on a batch in both containers, and a conversation of several
turns (`AskEngine`, `EngineAnswers`, `ToolsReply`, `UserReplies`,
`FinishRequest`).

* `Advantages`: every registered estimator in exact fractions; what is divided by
  a standard deviation is kept as its signed square. `PolicyLoss`: every loss as
  its derivative by the log probability of a token, and the rollout correction
  with weights, bounds, normalisation and rejection. Probabilities are powers of
  two, so that ratios are whole exponents.
* `PackedForward`: the micro-batch from padded rows to log probabilities, for the
  actor and for the engine, with padding removed or not, cut over ranks, heads
  exchanged. The output of the model at a position is the set of tokens and heads
  it sees. `Kernels`: the fused kernels block by block and rank by rank, with a
  power of two for the exponential, and the plain and chunked versions.
* `Workers`: the check of the batch sizes, their normalisation, and the placement
  of weights and optimizer state through every call of both kinds of worker.
* `Containers`: the operations of DataProto and TensorDict. `WorkerGroups`: pools,
  bundles, fused classes, dispatch and collection. `Shards`: a parameter as its
  numbered rows, in the legacy Megatron model and in the two mergers.
* `Conversations`: tokens with their masks and positions, in requests of several
  turns and in the four datasets. `TrainedTokens` says what must be true of them,
  for one request or sample; `Algorithms` leads requests through their steps.

The order in which `Algorithms` calls a request (`AsyncRolloutRequest`) follows
its documentation, because its caller, the agent loop, is not in the repository.

## 3. The runs

| Run | Module, bounds | What it checks |
|---|---|---|
| `ppo_keep_two` | 2 ranks, actor and critic, keep 2 and 3, save every 2 steps plus expiry saves, 3 steps of a loop of 4, 2 crashes; 65,904 states | `TrackedCheckpointComplete`, `DataInSync`, the refinement of `DurableProgress`, and that the job ends unless its tracker was left empty |
| `ppo_keep_one_lost` | actor alone, keep 1 | a crash after rotation and before the tracker loses the only checkpoint |
| `sft` | 2 ranks, both kinds of data files, keep 2, save every 2 steps, last step 7 of a loop of 8, 2 crashes; 51,590 states | `DataLostOnce`, the refinement, and with one writer that the job ends |
| `sft_data_lost` | the same | a crash between the rename of the tracker and the data file of the other rank resumes the ranks at different batches (`DataInSync`) |
| `hybrid_in_sync` | all configurations with `KeepsInSync`, 2 workers, 2 requests, 2 updates, 1 restart; 19,634 states | `OnPolicy`, `CacheIsFresh`, `RunsAwake`, `StreamsApart`, `BackToTraining` |
| `train_step` | 3 prompts, 2 responses each, 2 data-parallel ranks, 3 orders, about 100 configurations, 2 steps; 97,507 states | `RowsAligned`, `OnPolicyStep`, `TeacherSeesItsOwn`, `ColumnsAreThere` |
| `worker_steps` | three parts, each on its own. Calls: 9, with 2 to 4 workers and 4 to 8 rows, every row of every length. Updates: 2 ranks of 2 or 3 rows with up to 2 tokens, all aggregation modes and teachers, 1 or 3 steps, 1 restart. Offloading: 2 to 7 layers, every number of groups, with and without a teacher, 2 micro-batches. 1,174,312 states; deadlock checked | `RowsReturned`, `WorkBalanced`, `NeverStuck`; `OwnRowsOnly`, `RowsWeighAlike`, `TeacherFollows`; `OffloadUnseen` |
| `reward_pool` | 2 rows with 2 cases, 2 processes, 1 slot, 2 calls, a pool that may break, rows whose score is a dictionary; 229,681 states | `ScoreIsItsOwn`, `ScoringEnds` |
| `reward_dict` | one call of the same, in which no process dies | a dictionary for one row takes the score of the others (`EveryRowsOwnScore`) |
| `rollout_executor` | 3 workers, 3 calls; 1,811 states | `NoStaleReply`, the refinement of `CollectiveCall`, `CallsEnd` |
| `algorithms` | the input sets of `MCAlgorithms`; 41,178 states | `OwnGroupOnly`, `VariantsAgree`, `OnlyKeptTokensCount`, `StepsInBounds`, `RightLogProb`, `KernelsArePlain`, `AcceptedBatchesFit`, `PlacedForUse`, `RowsStayTogether`, `ShardsMakeTheModel`, `EachWorkerItsOwn`, `OnlyAnswersAreTrained` |
| `fused_labels` | fused log probabilities on 1 and 2 ranks | rolling the labels inside a slice gives the last token of the slice the label of its first one |

`MCWorkerSteps` puts three modules that share no state side by side: `work` says
which of them a behaviour is about, and the other two stay in one of their initial
states. The three do not interact in it, and nothing is claimed of their composition.

The four runs that end in a violation show a disagreement between the code and
what one of its comments or docstrings says; `PROJECT.json` quotes the line.

Why the bounds are enough to be interesting.
* Checkpoints: the hazards need one rank ahead of another (2 ranks), a rotation
  (more saves than are kept), an expiry save off the rhythm, a critic with
  another limit than the actor, a crash in a save and another in the save after
  the restart (2 crashes, because the list of the manager is empty after the
  first). More steps repeat the same rotation. The SFT run saves every second step
  and its last step is off that rhythm; a rank can start anew at one checkpoint and
  the job be killed once more behind it.
* Hybrid engine: the first switch differs from the later ones, and the first one
  after a restart again; two updates make the second and third weights differ,
  two requests let one be aborted while another is prepared.
* Training step: the order `<<1, 3, 5, 2, 4, 6>>` splits every group between the
  ranks; mini-batches of 1, 2 and 3 prompts give several mini-batches, a short
  last one, and a single one; two steps let the version of the weights and the
  driver's copy of the loss mode carry over.
* Worker call: Karmarkar-Karp behaves differently with ties, equal rows and one
  dominating row, which all batches over three lengths contain; the ranks then
  need different numbers of micro-batches, which is what the all-reduce is for.

* Actor update: a mini-batch of two on three rows is short at the end; two kinds
  of rows mix both losses in a micro-batch; lengths of one and two make dynamic
  micro-batches of one and of two rows; three steps and an interval of two let the
  progressive teacher be late; the restart loses the averaged one.
* Reward pool: one slot for four cases makes cases wait behind retries, and a
  second call finds a slot lost to a killed process; a dictionary comes beside a
  program, in time or late.
* Executor: with three workers one can fail before, between and after the others
  in the order in which replies are read; the third call follows a failed one.
* Activation offloading: seven layers do not divide into most numbers of groups,
  so the window map has its uneven part; the second micro-batch starts from what
  the first has left.
* Algorithms: three responses are the least with a group in pieces; masks of three
  tokens contain an observation between two written tokens and an empty response;
  log ratios reach beyond every clip and cut-off; vocabularies end inside a block,
  a split and a rank; heads divide over ranks or are repeated; batches of five rows
  do not divide by two, three or seven; stages have chunks; pools are split twice;
  conversations of seven messages hold two answers with tools in between, under
  limits that stop them at each point.

Fairness. `WF_vars(Proceed)` in the checkpoint modules: processes are scheduled,
barriers are passed once all have come, and a killed job is started again by its
scheduler; crashes are bounded and not fair. In the hybrid engine only the steps
inside a call are fair: the driver may stop calling, and nothing obliges it to
abort, train or save. In the reward pool the clock, the coroutines that time out and
the end of a call are fair (asyncio schedules them on a thread of their own);
nothing is assumed of the sandbox, of score functions, of the processes or of the
semaphore, which is why `ScoringEnds` holds when programs loop and all slots are
lost. In the executor the caller runs on, and each worker takes its requests and
finishes a method it is not kept in; nobody has to fail, and nobody has to make a
call. The other modules state no fairness. The worker call needs none: each of
its steps makes progress, deadlock is checked, and `NeverStuck` says that no
worker waits in a collective for one that will not come.

## 4. What is proved

For all values of the constants, under the assumptions named in the modules:

* **PpoCheckpointProofs** `TypeCorrect`, `TrackedIsComplete`,
  `StepsAndBatchesInSync`. The second and third assume that no manager keeps
  exactly one checkpoint (`NoKeepOne`) and that restarts resume; the run
  `ppo_keep_one_lost` shows that the first assumption is needed. The inductive
  invariant is `TypeInv /\ CursorInv /\ SavedInv /\ DoomedInv /\ TrackerInv /\
  WrittenInv /\ AsyncInv /\ DataInSync /\ TrackedCheckpointComplete`.
  `TrackedCheckpointComplete` alone is not inductive: a removal could hit the
  tracked step. `SavedInv` says that `previous_saved_paths` is increasing and,
  during a save, has room for one more entry, so that `Register` removes nothing
  (the lemma `RegisterRemovesNothing`); `DoomedInv` that an evicted step is
  older than some entry that is still registered, and so older than the tracked
  one (`EvictionKeepsYoungest`); `WrittenInv` ties the positions of the ranks to
  the files that are whole; `TrackerInv` says which step the tracker names at
  which point of the save.
  `CheckpointsAreDurable` is the refinement of `DurableProgress`. It assumes, in
  addition, that the save is synchronous and `save_freq` positive. The steps on
  the tracker map to `Lose` (it is opened) and `Commit` (it is written), the ends
  of the loop body to `Advance` and `Finish`, the starts to `Restart`; the rest
  of a save is a stutter. `Advance` needs `DueInv`: a body whose step was to be
  saved ends with the tracker on that step.
* **SftCheckpointProofs** `DataLostAtMostOnce`, `BatchesInSync` and
  `CheckpointsAreDurable`, for any number of ranks, writers of data files and crashes,
  if the manager does not keep exactly one checkpoint. `BatchesInSync` is the claim of
  the source's comment as far as it is true: until the first crash, or with one writer.
  `SavedInv` and `DoomedInv` play the part they play for PPO. `TrackerInv` says that the
  tracked folder keeps its shards and rank 0's data file, which no other writer touches;
  `ManagerInv` and `TailInv` what is in the folder before the tracker names it; `PosInv`
  and `HeldInv` say of the positions of the dataloaders and of those in the data files
  that they are right or those of a rank that has started anew (`Behind`), which only
  happens after a crash; `OnlyDueInv` that a tracked step was due to be saved, so that
  the shortfall is one of few values. The tracker only grows (`TrackedGrows`), so that a
  position that was explained by a tracked step stays so. The durable step is the
  tracked one unless a data file in its folder is torn: the rename is a `Commit`, or a
  `Lose` if another rank is still writing, and then the end of the last such file is the
  `Commit`. `DueInv` says that the last barrier waits for all of them.
* **CheckpointManagerProofs** holds the lemmas about one step of a save that any
  trainer can use: typing, frame, which files a step can remove, order of the
  list, positions.
* **ProtocolProofs** on `HybridEngine`: `TypeCorrect`, `EngineIsAwake`, `StreamsNeverMix` for
  every configuration, `EngineIsOnPolicy` and `CacheStaysFresh` when every
  configuration satisfies `KeepsInSync`. Types need `RequestInv`: pending
  requests exist only while the manager serves, and engines are not touched
  meanwhile. The weights need `SyncInv`: a job trains the base or the adapter
  and never both (`OneTrained`); with LoRA the base is there from the launch on
  and is kept or sent again (`BaseThere`); a worker in rollout mode has the
  trained weights from its switch until it sleeps (`EngineInv`); a pending
  request uses the adapter exactly in a LoRA job (`LoraInv`); the cache is empty
  outside of serving (`CacheInv`).
* **TrainStepProofs** `RowsStayAligned`, `StepsAreOnPolicy`,
  `TeachersSeeTheirOwn`, `ColumnsAreFilled`, for any batch, number of responses and
  ranks, any orders the balancing may choose and any number of steps. None of the
  four is inductive. `TableInv` says of every column what its cells speak of, in
  terms of the sample the row of the responses is from, so that it survives every
  reordering and every union; `RewardInv` that scores which are under way are still
  those of the rows as they lie (the reason why nothing may reorder between launch
  and await); `VersionInv` that responses and log probabilities are of the weights
  the update starts from; `ShownInv` that what the teacher is shown was taken from
  the rows as they lie; `ColumnInv` which columns are there at each stage;
  `RolloutInv`, `ModeInv` and `UpdateInv` tell the state before the union, the loss
  mode of the driver, and the inside of the update.
* **SequenceProofs** is, in its first part, about the functions of `seqlen_balancing.py`, for
  any number of rows, parts and any workloads.
  `KarmarkarKarpDivides`: the loop of the differencing method ends with every row
  in one part, no part empty, parts of equal size when that was asked for, and
  workloads no further apart than in the worst of the states it began with (one
  row's workload, or the spread of one slice of neighbours). `BalancedPartitionsDivide` is
  the same of `get_seqlen_balanced_partitions`, whose assertions therefore hold;
  `GroupPartitionsDivide` is about `get_group_balanced_partitions`, and says besides
  that the rows of a group stay in one part (`GroupsWhole`).
  The loop is a recursive function over the heap; its invariant is `HeapInv`: the
  states of the heap hold disjoint rows that together are all, and each is `Fit`,
  which is `GoodSets` (sets of distinct rows with their totals), `Shaped` (either all
  sets of one length; or none empty; or none with more than one row, which is what
  keeps a part from ending empty) and `SumsWithin` (no further apart than D).
  `MergeKeepsSpread` is the step on which the balance rests: a merge of two states
  leaves the totals no further apart than they were in one of the two.
  `RestoreUndoesGather`: for any division into micro-batches `restore_dynamic_batch`
  returns results to their rows.
* **BatchProofs** on `WorkerCall`: `EveryRowReturned`, `WorkIsBalanced`,
  `NoWorkerIsStuck`, for any call with any number of workers and rows. The invariant
  `CallInv` has three parts. `DriverInv`: after the dispatch each worker holds the rows
  of its data-parallel rank, in the order of the driver. `WorkerInv`: its micro-batches
  cover its rows once each, and its results so far are the rows of those it
  has run; when it has returned, they are its chunk in its order, which is
  `RestoreUndoesGather`. `Lockstep`: all workers have run as many micro-batches and
  have as many, because the all-reduce has made the counts equal and a forward pass
  is a collective; this is what makes `NeverStuck` hold.
  On `ActorUpdate`: `TheTeacherFollows`, `StepsUseTheirRows`, `AllRowsWeighAlike`,
  for any number of ranks, rows, kinds of rows, steps and restarts. The first needs
  `TeacherInv` (`OneTeacher`: all micro-batches of a step had one teacher; `RefInv`:
  the averaged teacher is that of the ends of steps so far, and the progressive one was
  replaced no longer ago than its interval). The other two need `GradInv`: the gradient of a
  rank lists the rows of the first n micro-batches, and the rest are pending. The
  lemma `MicroBatchesAre` says that the micro-batches, dynamic ones through
  `BalancedPartitionsDivide`, cover the mini-batch; `WeightOfRow` that scale and
  divisor of a micro-batch multiply to a weight which no longer depends on it.
* **ProtocolProofs** on `RolloutExecutor`: `RepliesAreFresh` and `ExecutorImplementsCall`, for
  any number of workers and calls. `NoStaleReply` is not inductive: `CallerInv`
  says which sockets wait at every point of a call (those sent to and not yet
  read), `MessageInv` that a request or reply under way belongs to the present
  call and is the only message of its socket, `DidInv` which calls a worker has
  carried out, `ReplyInv` what a reply tells of the worker that sent it. With
  these `Call` maps to `Start`, `Succeed` to `CarryOut`, `Fail` to `Break`, `End`
  to `Return` or `Raise`, and every other step to a stutter.
* **ProtocolProofs** on `RewardPool`: `FirstErrorIsFirst` and `ScoresAreTheirOwn`, for
  any number of rows, cases, processes, slots, retries and calls. The invariant follows
  a case through its answer (`AnswerInv`, `ResultInv`: the result of a case that was
  answered is what its own program does), the first compile error over all orders of the
  answers (`FirstErrorInv`), and a row from its process to the caller (`IdleInv`, which
  ties the scores to the answers between two calls, `ReturnedInv`, and `NoScoreInv` for
  rows that give no score of their own). Returning a row overwrites the results behind
  its first compile error; the lemma `ScoreIsPassed` shows that counting afterwards is
  counting what passed before that error.
* **ProtocolProofs** on `ActivationOffload`: `OffloadingIsUnseen`, for any number of layers, groups
  and micro-batches. The lemma `Windows` is the arithmetic of `layer_window_map`:
  windows increase, end behind the layer whose tensors leave in them, and the last
  one is the last layer. `ForwardInv` then counts the groups issued against the
  commits, `BackwardInv` says which groups are still to be reloaded and that the
  only reload not waited for is that of the window passed last, and `LayerInv`
  that the tensors of the layers to come are those still held.
* **AlgorithmsProofs** `WeightsArePlaced` and `SizesFit`, under `InputAssumption` (the
  options have the values the configuration can give them, and `sp` divides the number
  of GPUs). The first is about any sequence of calls of a worker with any offload
  setting. `PlacedForUse` is not inductive: what a call finds on the GPU depends on
  what the last one left there. `PlacementInv` says where the parts of a worker rest
  between calls: an FSDP worker puts every part back; an engine worker may be left
  with its weights on the CPU by `wake_up` even when nothing is to be offloaded, and
  only its next computation fetches them; one that has computed nothing yet, and so may
  be given a checkpoint, still has them. The lemmas `ModelMoved` to `ContextLeft` say what
  each move does, one lemma per call that it ends in a resting state again.
  `SizesFit` is the arithmetic of the batch sizes for numbers of any size. It rests
  on `SplitAddsUp` (a split into equal parts and a last smaller one loses no row),
  `EvenSplit`, and the products that the asserts of the workers make exact:
  `RowsAddUp`, `StepsAsConfigured` and `EngineDoesTheSame` are its three claims.
* **AlgorithmsProofs** `AnswersAreTrained`, under `TalkAssumption` (a conversation has
  messages, lengths and limits are numbers, a sample does not begin with an answer), for
  messages of any number and length, any replies and limits, on the lemmas of the second
  part of **SequenceProofs**. `OnlyAnswersAreTrained` is not inductive: it compares the
  tokens on one line with the template and says nothing of where a mark was put on or
  taken off. `Unfinished` does. A request ends with the mark for an answer (`Asked`) or
  has none (`Ended`), and apart from it its tokens are `Faithful`: the template of its
  messages, or shorter because newlines are missing behind the engine's answers. The
  steps rest on two families of lemmas. One is about concatenation: the template of more
  messages is that of the first ones and their tokens (`ToldGrows`), `ContentIdsAre`
  says that cutting off the base conversation by its length leaves exactly the tokens
  of the new messages, and `FlatMapConcatenated` is why turns can be tokenised one by
  one. The other is about `Learned`, which looks back for the last mark of a role:
  `LearnedBefore` (what follows changes nothing), `AnswersAreLearned` and
  `OthersAreNotLearned`. `FinishedIsTrue` is the cut to the limits of model and
  response. For samples, `TurnsAre` says that tokens and loss masks of the turns, each
  without the system prompt that the template puts before it, add up to those of the whole
  conversation, and `FittedIs` what is left after cutting and padding on either side;
  `AnswerIsTrue` is the item of one answer, whose loss is shifted by one position.

Induction. The induction theorems of the library take an operator as a parameter,
which the provers cannot instantiate. Where a proof needs an induction over numbers
it is stated about a set instead: a set of naturals with zero and with the successor
of each of its elements up to a bound is everything up to that bound. With this
the recursive functions of `SeqlenBalancing` and the sums of the folds are unfolded step by step.

Only model-checked: all liveness (`EndsUnlessTrackerEmpty`, `Ends`, `BackToTraining`,
`ScoringEnds`, `CallsEnd`; fairness and `ENABLED` are beyond the prover), and the
other nine invariants of `Algorithms`.
These compare functions of data with a reference definition of the same function, over
sequences and sums that each would need an induction of its own; a few of them (pools
and bundles, the merging of shards) have little data and are the ones to begin with.

## 5. Not modelled, and why

* Text and its meaning: score functions, environment feedback, the wording of
  chat templates (tokens are counted, not spelled).
* Vision: the positions of image tokens, image processing, the vision models.
* Numerical code without control of its own: initialisation, rotary embeddings,
  tiled MLPs, NPU variants, the optimizer, metrics and profiler; the losses whose
  derivative is no power of two (sapo, kl_cov), PF-PPO resampling, KL controllers.
* The forward pass of the legacy Megatron model, whose worker is not in the
  repository, and the critic (`verl.workers.critic` is imported and missing);
  `TrainStep` models the critic's update from the calls of the trainer.
* The epoch boundary. `fit` resumes in epoch `global_steps // len(dataloader)`
  (ray_trainer.py:2414) although the dataloader state was saved inside the loop
  body; whether the first resumed epoch is empty then depends on the stateful
  dataloader, a library. The checkpoint modules count the batches delivered.
* Code no path of the repository reaches: TransferQueue glue (needs an environment
  variable no script sets), rollout skip. Vendored PyTorch code. Tracking and
  evaluation scripts.

## 6. Observations

What was met while translating and is in no run as a violation. Some of it is
left out of the models as a case that raises an exception, some is the content of
an exclusion in a property.

* Checkpoints. `previous_saved_paths` starts empty in every process
  (checkpoint_manager.py:60), so that directories saved before a restart are never
  removed. The AWS branch of the expiry test (checkpoint_manager.py:266) asks
  neither for time left nor for a measured step: after the expiry every step is
  saved. The PPO tracker is truncated before it is written (ray_trainer.py:2082). In
  SFT the warning of a rank that finds no data file is printed on rank 0 only, which
  always has one (checkpoint_handler.py:176-184): the others start anew unnoticed.
* Server. `abort_all_requests` takes a snapshot (vllm_async_server.py:604); a
  request in preparation is not aborted. Sleeping is safe only because the caller
  waits for its requests.
* Executor. The replies are unpickled as they are read (vllm_async_server.py:163). One
  that cannot be raises there and leaves the replies of the other sockets unread, for
  the next call to trip over; `Receive` takes every reply to be readable.
* Balancing. The number of micro-batches is the total over the limit, but the
  partition balances workloads: three rows of two tokens with a limit of three
  make a micro-batch of four (seqlen_balancing.py:387).
* Self-distillation. Answer hints with a prompt that has none lead to a step
  that computes an advantage without rewards (the configurations `ColumnsAreThere`
  excludes). In a mixed micro-batch the distillation loss of no tokens is zero
  divided by zero, which drops the step on all ranks.
* Advantages. REINFORCE++ restarts its running return before an observation;
  estimators that mask the rewards lose an outcome reward on a rejected token. The two
  forms of RLOO part on a group of one, although their docstrings are the same
  (core_algos.py:488, 732): the loop leaves its score as it is (core_algos.py:513-525),
  the vectorised form gives 0 (line 753). `VariantsAgree` compares them on larger groups
  and says of a group of one what each of them gives.
* Kernels. The fused kernels pad the vocabulary with logits of zero where its last block
  ends beyond it (kernels.py:286-320), which a plain softmax would not. The reference of
  `KernelsArePlain` has the same padding (`Completed`), so that it shows the blocks,
  splits and ranks to be put together rightly and says nothing against the padding.
* Workers. `optimizer_offload` without `param_offload` raises; log-probability
  micro-batches can become zero by the floor division (fsdp_workers.py:269).
* Engine. The teacher's layout with fused kernels and the paths of the prefix
  grouper (a tuple where a dictionary is read) fail.
* Batches. Columns with NaN are never equal, so they cannot be united; the loop of
  `chunk_tensordict` rebinds `td`, so a second 3-D nested column is read from a
  piece (tensordict_utils.py:309); automatic padding stays on the caller's batch.
* Worker groups. A merged pool forgets `max_colocate_count`; the first call of
  `get_placement_groups` returns the groups unsorted; workers read
  `LOCAL_WORLD_SIZE` (worker.py:211) and are given `RAY_LOCAL_WORLD_SIZE`
  (ray/base.py:542).
* Datasets. With left truncation `SFTDataset` masks by lengths before the cut;
  a multi-turn sample that starts with the assistant trains the system prompt the
  template puts before it, as it masks a fixed number of tokens of an answer and keeps the
  prompt of the first message (multiturn_sft_dataset.py:206-216), so that samples which
  begin with an answer are left out; an RLHF dataset that is resumed reads everything again
  and, shuffled without a seed, draws other samples.
* Mergers. The mesh of parameters that are not DTensors is made from the number
  of ranks rather than their indices (fsdp_model_merger.py:112), and FSDP with TP
  is refused; `get_dynamic_pipeline_shards` raises for some sizes; a value head is
  saved as `lm_head`; fewer key-value heads than ranks are refused.
* Seven source files, `protocol.py` among them (line 124), hold lines of an ssh
  client's debug output and do not parse as they stand. The models read the code
  around them.
* Imported and missing: `verl.workers.critic`, `verl.utils.megatron_utils`,
  `verl.models.mcore`, `verl.experimental.agent_loop`. Without a caller:
  `AsyncRolloutRequest`, `RMDataset`, the sum and mean reductions of the kernels,
  the greedy partition.

## 7. Where to go on

`Epochs`, with a model of the stateful dataloader, refining the counter `pos`. Lemmas
about the operators behind `Algorithms` that have little data: dispatch and collection
of `WorkerGroups`, the division and merging of `Shards`.
