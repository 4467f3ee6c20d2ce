------------------------------- MODULE TrainStep -------------------------------
(***************************************************************************)
(* One training step of RayPPOTrainer.fit: the batch is a table that the   *)
(* driver fills column by column, from the rollout to the update of the    *)
(* actor, and the actor consumes it in mini-batches on its data-parallel   *)
(* ranks (DataParallelPPOActor.update_policy).                             *)
(*                                                                         *)
(* Cells hold their provenance instead of tensors: the samples they were   *)
(* computed from and the version of the weights that computed them.  A     *)
(* sample is <<prompt, copy>>; copy 0 stands for the prompt itself.  A     *)
(* call of a worker group returns its rows in the order it got them.       *)
(*                                                                         *)
(* Left out: validation, metrics, the rollout correction, PF-PPO, the      *)
(* environment feedback of the teacher prompt, token-level content.        *)
(***************************************************************************)
EXTENDS Naturals, FiniteSets

CONSTANTS
    BatchSize,      \* data.train_batch_size, in prompts
    N,              \* rollout.n
    DP,             \* data-parallel ranks of the actor
    Orders,         \* the orders balancing may put the rows in
    Configs,        \* the configurations a job may run with
    MaxSteps,       \* total_training_steps
    None

Prompts == 1 .. BatchSize
Rows == 1 .. BatchSize * N
Samples == Prompts \X (1 .. N)

ASSUME StepAssumption ==
    /\ BatchSize \in Nat \ {0} /\ N \in Nat \ {0} /\ DP \in Nat \ {0}
    /\ MaxSteps \in Nat \ {0}
    /\ (BatchSize * N) % DP = 0
    /\ \A c \in Configs : c.miniBatch * N >= DP
    /\ Orders \subseteq [Rows -> Rows]
    /\ \A o \in Orders, j, k \in Rows : o[j] = o[k] => j = k
    /\ None \notin Prompts \X (0 .. N)
    /\ None \notin [Rows -> (Prompts \X (0 .. N)) \cup {None}]
    /\ Configs \subseteq
         [estimator : {"gae", "grpo", "remax"},
          scores : {"loop", "model", "fn"},  \* who computes the reward
          async : BOOLEAN,          \* reward_model.launch_reward_fn_async
          rolloutLogProbs : BOOLEAN,\* rollout.calculate_log_probs
          bypass : BOOLEAN,         \* rollout_correction.bypass_mode
          kl : BOOLEAN,             \* algorithm.use_kl_in_reward
          balance : BOOLEAN,        \* trainer.balance_batch
          teacher : {"none", "demo", "image", "hint"},  \* none: not vopd
          fallback : BOOLEAN,       \* fallback_to_policy_loss_on_missing_teacher
          complete : BOOLEAN,       \* every prompt has its image or answer
          miniBatch : Nat \ {0},    \* actor.ppo_mini_batch_size, in prompts
          epochs : Nat \ {0},       \* actor.ppo_epochs
          warmup : Nat]             \* trainer.critic_warmup

VARIABLES
    config,
    step,           \* global_steps
    pc,             \* what the driver does next
    actor,          \* the version of the weights of the actor
    critic,         \* and of the critic
    bypassed,       \* the driver's copy of loss_mode is "bypass_mode"
    free,           \* reward_free_teacher_vopd, as read in this step
    batch,          \* the table: batch[column][row]
    gen,            \* gen_batch_output
    good,           \* the samples whose reward reaches the threshold
    missing,        \* the prompts without image or answer for the teacher
    future,         \* the reward computed by another process
    reward,         \* reward_tensor
    shown,          \* what the teacher is shown for each row
    update          \* the progress of update_policy

data == <<gen, good, missing>>
weights == <<actor, critic>>
mode == <<bypassed, free>>
vars == <<config, step, pc, weights, mode, batch, data, future, reward, shown,
          update>>

\* The loss of the workers is vopd; the driver reads its own copy.
WorkerVopd == config.teacher # "none"
Vopd == WorkerVopd /\ ~ bypassed

\* _use_reward_free_teacher_vopd
RewardFree == Vopd /\ config.teacher \in {"image", "hint"} /\ ~ config.fallback

NoTable == [c \in {} |-> None]
Cell == [from : SUBSET (Prompts \X (0 .. N)), by : Nat]
NoUpdate == [start |-> 0, epoch |-> 0, mini |-> 0, anchors |-> {},
             seen |-> [k \in Rows |-> 0]]

TypeOK ==
    /\ config \in Configs
    /\ step \in 1 .. MaxSteps
    /\ pc \in {"load", "generate", "baseline", "merge", "balance", "reward",
               "old_log_prob", "ref_values", "adv", "teacher", "advantage",
               "update_critic", "update_actor", "training", "end", "done",
               "failed"}
    /\ actor \in Nat /\ critic \in Nat /\ bypassed \in BOOLEAN /\ free \in BOOLEAN
    /\ \A c \in DOMAIN batch : batch[c] \in
            [IF pc \in {"generate", "baseline", "merge"} THEN Prompts ELSE Rows
             -> Cell] \/ pc = "failed"
    /\ \A c \in DOMAIN gen : gen[c] \in [Rows -> Cell]
    /\ good \subseteq Samples /\ missing \subseteq Prompts
    /\ future \in [state : {"none", "running", "done"},
                   value : [Rows -> Cell] \cup {None}]
    /\ reward \in [Rows -> Cell] \cup {None}
    /\ shown \in [Rows -> Prompts \X (0 .. N) \cup {None}] \cup {None}
    /\ update \in [start : Nat, epoch : Nat, mini : Nat, anchors : SUBSET Nat,
                   seen : [Rows -> Nat]]

-----------------------------------------------------------------------------
\* DataProto.union, for one more column.
With(table, name, column) ==
    [c \in DOMAIN table \cup {name} |->
        IF c = name THEN column ELSE table[c]]

\* The columns of a worker's output: one cell per row, for its response.
Computed(by) == [k \in Rows |-> [from |-> batch["responses"][k].from, by |-> by]]

NoFuture == [state |-> "none", value |-> None]

Init ==
    /\ config \in Configs
    /\ step = 1 /\ pc = "load"
    /\ actor = 0 /\ critic = 0
    /\ bypassed = FALSE /\ free = FALSE
    /\ batch = NoTable /\ gen = NoTable
    /\ good = {} /\ missing = {}
    /\ future = NoFuture /\ reward = None /\ shown = None
    /\ update = NoUpdate

Goto(label) == pc' = label

\* An exception ends the job.
Fail == /\ pc' = "failed"
        /\ UNCHANGED <<config, step, weights, mode, batch, data, future,
                       reward, shown, update>>

-----------------------------------------------------------------------------
(***************************************************************************)
(* The rollout.                                                            *)
(***************************************************************************)

\* The batch of the dataloader gets a uid per prompt.
LoadBatch ==
    /\ pc = "load"
    /\ batch' = With(NoTable, "uid",
                     [p \in Prompts |-> [from |-> {<<p, 0>>}, by |-> 0]])
    /\ missing' \in IF config.complete THEN {{}} ELSE SUBSET Prompts
    /\ Goto("generate")
    /\ UNCHANGED <<config, step, weights, mode, gen, good, future, reward,
                   shown, update>>

\* gen_batch.repeat(n, interleave=True), and the agent loop keeps the order.
Interleaved(k) == <<(k - 1) \div N + 1, ((k - 1) % N) + 1>>

GeneratedColumns ==
    {"responses"}
        \cup (IF config.rolloutLogProbs THEN {"rollout_log_probs"} ELSE {})
        \cup (IF config.scores = "loop" THEN {"rm_scores"} ELSE {})

Generate ==
    /\ pc = "generate"
    /\ gen' = [c \in GeneratedColumns |->
                [k \in Rows |-> [from |-> {Interleaved(k)}, by |-> actor]]]
    /\ good' \in IF config.teacher = "demo" THEN SUBSET Samples ELSE {{}}
    /\ Goto(IF config.estimator = "remax" THEN "baseline" ELSE "merge")
    /\ UNCHANGED <<config, step, weights, mode, batch, missing, future,
                   reward, shown, update>>

\* main_ppo loads no reward function for a teacher that always has an image.
NoRewardFn == config.teacher = "image" /\ ~ config.fallback

\* A greedy answer per prompt, and its reward.  A reward function on the driver
\* yields a pair instead of the tensor.
Baseline ==
    /\ pc = "baseline"
    /\ IF config.scores = "fn" \/ NoRewardFn
       THEN Fail
       ELSE /\ batch' = With(batch, "reward_baselines",
                    [p \in Prompts |-> [from |-> {<<p, 0>>}, by |-> actor]])
            /\ Goto("merge")
            /\ UNCHANGED <<config, step, weights, mode, data, future,
                           reward, shown, update>>

RepeatStacked(table) ==                                          \* mutant
    [c \in DOMAIN table |->
        [k \in Rows |-> table[c][((k - 1) % BatchSize) + 1]]]
RepeatInterleaved(table) ==
    [c \in DOMAIN table |-> [k \in Rows |-> table[c][(k - 1) \div N + 1]]]

Merge ==
    /\ pc = "merge"
    /\ batch' = [c \in DOMAIN batch \cup DOMAIN gen |->
            IF c \in DOMAIN gen THEN gen[c] ELSE RepeatInterleaved(batch)[c]]
    /\ Goto("balance")
    /\ UNCHANGED <<config, step, weights, mode, data, future, reward,
                   shown, update>>

\* _balance_batch reorders the rows in place.
Reordered(table, order) ==
    [c \in DOMAIN table |-> [k \in Rows |-> table[c][order[k]]]]

Balance ==
    /\ pc = "balance"
    /\ IF config.balance
       THEN \E order \in Orders : batch' = Reordered(batch, order)
       ELSE UNCHANGED batch
    /\ Goto("reward")
    /\ UNCHANGED <<config, step, weights, mode, data, future, reward,
                   shown, update>>

-----------------------------------------------------------------------------
(***************************************************************************)
(* The reward and the log probabilities.                                   *)
(***************************************************************************)
Scores == [k \in Rows |-> [from |-> batch["responses"][k].from, by |-> 0]]

\* Without rewards the tensor is zero.  Otherwise the reward model adds a
\* column, and the reward is computed here or by another process, which works
\* on the batch as it is now.
Reward ==
    /\ pc = "reward"
    /\ batch' = IF config.scores = "model" /\ ~ RewardFree
                THEN With(batch, "rm_scores", Scores) ELSE batch
    /\ IF config.async /\ ~ RewardFree
       THEN /\ future' = [state |-> "running", value |-> Scores]
            /\ UNCHANGED reward
       ELSE /\ reward' = Scores
            /\ UNCHANGED future
    /\ free' = RewardFree
    /\ Goto("old_log_prob")
    /\ UNCHANGED <<config, step, weights, bypassed, data, shown, update>>

RewardArrives ==
    /\ future.state = "running"
    /\ future' = [future EXCEPT !.state = "done"]
    /\ UNCHANGED <<config, step, pc, weights, mode, batch, data, reward,
                   shown, update>>

HasRolloutLogProbs == "rollout_log_probs" \in DOMAIN batch

\* should_reuse_rollout_log_probs_as_old_log_probs
Reuses ==
    /\ HasRolloutLogProbs
    /\ config.epochs = 1
    /\ BatchSize = config.miniBatch

OldLogProb ==
    /\ pc = "old_log_prob"
    /\ IF config.bypass /\ ~ HasRolloutLogProbs
       THEN Fail
       ELSE /\ batch' = With(batch, "old_log_probs",
                    IF config.bypass \/ Reuses
                    THEN batch["rollout_log_probs"] ELSE Computed(actor))
            /\ bypassed' = (bypassed \/ config.bypass)
            /\ Goto("ref_values")
            /\ UNCHANGED <<config, step, weights, free, data, future, reward,
                           shown, update>>

UsesCritic == config.estimator = "gae"

\* The reference policy is never updated: its version is 0.
RefAndValues ==
    /\ pc = "ref_values"
    /\ LET withRef == IF config.kl
                      THEN With(batch, "ref_log_prob", Computed(0)) ELSE batch
       IN batch' = IF UsesCritic
                   THEN With(withRef, "values", Computed(critic)) ELSE withRef
    /\ Goto("adv")
    /\ UNCHANGED <<config, step, weights, mode, data, future, reward,
                   shown, update>>

-----------------------------------------------------------------------------
(***************************************************************************)
(* The advantage.                                                          *)
(***************************************************************************)
UidOf(k) == batch["uid"][k].from

Awaits == config.async /\ ~ free

\* ray.get(future_reward)
GetReward ==
    /\ pc = "adv"
    /\ IF Awaits
       THEN /\ future.state = "done"
            /\ reward' = future.value
            /\ future' = NoFuture
       ELSE UNCHANGED <<reward, future>>
    /\ Goto("teacher")
    /\ UNCHANGED <<config, step, weights, mode, batch, data, shown, update>>

\* _collect_solutions_by_uid and _get_solution: the first row of the same uid
\* with a good reward, other than the row itself
\* (dont_reprompt_on_self_success is on, as in actor.yaml).
SolutionsWithSelf(k) ==                                          \* mutant
    {j \in Rows : UidOf(j) = UidOf(k) /\ reward[j].from \subseteq good}
Solutions(k) ==
    {j \in Rows : /\ UidOf(j) = UidOf(k)
                  /\ reward[j].from \subseteq good
                  /\ j # k}
First(S) == CHOOSE j \in S : \A i \in S : j <= i

TheOne(S) == CHOOSE x \in S : TRUE

\* What the teacher of row k is shown beside the prompt, None for nothing.
DemoFor(k) ==
    IF Solutions(k) = {} THEN None
    ELSE TheOne(batch["responses"][First(Solutions(k))].from)
InputFor(k) ==
    IF TheOne(UidOf(k))[1] \in missing THEN None ELSE TheOne(UidOf(k))
ShownTo(k) == IF config.teacher = "demo" THEN DemoFor(k) ELSE InputFor(k)

\* _maybe_build_self_distillation_batch.  self_distillation_mask is 1 on the
\* rows with something to show.
BuildTeacherBatch ==
    /\ pc = "teacher"
    /\ IF Vopd /\ NoRewardFn /\ missing # {}
       THEN Fail
       ELSE /\ shown' = IF Vopd THEN [k \in Rows |-> ShownTo(k)] ELSE None
            /\ Goto("advantage")
            /\ UNCHANGED <<config, step, weights, mode, batch, data, future,
                           reward, update>>

\* The advantage is not computed when every row is distilled.
SkipsIfAnyShown == Vopd /\ \E k \in Rows : shown[k] # None       \* mutant
SkipsAdvantage == Vopd /\ \A k \in Rows : shown[k] # None

\* The rows an estimator compares row k with.
Group(k) ==
    IF config.estimator = "grpo"
    THEN {j \in Rows : UidOf(j) = UidOf(k)}
    ELSE {k}

Advantages ==
    [k \in Rows |->
        [from |-> UNION {reward[j].from : j \in Group(k)}, by |-> 0]]

\* apply_kl_penalty reads the two log probabilities of the row.
WithRewards ==
    IF free THEN batch
    ELSE With(With(batch, "token_level_scores", reward),
              "token_level_rewards", reward)

\* compute_advantage reads token_level_rewards, which are not there when the
\* step is free of rewards.
Advantage ==
    /\ pc = "advantage"
    /\ IF free /\ ~ SkipsAdvantage
       THEN Fail
       ELSE /\ batch' = IF SkipsAdvantage THEN WithRewards
                        ELSE With(WithRewards, "advantages", Advantages)
            /\ Goto("update_critic")
            /\ UNCHANGED <<config, step, weights, mode, data, future, reward,
                           shown, update>>

-----------------------------------------------------------------------------
(***************************************************************************)
(* The updates.                                                            *)
(***************************************************************************)
HasAdvantages == "advantages" \in DOMAIN batch

\* The critic (verl.workers.critic is not in the repository) is given the returns
\* that come with the advantages.
UpdateCritic ==
    /\ pc = "update_critic"
    /\ IF UsesCritic /\ ~ HasAdvantages
       THEN Fail
       ELSE /\ critic' = IF UsesCritic THEN critic + 1 ELSE critic
            /\ Goto("update_actor")
            /\ UNCHANGED <<config, step, actor, mode, batch, data, future,
                           reward, shown, update>>

\* The rows of a rank, and of a mini-batch on each of them.
PerRank == (BatchSize * N) \div DP
MiniSize == (config.miniBatch * N) \div DP
MiniBatches == (PerRank + MiniSize - 1) \div MiniSize
MiniRows(m) ==
    {k \in Rows : ((k - 1) % PerRank) \div MiniSize = m - 1}

\* With one mini-batch and one epoch the actor takes its own log probability
\* for the old one.
OnPolicyIfOneMini == MiniBatches = 1                             \* mutant
OnPolicy == MiniBatches = 1 /\ config.epochs = 1

BeginUpdate ==
    /\ pc = "update_actor"
    /\ IF step < config.warmup
       THEN /\ Goto("end")
            /\ UNCHANGED <<config, step, weights, mode, batch, data, future,
                           reward, shown, update>>
       ELSE IF IF WorkerVopd THEN shown = None ELSE ~ HasAdvantages
       THEN Fail
       ELSE /\ update' = [NoUpdate EXCEPT !.start = actor, !.epoch = 1,
                                          !.mini = 1]
            /\ Goto("training")
            /\ UNCHANGED <<config, step, weights, mode, batch, data, future,
                           reward, shown>>

\* Rows without a teacher need the policy loss, and so the advantages.
LacksAdvantage(k) == WorkerVopd /\ shown[k] = None /\ ~ HasAdvantages

\* One mini-batch on every rank and the step of the optimizer, which is skipped
\* when the norm of the gradient is not finite.
TrainMiniBatch ==
    /\ pc = "training" /\ update.epoch <= config.epochs
    /\ LET rows == MiniRows(update.mini)
           last == update.mini = MiniBatches
       IN IF \E k \in rows : LacksAdvantage(k)
          THEN Fail
          ELSE /\ update' = [update EXCEPT
                    !.mini = IF last THEN 1 ELSE @ + 1,
                    !.epoch = IF last THEN @ + 1 ELSE @,
                    !.anchors = @ \cup
                        (IF OnPolicy THEN {actor}
                         ELSE {batch["old_log_probs"][k].by : k \in rows}),
                    !.seen = [k \in Rows |-> IF k \in rows THEN @[k] + 1 ELSE @[k]]]
               /\ actor' \in {actor, actor + 1}
               /\ UNCHANGED <<config, step, pc, critic, mode, batch, data,
                              future, reward, shown>>

EndUpdate ==
    /\ pc = "training" /\ update.epoch > config.epochs
    /\ Goto("end")
    /\ UNCHANGED <<config, step, weights, mode, batch, data, future, reward,
                   shown, update>>

IsLastStep == step >= MaxSteps

EndStep ==
    /\ pc = "end"
    /\ IF IsLastStep THEN Goto("done") /\ UNCHANGED step
       ELSE Goto("load") /\ step' = step + 1
    /\ batch' = NoTable /\ gen' = NoTable
    /\ good' = {} /\ missing' = {}
    /\ reward' = None /\ shown' = None
    /\ update' = NoUpdate
    /\ UNCHANGED <<config, weights, mode, future>>

Terminated == pc \in {"done", "failed"} /\ UNCHANGED vars

Driver ==
    \/ LoadBatch \/ Generate \/ Baseline \/ Merge \/ Balance
    \/ Reward \/ OldLogProb \/ RefAndValues
    \/ GetReward \/ BuildTeacherBatch \/ Advantage
    \/ UpdateCritic \/ BeginUpdate \/ TrainMiniBatch \/ EndUpdate \/ EndStep

Next == Driver \/ RewardArrives \/ Terminated

Spec == Init /\ [][Next]_vars

-----------------------------------------------------------------------------
Merged == pc \notin {"load", "generate", "baseline", "merge", "done", "failed"}
SampleOf(k) == TheOne(batch["responses"][k].from)
SamplesOf(p) == {s \in Samples : s[1] = p}

\* Whatever was repeated, reordered or computed elsewhere in the meantime, every
\* column of a row speaks of the response of that row, or of its prompt; and a
\* GRPO advantage compares the response with all responses to its prompt,
\* however balancing has scattered them.
RowsAligned ==
    Merged => \A k \in Rows, c \in DOMAIN batch :
        CASE c \in {"uid", "reward_baselines"} ->
                batch[c][k].from = {<<SampleOf(k)[1], 0>>}
          [] c = "advantages" ->
                /\ SampleOf(k) \in batch[c][k].from
                /\ batch[c][k].from \subseteq SamplesOf(SampleOf(k)[1])
                /\ config.estimator = "grpo" =>
                        batch[c][k].from = SamplesOf(SampleOf(k)[1])
          [] OTHER ->
                batch[c][k].from = {SampleOf(k)}

\* All mini-batches of a step measure the policy against the weights the step
\* started with, and these are the ones that generated the responses.
OnPolicyStep ==
    pc = "training" =>
        /\ update.anchors \subseteq {update.start}
        /\ \A k \in Rows : batch["responses"][k].by = update.start

\* The teacher of a row sees a good response to the same prompt and never the
\* response it judges, and it sees one whenever there is one; with images or
\* answers it sees those of the prompt.
TeacherSeesItsOwn ==
    shown # None /\ Merged => \A k \in Rows :
        LET others == (good \cap SamplesOf(SampleOf(k)[1])) \ {SampleOf(k)}
        IN IF config.teacher = "demo"
           THEN IF shown[k] = None THEN others = {} ELSE shown[k] \in others
           ELSE shown[k] \in {None, <<SampleOf(k)[1], 0>>}

\* The configurations and data in which a step may fail.  No other one runs
\* into a column that nobody has filled.
MayFail ==
    \/ config.bypass /\ ~ config.rolloutLogProbs
    \/ config.bypass /\ WorkerVopd
    \/ UsesCritic /\ WorkerVopd
    \/ config.estimator = "remax" /\ (config.scores = "fn" \/ NoRewardFn)
    \/ /\ config.teacher \in {"image", "hint"}
       /\ ~ config.fallback /\ ~ config.complete

ColumnsAreThere == pc = "failed" => MayFail

=============================================================================
