------------------------------- MODULE Algorithms -------------------------------
(***************************************************************************)
(* The algorithms of a training step on every input of a bounded set: one  *)
(* input is chosen for each of them, and the properties compare what the   *)
(* algorithm computes from it with what it has to be.                      *)
(***************************************************************************)
EXTENDS Advantages, PolicyLoss, PackedForward, TrainedTokens

CONSTANTS
    Batches,        \* for the estimators
    Micros,         \* micro-batches for the losses, with the options used
    Forwards,       \* micro-batches for the forward pass, with its options
    KernelJobs,     \* tokens and weights for the fused kernels
    SizeConfigs,    \* batch sizes
    WorkerKinds,    \* workers before their model is built
    Protos,         \* batches before any operation
    ModelJobs,      \* models in pieces, and how they are divided
    GroupJobs,      \* pools, roles and calls of worker groups
    Talks,          \* conversations before the rollout, with their limits
    SampleJobs,     \* samples of the datasets
    LongestTalk,    \* the messages of a conversation at most
    LongestBatch    \* the rows of a batch at most

VARIABLES
    work,           \* which algorithm runs
    input           \* what it is given

inputVars == <<work, input>>

K == INSTANCE Kernels
W == INSTANCE Workers
C == INSTANCE Containers
D == INSTANCE Shards
G == INSTANCE WorkerGroups

ASSUME InputAssumption ==
    /\ \A c \in SizeConfigs :
        /\ c.train \in Nat \ {0} /\ c.n \in Nat \ {0} /\ c.mini \in Nat \ {0}
        /\ c.gpus \in Nat \ {0} /\ c.sp \in Nat \ {0} /\ c.gpus % c.sp = 0
        /\ {c.micro, c.microPerGpu, c.logProb, c.logProbPerGpu} \subseteq Nat \cup {W!Unset}
    \* FSDP's own offloading is an option of the FSDP workers.
    /\ \A w \in WorkerKinds : \E stack \in {"fsdp", "engine"}, policy, lora \in BOOLEAN :
        \E offload \in SUBSET {"param", "optimizer"} :
            /\ w = W!Worker(stack, offload, policy, lora)
            /\ policy => stack = "fsdp"

ASSUME TalkAssumption ==
    /\ LongestTalk \in Nat
    /\ \A r \in Talks : /\ r.messages \in Seq(Messages) \ {<<>>}
                        /\ r.limits \in [model : Nat, response : Nat]
    \* A conversation to learn from does not begin with an answer, and an answer
    \* is a text.
    /\ \A s \in SampleJobs :
        /\ s.kind = "turns" => /\ s.messages \in Seq(Messages) \ {<<>>}
                              /\ s.messages[1].role # "assistant" /\ s.c.max \in Nat
        /\ s.kind = "answer" => /\ {s.question, s.answer} \subseteq Messages
                               /\ s.answer.images = 0 /\ s.c.max \in Nat

ChooseInit == work = "none" /\ input = <<>>

EstimateAdvantages == work = "none" /\ work' = "estimators" /\ input' \in Batches
ComputeLoss == work = "none" /\ work' = "losses" /\ input' \in Micros
ComputeLogProb == work = "none" /\ work' = "forward" /\ input' \in Forwards
RunKernel == work = "none" /\ work' = "kernel" /\ input' \in KernelJobs

StartGroup == work = "none" /\ work' = "groups" /\ input' \in GroupJobs
DivideModel == work = "none" /\ work' = "shards" /\ input' \in ModelJobs
SizeBatches == work = "none" /\ work' = "sizes" /\ input' \in SizeConfigs

StartWorker ==
    work = "none" /\ work' = "worker" /\ input' \in {W!Start(w) : w \in WorkerKinds}
\* A checkpoint is loaded before anything else is done.
CallWorker ==
    /\ work = "worker"
    /\ input.alive
    /\ \E call \in {"update_actor", "compute_log_prob", "compute_ref_log_prob",
                     "save_checkpoint", "load_checkpoint", "wake_up"} :
        /\ call = "load_checkpoint" => input.used = {}
        /\ input' = W!Call(input, call)
    /\ UNCHANGED work

-----------------------------------------------------------------------------
(***************************************************************************)
(* A batch in its two containers, and what the operations make of it.      *)
(* Ragged and solid are columns whose rows are of different lengths.       *)
(***************************************************************************)
StartBatch ==
    /\ work = "none" /\ work' = "batch"
    /\ input' \in {[proto |-> p, dict |-> C!ToTensorDict(p, {"ragged", "solid"}, {"solid"})] : p \in Protos}

Ordered(n) == [i \in 1 .. n |-> i]
BothSelected(p, td, rows) ==
    [proto |-> C!SelectIdxs(p, rows), dict |-> C!IndexSelectTensorDict(td, rows)]
\* The operations on rows that the trainer and the workers use.
Operated(p, td) ==
    LET n == C!Length(p) IN
    {BothSelected(p, td, <<n, 1, n>>),
     [proto |-> C!Reorder(p, Reverse(Ordered(n))),
      dict |-> C!IndexSelectTensorDict(td, Reverse(Ordered(n)))]}
    \cup {[proto |-> C!Repeat(p, 2, interleave), dict |->
            C!IndexSelectTensorDict(td, IF interleave THEN C!Interleaved(n, 2) ELSE C!Tiled(n, 2))] :
                interleave \in BOOLEAN}
    \cup {[proto |-> C!SampleLevelRepeat(p, times), dict |->
            C!IndexSelectTensorDict(td, C!Repeated(times))] :
                times \in {[i \in 1 .. n |-> i % 3]}}
    \cup {[proto |-> C!SliceOf(p, cut[1], cut[2], 2), dict |->
            C!IndexSelectTensorDict(td, C!Slice(n, cut[1], cut[2], 2))] :
                cut \in {<<0, -1>>, <<1, 100>>, <<-3, 100>>}}
    \cup {[proto |-> C!PadDataProtoToDivisor(p, d), dict |-> C!PadToDivisor(td, d)] : d \in {2, 3, 7}}
    \cup {[proto |-> C!Padding(p, 1, side), dict |->
            C!IndexSelectTensorDict(td, Append(Ordered(n), IF side = "first" THEN 1 ELSE n))] :
                side \in {"first", "last"}}
    \cup UNION {LET ps == C!Chunk(p, d, FALSE)
                    tds == C!ChunkTensorDict(td, d)
                IN IF ps = <<>> THEN {}
                   ELSE {[proto |-> C!Concat(Reverse(ps)), dict |->
                            IF tds = <<>> THEN C!Failed ELSE C!ConcatTensorDict(Reverse(tds))]}
                        \cup {[proto |-> ps[i], dict |-> IF tds = <<>> THEN C!Failed ELSE tds[i]] :
                                i \in DOMAIN ps} : d \in {2, 3}}
\* Nothing follows a failure, nor a batch without rows or tensors.
OperateOnBatch ==
    /\ work = "batch"
    /\ input.proto # C!Failed /\ input.dict # C!Failed
    /\ C!Length(input.proto) > 0
    /\ input' \in {b \in Operated(input.proto, input.dict) :
                    b.proto = C!Failed \/ C!Length(b.proto) <= LongestBatch}
    /\ UNCHANGED work

-----------------------------------------------------------------------------
(***************************************************************************)
(* A conversation in the rollout: the engine is asked, answers or fails,   *)
(* and the tools or the user reply.                                        *)
(***************************************************************************)
StartRequest ==
    /\ work = "none" /\ work' = "request"
    /\ input' \in {[phase |-> "told", cut |-> FALSE, talk |-> V!InitializeRequest(r.messages, r.limits)] :
                    r \in Talks}
NextId == Len(input.talk.messages) + 1
Said(phase, cut, talk) == input' = [phase |-> phase, cut |-> cut, talk |-> talk]
AskEngine ==
    /\ work = "request" /\ input.phase = "told"
    /\ Said("asked", FALSE, V!GetGenerationPromptIds(input.talk, FALSE).request)
    /\ UNCHANGED work
\* The engine gives the tokens of its answer with the end mark, or without it
\* when it was cut off, or only the text.
EngineAnswers ==
    /\ work = "request" /\ input.phase = "asked"
    /\ NextId <= LongestTalk
    /\ LET m == V!Message(NextId, "assistant", 2, 0) IN
       \E ids \in {<<>>, V!Content(m), Append(V!Content(m), V!End)} :
            LET cut == ids = V!Content(m)
            IN Said(IF cut THEN "last" ELSE "answered", cut, V!AddAssistantMessage(input.talk, m, ids))
    /\ UNCHANGED work
ToolsReply ==
    /\ work = "request" /\ input.phase = "answered"
    /\ \E sizes \in {<<<<0, 0>>>>, <<<<1, 0>>>>, <<<<1, 1>>, <<0, 0>>>>, <<<<0, 2>>, <<1, 1>>>>} :
        /\ Len(input.talk.messages) + Len(sizes) <= LongestTalk
        /\ Said("told", FALSE, V!AddToolResponseMessages(input.talk,
                [i \in DOMAIN sizes |-> V!Message(NextId + i - 1, "tool", sizes[i][1], sizes[i][2])]))
    /\ UNCHANGED work
UserReplies ==
    /\ work = "request" /\ input.phase = "answered"
    /\ NextId <= LongestTalk
    /\ Said("told", FALSE, V!AddUserMessage(input.talk, V!Message(NextId, "user", 1, 0)))
    /\ UNCHANGED work
\* At the end, also when the engine has failed.
FinishRequest ==
    /\ work = "request" /\ input.phase \in {"asked", "answered", "last"}
    /\ Said("done", input.cut, V!Finalize(input.talk, IF input.phase = "last" THEN "length" ELSE "stop"))
    /\ UNCHANGED work
PickSample == work = "none" /\ work' = "sample" /\ input' \in SampleJobs

ChooseNext == PickSample \/ StartRequest \/ AskEngine \/ EngineAnswers \/ ToolsReply \/ UserReplies
            \/ FinishRequest
            \/ StartBatch \/ OperateOnBatch \/ DivideModel \/ StartGroup
            \/ ComputeLoss \/ EstimateAdvantages \/ ComputeLogProb \/ RunKernel
            \/ SizeBatches \/ StartWorker \/ CallWorker

ChooseSpec == ChooseInit /\ [][ChooseNext]_inputVars

-----------------------------------------------------------------------------
(***************************************************************************)
(* Advantages.  Half and Whole(1) stand for any gamma and lambda.          *)
(***************************************************************************)
\* The estimators that compare the scores of a group, and the token baselines.
GroupEstimators(b) ==
    <<Grpo(b, TRUE), Grpo(b, FALSE), GrpoVectorized(b, TRUE), GrpoPassK(b, TRUE), Rloo(b),
      RlooVectorized(b), Opo(b), OptimalTokenBaseline(b, TRUE), TirOptimalTokenBaseline(b, TRUE)>>

\* The rows of b at the positions S, in their order.
Part(b, S) == LET at == SetToSortSeq(S, LAMBDA i, j : i < j)
              IN [k \in DOMAIN at |-> b[at[k]]]
Nth(S, k) == SetToSortSeq(S, LAMBDA i, j : i < j)[k]

\* The advantages of a response depend on its own group only: they are the
\* same when the group is a batch of its own, whatever rows of other prompts
\* lie between its rows.  (GPG and the estimators that whiten over the batch
\* are not of this kind.)
OwnGroupOnly ==
    work = "estimators" =>
        \A whole \in {GroupEstimators(input)}, g \in {input[i].group : i \in DOMAIN input} :
            LET S == {i \in DOMAIN input : input[i].group = g} IN
            \A alone \in {GroupEstimators(Part(input, S))} : \A e \in DOMAIN whole :
                (whole[e] # None /\ alone[e] # None) =>
                    \A k \in DOMAIN alone[e] : alone[e][k] = whole[e][Nth(S, k)]

Prefix(row) == \A s, t \in Tokens(row) : s < t /\ row.mask[t] = 1 => row.mask[s] = 1
SingleTurn(b) == \A i \in DOMAIN b : Prefix(b[i]) /\ b[i].mask[1] = 1

\* Variants of an estimator agree where both are defined: the vectorised GRPO
\* with the loop, RLOO with the mean of the other responses in both its forms,
\* the multi-turn token baseline with the single-turn one, REINFORCE++ without a
\* discount with the returns of ReMax, and GAE with lambda 1 with the returns.
\* A response that is alone in its group is the exception: the loop of RLOO
\* leaves its score as it is, the vectorised form makes it 0.
VariantsAgree ==
    work = "estimators" =>
        \A rloo \in {Rloo(input)}, rlooVectorized \in {RlooVectorized(input)},
           returns \in {Remax(input, [j \in DOMAIN input |-> Whole(0)])},
           gae \in {GaeAdvantages(input, Whole(1), Whole(1))} :
        /\ \A norm \in BOOLEAN : Grpo(input, norm) = GrpoVectorized(input, norm)
        /\ \A i \in DOMAIN input : \A t \in Tokens(input[i]) :
            IF Singleton(input, i)
            THEN /\ rloo[i][t] = Whole(input[i].mask[t]) ** Score(input[i])
                 /\ rlooVectorized[i][t] = Whole(0)
            ELSE /\ rloo[i][t] = Whole(input[i].mask[t]) **
                        (Score(input[i]) -- MeanScore(input, Group(input, i) \ {i}))
                 /\ rlooVectorized[i][t] = rloo[i][t]
        /\ SingleTurn(input) =>
            /\ LET whitened == Whitened(input, returns) IN
               ReinforcePlusPlus(input, Whole(1)) =
                    IF whitened = None THEN None ELSE Masked(input, whitened)
            /\ TirOptimalTokenBaseline(input, TRUE) = OptimalTokenBaseline(input, TRUE)
            /\ \A i \in DOMAIN input : \A t \in Tokens(input[i]) : input[i].mask[t] = 1 =>
                /\ RunningReturns(input[i], Whole(1))[t] = returns[i][t]
                /\ gae[i][t] = returns[i][t] -- Whole(input[i].value[t])

\* An observation token at position p, whatever the critic makes of it; the
\* other responses are padded to the same length.
Observe(row, p) ==
    LET With(f, x) == InsertAt(f, p, x)
    IN [row EXCEPT !.reward = With(@, 0), !.mask = With(@, 0), !.value = With(@, 7),
                   !.energy = With(@, 5)]

MultiTurnEstimators(b) ==
    <<Grpo(b, TRUE), Rloo(b), Opo(b), TirOptimalTokenBaseline(b, TRUE),
      Remax(b, [i \in DOMAIN b |-> Frac(1, 2)])>>
    \o <<GaeAdvantages(b, Frac(1, 2), Frac(1, 2)), Gae(b, Whole(1), Whole(1)),
         ReinforcePlusPlusBaseline(b)>>

\* What the model did not write changes no advantage of what it wrote: an
\* observation token inserted into a response leaves the advantages of the
\* other tokens as they were.  (It does not hold of REINFORCE++, whose running
\* return starts anew before an observation.)
ObservationsDoNotCount ==
    work = "estimators" =>
        \A before \in {MultiTurnEstimators(input)}, p \in {2, 3} :
            LET seen == [i \in DOMAIN input |-> Observe(input[i], IF i = 1 THEN p ELSE Len(input[i].mask) + 1)] IN
            \A after \in {MultiTurnEstimators(seen)} :
            \A e \in DOMAIN before : \A i \in DOMAIN input : \A t \in Tokens(input[i]) :
                (before[e] # None /\ input[i].mask[t] = 1) =>
                    after[e][i][IF i = 1 /\ t >= p THEN t + 1 ELSE t] = before[e][i][t]

ScoreEstimators(b) ==
    <<Grpo(b, TRUE), GrpoVectorized(b, FALSE), GrpoPassK(b, TRUE), Rloo(b),
      RlooVectorized(b), Gpg(b)>>

\* Tokens that the rollout correction rejects before the advantages are
\* computed leave those of the remaining tokens as they were, also when the
\* reward is on a rejected token.  (It does not hold of the estimators that
\* mask the rewards, nor of OPO, whose baseline depends on the lengths.)
RejectionSparesTheRest ==
    work = "estimators" =>
        \A before \in {ScoreEstimators(input)}, from \in Tokens(input[1]) :
            \A less \in {[input EXCEPT ![1].mask =
                            [t \in DOMAIN @ |-> IF t >= from THEN 0 ELSE @[t]]]} :
            \A after \in {ScoreEstimators(less)} : \A e \in DOMAIN after :
                after[e] = IF before[e] = None THEN None ELSE Masked(less, before[e])

\* Only the tokens that are kept of what the model wrote count.
OnlyKeptTokensCount == ObservationsDoNotCount /\ RejectionSparesTheRest

-----------------------------------------------------------------------------
(***************************************************************************)
(* Losses.  An input has the micro-batch, the range in which covariances   *)
(* are cut, the level and the threshold of the weights, and the options    *)
(* of the rejection.                                                       *)
(***************************************************************************)
NoGradient(d) == d.by = Whole(0)
Beyond(a, x) == \/ a > 0 /\ Whole(LossConfig.high) \prec x
                \/ a < 0 /\ x \prec Whole(LossConfig.low)
BeyondDual(a, x) == a < 0 /\ Whole(LossConfig.dual) \prec x
Pushes(d, a, x) == d = [by |-> Whole(0 - a), exp |-> x]

\* A token whose ratio has left the clip range in the direction its advantage
\* asks for is pushed no further, by any loss that clips; inside the range the
\* gradient is -A times the ratio; and no loss pushes against the advantage.
ClipsInTime ==
    work = "losses" =>
        \A i \in DOMAIN input.micro : \A t \in Written(input.micro[i]) :
            LET row == input.micro[i]
                a == row.adv[t]
                x == Whole(LogRatio(row, t))
                mean == MeanLogRatio(row)
                vanilla == Vanilla(row, t)
                cispo == Cispo(row, t)
            IN
            /\ Beyond(a, x) \/ BeyondDual(a, x) => NoGradient(vanilla)
            /\ Beyond(a, mean) => NoGradient(Gspo(row, t))
            /\ Beyond(a, x) => NoGradient(GeoMean(row, t))
            /\ (a # 0 /\ Whole(LossConfig.low) \prec x /\ x \prec Whole(LossConfig.high)) =>
                Pushes(vanilla, a, x)
            /\ (a # 0 /\ Whole(LossConfig.low) \prec mean /\ mean \prec Whole(LossConfig.high)) =>
                Pushes(Gspo(row, t), a, mean)
            /\ a # 0 => /\ Whole(LossConfig.low) \preceq cispo.exp
                        /\ cispo.exp \preceq Whole(LossConfig.high)
            /\ \A chosen \in CovChoices(input.micro, input.cov[1], input.cov[2], 1) :
                LET d == ClipCov(input.micro, chosen, i, t)
                IN /\ Beyond(a, x) \/ <<i, t>> \in chosen => NoGradient(d)
                   /\ (a # 0 /\ ~ NoGradient(d)) => Pushes(d, a, x)
            /\ \A d \in {vanilla, Gspo(row, t), cispo, Reinforce(row, t)} :
                d.by ** Whole(a) \preceq Whole(0)

\* The three ways to correct for the engine's probabilities are one
\* correction: where nothing is clipped or cut off, the weights of the
\* decoupled mode times the ratio of PPO, the ratio of PPO in bypass mode and
\* the weights of REINFORCE in bypass mode all give -A times the ratio of the
\* trained policy to the engine, once.  Where the engine is too far away,
\* bypass mode with PPO stops as PPO does.
CorrectedOnce ==
    work = "losses" =>
        \A i \in DOMAIN input.micro : \A t \in Written(input.micro[i]) :
            LET row == input.micro[i]
                a == row.adv[t]
                ppo == row.new[t] - row.old[t]
                engine == row.old[t] - row.rollout[t]
                both == row.new[t] - row.rollout[t]
                Inside(x) == LossConfig.low < x /\ x < LossConfig.high /\ x <= input.threshold
            IN
            /\ (a # 0 /\ Inside(ppo) /\ Inside(engine) /\ Inside(both)) =>
                /\ Pushes(Decoupled(row, "token", input.threshold, t), a, Whole(both))
                /\ Pushes(Bypass(row, "token", input.threshold, "ppo_clip", t), a, Whole(both))
                /\ Pushes(Bypass(row, "token", input.threshold, "reinforce", t), a, Whole(both))
            /\ Beyond(a, Whole(both)) =>
                NoGradient(Bypass(row, input.level, input.threshold, "ppo_clip", t))

\* What a k1 option keeps has a weight between the inverses of its bounds: a
\* token its own, a row of seq_sum the weight of the sequence; with that, no
\* kept weight is cut off by a threshold that is not below the inverse of the
\* lower bound.  (A sequence statistic cuts off each token at the safety bound,
\* the weight of the sequence only their sum.)  The normalised weights average one over all that count.
KeptWeightsInBounds ==
    work = "losses" =>
        LET x == [i \in DOMAIN input.micro |-> [t \in DOMAIN input.micro[i].mask |->
                    input.micro[i].old[t] - input.micro[i].rollout[t]]]
            kept == Rejected(input.micro, x, input.options)
            level == input.level
            normal == IsWeights(input.micro, x, level, input.threshold, TRUE)
            rows == {i \in DOMAIN input.micro : Written(input.micro[i]) # {}}
        IN
        /\ \A o \in input.options : \A i \in DOMAIN kept : \A t \in Written(kept[i]) :
            (/\ o.k = "k1" /\ o.level = (IF level = "token" THEN "token" ELSE "seq_sum")
             /\ \A s \in DOMAIN x[i] : Size(x[i][s]) <= SafetyBound) =>
                LET e == IsExponent(input.micro[i], x[i], level, 2 * SafetyBound, t)
                IN /\ Whole(0 - e) \preceq o.high /\ o.low \preceq Whole(0 - e)
                   /\ (Whole(0) -- o.low) \preceq Whole(input.threshold) => e <= input.threshold
        /\ \A i \in DOMAIN kept :
            (\A o \in input.options : o.level # "token") =>
                Written(kept[i]) \in {{}, Written(input.micro[i])}
        /\ Whole(1) =
            IF level = "token" THEN Average(LAMBDA p : normal[p[1]][p[2]], AllWritten(input.micro))
            ELSE Average(LAMBDA i : normal[i][CHOOSE t \in Written(input.micro[i]) : TRUE], rows)

\* A token moves the policy as far as the loss clips, corrected once, with a
\* weight in the bounds of the rejection.
StepsInBounds == ClipsInTime /\ CorrectedOnce /\ KeptWeightsInBounds

-----------------------------------------------------------------------------
\* What the log probability of a token has to be made of: the tokens before it
\* in its own row, seen by every head with the key head of its group, the token
\* itself as the label, its own top-k indices and the temperature of its row.
Meant(job, i, k) ==
    LogProb([h \in 1 .. job.heads |->
                <<h, ((h - 1) \div (job.heads \div job.kvHeads)) + 1,
                  [t \in 1 .. job.rows[i].prompt + k - 1 |-> <<i, t>>]>>],
            <<i, job.rows[i].prompt + k>>,
            IF job.engine \/ job.fused # "none" THEN Pad ELSE Given(i, k), i)

AllMeant(job) ==
    \A logProbs \in {ForwardMicroBatch(job)} : logProbs # Raises =>
        \A i \in DOMAIN job.rows : \A k \in 1 .. job.rows[i].response :
            logProbs[i][k] = Meant(job, i, k)

\* The score of a response is the output at its last token, and stands there.
ScoreAtTheEnd(job) ==
    \A scores \in {ComputeRmScore(job)}, i \in DOMAIN job.rows : \A k \in 1 .. job.R :
        scores[i][k] = IF k = job.rows[i].response THEN Meant(job, i, k + 1).output ELSE Zero

\* However the rows are padded, packed, divided over ranks and put together
\* again, the log probability of a response token is its own, and the reward
\* model's score of a response is that of its last token.  (It is not when
\* the engine keeps the padding in PPO: the mask hides what is beyond R; nor
\* with fused kernels on several ranks, or with a given start of the response.)
RightLogProb ==
    (/\ work = "forward"
     /\ input.engine => input.removePadding \/ input.sft
     /\ input.fused # "none" => input.sp = 1 /\ input.layout = "sides") =>
        /\ AllMeant(input)
        /\ (/\ ~ input.engine /\ input.fused = "none" /\ input.layout = "sides"
            /\ \A i \in DOMAIN input.rows : input.rows[i].prompt + input.rows[i].response > 1) =>
                ScoreAtTheEnd(input)

\* compute_log_prob computes "the log probability of the responses given
\* input_ids, attention_mask and position_ids": so it does with a fused kernel
\* and a sequence divided over ranks.
FusedLogProb ==
    (work = "forward" /\ input.fused # "none") => AllMeant(input)

-----------------------------------------------------------------------------
\* The vocabulary of every rank filled up, with words of weight 0, to the end
\* of its last split, and all of them on one rank.
Completed(job) ==
    LET vocab == K!VocabSize(job)
        full == K!NumSplits(job) * job.perSplit
        Label(x) == (x \div vocab) * full + (x % vocab)
    IN [job EXCEPT
            !.weight = <<FlattenSeq([r \in DOMAIN job.weight |->
                            job.weight[r] \o [n \in 1 .. full - vocab |-> 0]])>>,
            !.labels = [m \in DOMAIN job.labels |-> Label(job.labels[m])]]

\* Log probabilities, entropies and gradients from the fused kernels, tile by
\* tile, split by split and rank by rank, with any method of the backward
\* pass, are those of the plain version on one rank.  Words that are missing
\* to the last split count with a logit of 0: only a vocabulary that fills its
\* last split is computed exactly.
KernelsArePlain ==
    work = "kernel" =>
        \A whole \in {Completed(input)}, saved \in {K!EfficientEntropyForward(input)} :
            /\ \A plain \in {K!FusedLinearForward(whole)} : \A m \in DOMAIN saved :
                /\ saved[m].prob = plain[m].prob
                /\ saved[m].entropyB = plain[m].mean
                /\ K!Exp2(saved[m].max) ** saved[m].accu = plain[m].z
            /\ \A gradient \in {K!FusedLinearBackward(whole)},
                  method \in {"fuse_mn", "separate", "split_n", "kernels"} :
                \A parts \in {[r \in DOMAIN input.weight |->
                                K!EfficientEntropyBackward(input, saved, r - 1, method)]} :
                    /\ \A m \in DOMAIN saved :
                        K!SumOf([r \in DOMAIN parts |-> parts[r].hidden[m]]) = gradient.hidden[m]
                    /\ \A r \in DOMAIN parts : \A n \in 1 .. K!VocabSize(input) :
                        parts[r].weight[n] =
                            gradient.weight[(r - 1) * K!NumSplits(input) * input.perSplit + n]
-----------------------------------------------------------------------------
AddedUp(sizes) ==
    LET sum[k \in 0 .. Len(sizes)] == IF k = 0 THEN 0 ELSE sum[k - 1] + sizes[k]
    IN sum[Len(sizes)]

\* Batch sizes that pass the check and the workers' asserts divide the work as
\* configured: every row is in one micro-batch; when the mini-batch divides the
\* batch and the ranks divide the mini-batch, an update takes train / mini
\* steps with full micro-batches; and the engine workers, where they accept
\* the sizes, do the same as the FSDP workers.  (When the ranks do not divide
\* the mini-batch, it is rounded down and there are more steps.)
AcceptedBatchesFit ==
    (work = "sizes" /\ W!ValidateConfig(input) /\ W!Normalize(input) # W!Raises) =>
        LET size == W!Normalize(input)[1]
            update == W!UpdatePolicy(input)
            rows == W!RowsOf(input)
        IN
        /\ rows * W!DataParallelSize(input) = input.train * input.n
        /\ AddedUp([k \in DOMAIN update |-> AddedUp(update[k])]) = rows
        /\ size.logProb > 0 => AddedUp(W!ComputeLogProb(input)) = rows
        /\ (/\ (input.mini * input.n) % W!DataParallelSize(input) = 0
            /\ input.train % input.mini = 0) =>
                /\ Len(update) = input.train \div input.mini
                /\ \A k \in DOMAIN update : \A m \in DOMAIN update[k] : update[k][m] = size.micro
        /\ W!EngineAccepts(input) => W!TrainMiniBatch(input) = update

\* Whatever the order of the calls, the weights and the state of the optimizer
\* are on the GPU, or brought there by FSDP, when a worker computes with them,
\* and off the GPU between two calls when they are to be offloaded, also after
\* the rollout has taken the weights.  (An engine that is to offload the
\* optimizer but not the weights fails when it is built.)
PlacedForUse ==
    work = "worker" =>
        /\ "cpu" \notin input.used
        /\ input.alive \/ (input.stack = "engine" /\ input.offload = {"optimizer"})
        /\ input.alive =>
            /\ "param" \in input.offload => input.model # "gpu"
            /\ "optimizer" \in input.offload => input.optimizer # "gpu"

-----------------------------------------------------------------------------
\* A worker's result: its part of the batch, with its metrics.
Reported(p, i) == [p EXCEPT !.meta = [k \in DOMAIN @ \cup {"metrics"} |->
                                        IF k = "metrics" THEN <<[loss |-> i]>> ELSE @[k]]]
\* Taking a batch apart and putting it together again.
RoundTrips(p, td) ==
    LET n == C!Length(p)
        keys == DOMAIN p.tensors
        wire == C!SerializeTensorDict(p.size, p.tensors, td.ragged)
        popped == C!Popped(p, {"ids"}, {}, {"temperature"})
        rest == C!AfterPop(p, {"ids"}, {}, {"temperature"})
        taken == C!PopKeys(td, {"ids", "uid"})
    IN
    /\ \A size \in 1 .. n :
        /\ C!Concat(C!Split(p, size)) = p
        /\ n % size = 0 =>
            LET ps == C!Chunk(p, n \div size, FALSE)
                order == Reverse(Ordered(n))
            IN /\ LET whole == C!Concat([i \in DOMAIN ps |-> Reported(ps[i], i)])
                  IN /\ [whole EXCEPT !.meta = p.meta] = p
                     /\ whole.meta["metrics"] = <<[loss |-> Ordered(n \div size)]>>
               /\ \A i \in DOMAIN ps :
                    /\ C!FutureGet(C!FutureChunk(ps, n \div size)[i]) = ps[i]
                    /\ C!AllGatherDataProto(ps[i], ps) = p
               /\ C!UnfoldBatchDim(C!FoldBatchDim(p, size)) = p
               /\ C!UnfoldColumnChunks(C!FoldBatchDim(p, size), n \div size, keys \cup {"uid"})
                    = C!FoldBatchDim(p, n)
               /\ LET mini == C!MakeIterator(p, size, order)
                      minis == C!IteratorOf(td, size, order)
                  IN /\ C!Concat(mini) = C!SelectIdxs(p, order)
                     /\ \A m \in DOMAIN mini : C!ToTensorDict(mini[m], td.ragged, td.solid) = minis[m]
    /\ \A d \in 2 .. 4 :
        LET padded == C!PadDataProtoToDivisor(p, d)
        IN /\ C!Length(padded) % d = 0
           /\ C!UnpadDataProto(padded, C!PadSize(n, d)) = p
           /\ LET wide == C!PadToDivisor(td, d) IN
              wide # C!Failed => C!Unpad(wide, C!PadSize(n, d)) = td
    /\ C!SelectMask(p, [i \in 1 .. n |-> i % 2 = 1]) =
            C!SelectIdxs(p, SelectSeq(Ordered(n), LAMBDA i : i % 2 = 1))
    /\ popped = C!Select(p, {"ids"}, {}, {"temperature"})
    /\ C!Rename(C!Rename(p, <<"ids">>, <<"tokens">>), <<"tokens">>, <<"ids">>) = p
    /\ LET numbered == C!AssignNonTensor(C!AssignNonTensor(td, "row", Ordered(n), TRUE), "epochs", 5, FALSE)
           turned == C!IndexSelectTensorDict(C!Contiguous(numbered), Reverse(Ordered(n)))
       IN /\ turned.stacks["row"] = Reverse(Ordered(n))
          /\ C!GetNonTensorData(turned, "epochs", 0) = 5
    /\ C!DeserializeTensorDict(wire) = [size |-> p.size, tensors |-> p.tensors, ragged |-> td.ragged]
    /\ C!FromTensorDict(C!ToTensorDict(p, td.ragged, td.solid), <<>>) = p
    /\ (\A i \in 1 .. n : p.tensors["ids"][i] # C!NaN) =>
        /\ C!UnionOf(rest, popped) = p
        /\ C!UnionOf(p, popped) = p
        /\ C!AssertTensorDictEq(C!IndexSelectTensorDict(td, Ordered(n)), td)
        /\ C!UnionTensorDicts(taken.left, taken.popped) = td

\* A batch and its containers.
BatchTogether(p, dict) ==
    LET columns == {p.tensors[k] : k \in DOMAIN p.tensors} \cup {p.rest[k] : k \in DOMAIN p.rest} IN
    /\ Cardinality(columns) = 1
    /\ dict # C!Failed => C!ToTensorDict(p, dict.ragged, dict.solid) = dict
    /\ (dict # C!Failed /\ C!Length(p) > 0) => RoundTrips(p, dict)

(***************************************************************************)
(* Samples of the datasets.                                                *)
(***************************************************************************)
PairTrue(c, question, chosen, rejected) ==
    LET pair == V!RmItem(c, question, chosen, rejected)
        Fill(row) == Cardinality({t \in DOMAIN row.ids : row.ids[t] # V!Pad})
        Whole2(m) == question.text + m.text + (IF c.addEos THEN 1 ELSE 0)
    IN /\ \A k \in 1 .. 2 : \A t \in 1 .. c.max :
            /\ (pair[k].attention[t] = 1) = (pair[k].ids[t] # V!Pad)
            /\ t <= question.text => pair[1].ids[t] = pair[2].ids[t]
       /\ Fill(pair[1]) = c.max \/ Fill(pair[1]) = Whole2(chosen)
       /\ Fill(pair[2]) = c.max \/ Fill(pair[2]) = Whole2(rejected)
\* Each placeholder gets the next picture of its kind, and none is left over.
PicturesTrue(messages, media) ==
    LET built == V!BuildMessages(messages, media)
        Placed(kind) == SelectSeq(FlattenSeq(built), LAMBDA x : x[1] = kind)
        Wanted(kind) == SelectSeq(FlattenSeq(messages), LAMBDA x : x = kind)
    IN IF \A kind \in DOMAIN media : media[kind] = <<>>
       THEN built = messages
       ELSE /\ V!BuildTurnMessages(messages, media) = built
            /\ IF built = <<>>
               THEN \E kind \in DOMAIN media : Len(Wanted(kind)) # Len(media[kind])
               ELSE \A kind \in DOMAIN media :
                        Placed(kind) = [k \in DOMAIN media[kind] |-> <<kind, media[kind][k]>>]
\* A dataset that was saved and resumed has the rows it had, when they are
\* drawn as before, and its parts are all of it in order.
FileTrue(c, drawn) ==
    LET docs == V!ReadFilesAndTokenize(c, drawn)
        data == [docs |-> docs, originals |-> TRUE, serialize |-> FALSE]
        parts(n) == V!SplitDataset(data, n)
    IN /\ V!ResumeDatasetState(V!GetState(data), c, drawn) = data
       /\ Len(docs) <= Len(FlattenSeq(c.files))
       /\ \A k \in DOMAIN docs : c.filter => docs[k].length \in 1 .. c.maxPrompt
       /\ \A n \in 1 .. 4 :
            IF parts(n) = <<>> THEN docs = <<>> \/ Len(docs) % n # 0
            ELSE /\ FlattenSeq([k \in 1 .. n |-> parts(n)[k].docs]) = docs
                 /\ \A k \in 1 .. n : Len(parts(n)[k].docs) = Len(docs) \div n
\* Row by row, the columns of a batch are those of its samples, whatever is
\* known of each.
ColumnsTrue(docs, ragged) ==
    LET rows == [i \in DOMAIN docs |-> V!RlhfItem(docs[i])]
        Made(samples, batch) == \A k \in DOMAIN batch : /\ DOMAIN batch[k] = DOMAIN samples
            /\ \A i \in DOMAIN samples : k \in DOMAIN samples[i] => batch[k][i] = samples[i][k].value
        mixed == V!CollateVariableBatch(ragged)
    IN /\ V!CollateFn(rows) # V!Failed /\ Made(rows, V!CollateFn(rows))
       /\ Made(rows, V!CollateVariableBatch(rows))
       /\ IF mixed = V!Failed THEN \E i, j \in DOMAIN ragged : DOMAIN ragged[i] # DOMAIN ragged[j]
          ELSE Made(ragged, mixed)

\* Whatever is done to a batch, in either container, the columns of a row are
\* those of one and the same original row, tensors or not; the two containers
\* agree; and what is cut, padded, folded, sent or popped comes back as it was.
\* The samples of a dataset keep their questions, pictures and rows.
RowsStayTogether ==
    /\ (work = "batch" /\ input.proto # C!Failed) => BatchTogether(input.proto, input.dict)
    /\ work = "sample" =>
        /\ input.kind = "pair" => PairTrue(input.c, input.question, input.answer, input.rejected)
        /\ input.kind = "pictures" => PicturesTrue(input.messages, input.media)
        /\ input.kind = "file" => FileTrue(input.c, input.drawn)
        /\ input.kind = "columns" => ColumnsTrue(input.docs, input.ragged)
-----------------------------------------------------------------------------
\* What a checkpoint of the legacy model keeps: a value head is called
\* lm_head, and one that was not loaded is as it was made.
Stored(m, full) ==
    LET kept == {k \in DOMAIN full : k[2] \notin {"lm_head", "reward_head"}}
        head == IF m.value = "none" THEN D!Initial
                ELSE full[D!Key(D!NoLayer, IF m.value = "reward_head" THEN "reward_head" ELSE "lm_head")]
    IN Restrict(full, kept)
       @@ (IF m.tied THEN << >> ELSE D!Key(D!NoLayer, "lm_head") :> head)
Numbers(units) == [k \in DOMAIN units |-> units[k][3]]

\* On rank t of its group, a layer's query heads meet the key heads they have
\* in the whole model, its gates their own up-projections, and what comes out
\* meets the columns of the next matrix that belong to it.
PiecesMeet(m, tp, t, full, layer, piece) ==
    LET heads == D!AttentionHeads(m, tp, piece.qkv)
        pairs == D!Mlp(m, tp, piece.gate_up)
        Whole3(name, h) == D!HeadOf(m, full[D!Key(layer, name)], h)
        Global(h) == t * (m.heads \div tp) + h
        group == m.heads \div m.kvHeads
    IN
    /\ \A h \in DOMAIN heads :
        heads[h] = [q |-> Whole3("q", Global(h)), k |-> Whole3("k", Global(h) \div group),
                    v |-> Whole3("v", Global(h) \div group)]
    /\ Numbers(piece.o) = Numbers(D!QkvSplit(m, tp, piece.qkv).q)
    /\ \A i \in DOMAIN pairs : /\ pairs[i][1][3] = pairs[i][2][3]
                               /\ pairs[i][1][3] = piece.down[i][3]
    /\ Len(pairs) = Len(piece.down)

\* Cut and put together again, also when ranks share a key head.
QkvRoundTrip(m, tp) ==
    LET full == D!FullModel(m)
        Of(name) == full[D!Key(0, name)]
    IN (m.heads % tp = 0 /\ (m.kvHeads % tp = 0 \/ tp % m.kvHeads = 0)) =>
        D!SplitQkv(m, tp, [t \in 0 .. tp - 1 |->
            D!FetchTpShardQkv(m, tp, Of("q"), Of("k"), Of("v"), t)])
        = [q |-> Of("q"), k |-> Of("k"), v |-> Of("v")]

LegacyModel(m, p, mask) ==
    LET full == D!FullModel(m)
        ranks == D!LoadStateDict(m, p, full)
        map == D!LayerMap(m, p)
        out == D!Forward(m, p, mask)
    IN
    /\ ranks = D!LoadByBroadcast(m, p, full)
    /\ D!MergeMegatronCkpt(m, p, ranks) = Stored(m, full)
    /\ \A rank \in DOMAIN ranks : \A layer \in DOMAIN map :
        LET at == D!Coordinates(p, rank) IN
        map[layer][1] = at.pp =>
            PiecesMeet(m, p.tp, at.tp, full, layer, ranks[rank].layers[Tail(map[layer])])
    /\ \A r \in DOMAIN mask : \A s \in DOMAIN mask[r] : mask[r][s] = 1 =>
        out[r][s] = [token |-> <<r, s>>,
                     sees |-> {<<r, u>> : u \in {u \in 1 .. s : mask[r][u] = 1}},
                     through |-> [i \in 1 .. m.layers |-> i - 1]]

\* A model of DTensors, with and without an adapter.
FsdpModel(m, c) ==
    LET full == D!FullModel(m)
        merged == D!MergeFsdp(c, full)
        InAdapter == {k \in DOMAIN full : k[2] = "q"}
        lora == [key \in [of : DOMAIN full, part : {"weight"}]
                            \cup [of : InAdapter, part : {"lora"}] |-> full[key.of]]
        wrapped == [key \in {[k EXCEPT !.part = IF k.part = "weight" /\ k.of \in InAdapter
                                                 THEN "base_layer" ELSE @] : k \in DOMAIN lora} |->
                        full[key.of]]
        saved == D!SaveLoraAdapter(wrapped)
    IN
    /\ (c.dtensor \/ D!FsdpWorld(c) = 1) /\ c.placement # "partial" => merged = full
    /\ saved.model @@ saved.adapter = lora
    /\ DOMAIN saved.adapter = [of : InAdapter, part : {"lora"}]

McoreModel(m, stages) ==
    LET full == D!FullModel(m)
        shards == D!GetDynamicPipelineShards(m.layers, stages)
        merged == D!MergeMcore(m, full, stages)
        files == [rank \in 0 .. stages - 1 |-> D!SaveIndexes(merged[rank], shards, rank)]
        ranks == 0 .. stages - 1
    IN shards # D!Refused =>
        /\ AddedUp(shards) = m.layers /\ \A i \in DOMAIN shards : shards[i] > 0
        /\ FoldFunction(LAMBDA x, y : x @@ y, << >>, merged) = full
        /\ \A r, q \in ranks : r # q => /\ DOMAIN merged[r] \cap DOMAIN merged[q] = {}
                                        /\ DOMAIN files[r] \cap DOMAIN files[q] = {}
        /\ UNION {DOMAIN files[r] : r \in ranks} = 0 .. m.layers * D!SavesPerLayer(m.layers) - 1
        /\ \A r \in ranks : UNION {files[r][i] : i \in DOMAIN files[r]} = DOMAIN merged[r]

\* The pieces make the model.  Loaded onto the ranks of a Megatron model by
\* either loader and collected again, every parameter is what it was, the
\* pieces on a rank fit each other, and a token goes through all layers in
\* order and sees the tokens before it in its own row.  Merging a checkpoint of
\* FSDP or Megatron-core gives the model back, under its own names, each
\* parameter in one file.
ShardsMakeTheModel ==
    work = "shards" =>
        /\ (input.kind = "legacy" /\ D!Accepted(input.model, input.p)) =>
            LegacyModel(input.model, input.p, input.mask)
        /\ input.kind = "legacy" => QkvRoundTrip(input.model, input.p.tp)
        /\ input.kind = "fsdp" => FsdpModel(input.model, input.c)
        /\ input.kind = "mcore" => McoreModel(input.model, input.stages)

-----------------------------------------------------------------------------
(***************************************************************************)
(* Worker groups.                                                          *)
(***************************************************************************)
ValuesOf(s) == {s[i] : i \in DOMAIN s}
BundlesOf(workers) == {workers[i].bundle : i \in DOMAIN workers}
PoolBundles(p) == UNION {{<<<<p.name, i>>, b>> : b \in 0 .. p.store[i] - 1} : i \in DOMAIN p.store}
Alone(p) == G!RayWorkerGroup(p, <<>>, {}, {})

\* A group has a worker of its own on each bundle of its pool, under a name of
\* its own, and its ranks are in the order of the GPUs.
Fills(workers, size, bundles) ==
    /\ Len(workers) = size /\ BundlesOf(workers) = bundles /\ Cardinality(bundles) = size
    /\ Cardinality({workers[i].name : i \in DOMAIN workers}) = size
    /\ \A i \in DOMAIN workers : workers[i].rank = i - 1 /\ workers[i].world = size

\* The whole pool, wherever its nodes come in the order of the cluster; and the
\* parts of a pool and the parts of its last part.
PoolFilled(p, ips, sizes, again) ==
    /\ \A whole \in {G!RayWorkerGroup(p, ips, {}, {})}, moved \in {G!RayWorkerGroup(p, Reverse(ips), {}, {})} :
        /\ Fills(whole, p.size, PoolBundles(p))
        /\ \A i \in DOMAIN whole :
            /\ whole[i].ip = moved[i].ip /\ whole[i].master = whole[1].ip
            /\ whole[i].bundle[2] = G!LocalRankList(p.store)[i]
            /\ whole[i].localWorld = G!LocalWorldSizeList(p.store)[i]
    /\ \A parts \in {G!SplitResourcePool(p, sizes, ips)} :
        \A leaves \in {Front(parts) \o G!SplitResourcePool(Last(parts), again, ips)} :
            \A groups \in {[i \in DOMAIN leaves |-> Alone(leaves[i])]} :
                /\ \A i \in DOMAIN leaves : Fills(groups[i], leaves[i].size, BundlesOf(groups[i]))
                /\ UNION {BundlesOf(groups[i]) : i \in DOMAIN leaves} = PoolBundles(p)
                /\ \A i, j \in DOMAIN leaves : i # j => BundlesOf(groups[i]) \cap BundlesOf(groups[j]) = {}
    /\ \A size \in 1 .. p.size : p.size % size = 0 =>
        \A equal \in {G!SplitEvenly(p, size, ips)} : \A i \in DOMAIN equal :
            Cardinality(BundlesOf(Alone(equal[i]))) = size
MergedFilled(a, b, ipsA, ipsB) ==
    Fills(Alone(G!MergeResourcePool(a, b, ipsA, ipsB)), a.size + b.size, PoolBundles(a) \cup PoolBundles(b))
\* Refused only when no choice of different groups is large enough.
ExtractedFits(pgs, store) ==
    LET got == G!ExtractPgFromExist(pgs, store)
        Fit(choice) == \A i \in DOMAIN store : choice[i].bundles >= store[i]
    IN IF got # <<>> THEN Fit(got) /\ IsInjective(got)
       ELSE ~ \E choice \in [DOMAIN store -> ValuesOf(pgs)] : IsInjective(choice) /\ Fit(choice)
\* The process sees the GPU that Ray gave it, whichever variable says so.
RightDevice(env, noset, id) ==
    LET set == G!SetupVisibleDevices(env, noset, id)
        said == {env.cuda, env.hip, env.rocr} \ {""}
    IN set # G!Failed => /\ Cardinality(said) <= 1
                         /\ set.visible = IF said = {} THEN "" ELSE CHOOSE x \in said : TRUE
                         /\ noset => set.localRank = id

\* The method called on the group of a role runs in that role, in both kinds of
\* processes; a method for the rollout is called on the process.
RolesReached(roles) ==
    LET cls == G!ColocatedWorkerCls(roles)
        Direct(r, m) == G!IsDirect(r[1], r[2][m])
    IN IF cls = <<>>
       THEN \E i, j \in DOMAIN roles : i # j /\ \E m \in DOMAIN roles[i][2] \cap DOMAIN roles[j][2] :
                Direct(roles[i], m) /\ Direct(roles[j], m)
       ELSE \A i \in DOMAIN roles : \A m \in DOMAIN G!Registered(roles[i][2]) :
                LET r == roles[i]
                    meant == G!Bound(r[1], m, G!Registered(r[2])[m])
                IN /\ G!FusedRuns(roles, r[1], {}, m) = meant
                   /\ IF m \in DOMAIN r[2] /\ Direct(r, m) THEN cls[m] = meant
                      ELSE G!SpawnedRuns(cls, r[1], m) = meant

\* A call returns the rows it was given, each once and in their order, whatever
\* was padded, and is refused only if the rows cannot be divided; a list meant
\* for every worker is not dealt out.
RowsOf(value) == value.is.tensors["ids"]
\* Two roles in sp * dp processes; each registers its ranks with itself.
RanksOf(w, sp) ==
    LET dp == (w - 1) \div sp
        first == (w - 1) % sp = 0
    IN [r \in {G!Process, <<"actor">>, <<"ref">>} |->
            CASE r = <<"actor">> -> G!RegisterInfo(<<>>, "actor", dp, first)
              [] r = <<"ref">> -> G!SetDispatchCollect(<<>>, "ref", <<dp>>, <<first>>)
              [] OTHER -> <<>>]
RowsBack(c) ==
    LET method == <<"compute">>
        class == method :> [mode |-> c.mode, execute |-> "ALL"]
        cls == G!ColocatedWorkerCls(<<<<<<"actor">>, class>>, <<<<"ref">>, class>>>>)
        world == c.dp * c.sp
        processes == [w \in 1 .. world |-> RanksOf(w, c.sp)]
        chunks == IF c.mode = "ND_COMPUTE" THEN c.dp ELSE world
        args == IF c.mode = "DP_COMPUTE_PROTO_WITH_FUNC" THEN <<G!Plain("f"), c.arg>> ELSE <<c.arg>>
        n == Len(RowsOf(c.arg))
        marked == c.arg.kind = "batch" /\ G!IsPaddingEnabled(c.arg.is, FALSE)
    IN \A role \in {<<"actor">>, <<"ref">>} :
       \A back \in {G!CallSpawned(cls, role, method, processes, role[1], args, Len(args))} :
        IF back = G!Plain(G!Failed)
        THEN IF c.mode = "DP_COMPUTE_PROTO" THEN c.arg.kind = "dict" \/ (n % chunks # 0 /\ ~ marked)
             ELSE n % chunks # 0
        ELSE RowsOf(back) = RowsOf(c.arg)
ListBack(mode, world, items) ==
    \A back \in {G!Functor([mode |-> mode, execute |-> "ALL"], world, <<>>, <<G!List(items)>>, 1)} :
       CASE mode = "ONE_TO_ALL" -> back = G!List([w \in 1 .. world |-> G!List(items)])
         [] mode = "DP_COMPUTE" /\ Len(items) # world -> back = G!Plain(G!Failed)
         [] mode = "DIRECT_ROLLOUT_METHOD" -> back = G!Plain(G!Failed)
         [] OTHER -> Len(items) = world => back = G!List(items)

\* Every worker of a group has a GPU of its own and the groups on the parts of
\* a pool share none, a group's ranks lie on the nodes in one order, the method
\* of a role runs in that role, and what a call returns is what it was given.
EachWorkerItsOwn ==
    work = "groups" =>
        /\ input.kind = "pool" => PoolFilled(input.pool, input.ips, input.sizes, input.again)
        /\ input.kind = "merge" => MergedFilled(input.a, input.b, input.ips, input.ipsB)
        /\ input.kind = "extract" => ExtractedFits(input.pgs, input.store)
        /\ input.kind = "device" => RightDevice(input.env, input.noset, input.id)
        /\ input.kind = "roles" => RolesReached(input.roles)
        /\ input.kind = "call" => RowsBack(input)
        /\ input.kind = "list" => ListBack(input.mode, input.world, input.items)

-----------------------------------------------------------------------------
(***************************************************************************)
(* Conversations.                                                          *)
(***************************************************************************)
\* What is trained in a conversation is what the assistant said, all of it and
\* nothing else, however its turns were tokenised one by one, cut and padded,
\* and the conversation is the one that the chat template makes of it.
OnlyAnswersAreTrained ==
    /\ work = "request" => RequestTrue(input)
    /\ work = "sample" =>
        /\ input.kind = "turns" => TurnsTrue(input.c, input.messages)
        /\ input.kind = "answer" => AnswerTrue(input.c, input.question, input.answer)
===============================================================================
