------------------------------- MODULE Workers -------------------------------
(***************************************************************************)
(* The workers around the model: the batch sizes that the configuration    *)
(* check lets through and what the workers make of them, and where the     *)
(* weights and the optimizer's state are while a worker computes, for the  *)
(* FSDP workers (fsdp_workers.py) and the engine workers                   *)
(* (engine_workers.py and the FSDP engine).                                *)
(***************************************************************************)
EXTENDS Integers, Sequences, FiniteSets, SequencesExt

Unset == -1         \* an option that is not given
Raises == <<>>      \* the worker raises an exception

-----------------------------------------------------------------------------
(***************************************************************************)
(* Batch sizes, unless micro-batches are made by their tokens.  A          *)
(* configuration c has the batch of prompts (train), the responses n of a  *)
(* prompt, the mini-batch, the micro-batch over all GPUs or for one of     *)
(* them, the same for log probabilities, the GPUs and how many of them     *)
(* share a sequence (sp).                                                  *)
(***************************************************************************)
OneOf(total, perGpu) == (total = Unset) # (perGpu = Unset)

\* ActorConfig: one way to give the size, and sizes that divide each other.
ValidateActor(c) ==
    /\ OneOf(c.micro, c.microPerGpu)
    /\ c.train >= c.mini
    /\ c.micro # Unset => /\ c.mini % c.micro = 0
                          /\ c.micro * c.sp >= c.gpus

ValidateConfig(c) ==
    /\ (c.train * c.n) % c.gpus = 0
    /\ ValidateActor(c)
    /\ OneOf(c.logProb, c.logProbPerGpu)

DataParallelSize(c) == c.gpus \div c.sp

\* A size over all GPUs replaces the size for one.
PerGpu(total, perGpu, size) == IF total = Unset THEN perGpu ELSE total \div size

\* The mini-batch of prompts becomes one of responses, for one rank.
MiniOfPrompts(c) == c.mini \div DataParallelSize(c)                   \* mutant
MiniOfResponses(c) == (c.mini * c.n) \div DataParallelSize(c)

\* The actor's sizes on one rank; a size of 0 divides by zero.
Normalize(c) ==
    LET dp == DataParallelSize(c)
        mini == MiniOfResponses(c)
        micro == PerGpu(c.micro, c.microPerGpu, dp)
    IN IF mini > 0 /\ (micro = Unset \/ (micro > 0 /\ mini % micro = 0 /\ mini \div micro > 0))
       THEN <<[mini |-> mini, micro |-> micro,
               logProb |-> PerGpu(c.logProb, c.logProbPerGpu, dp)]>>
       ELSE Raises

\* DataProto.split: parts of a size, the last one what is left.
Split(total, size) ==
    [k \in 1 .. (total + size - 1) \div size |->
        IF k * size <= total THEN size ELSE total - ((k - 1) * size)]

RowsOf(c) == (c.train * c.n) \div DataParallelSize(c)

\* The micro-batches of every mini-batch of an update, by their sizes.
UpdatePolicy(c) ==
    LET size == Normalize(c)[1]
        minis == Split(RowsOf(c), size.mini)
    IN [k \in DOMAIN minis |-> Split(minis[k], size.micro)]
ComputeLogProb(c) == Split(RowsOf(c), Normalize(c)[1].logProb)

\* Tensors are cut into that many parts of the larger size, or fewer.
Chunk(total, parts) == Split(total, (total + parts - 1) \div parts)

\* What the engine workers take: sizes for one GPU, mini-batches that every
\* rank has the same part of, and rows that make whole mini-batches.
EngineAccepts(c) ==
    LET mini == c.mini * c.n IN
    /\ c.microPerGpu # Unset /\ c.logProbPerGpu # Unset
    /\ mini % DataParallelSize(c) = 0
    /\ RowsOf(c) % (mini \div DataParallelSize(c)) = 0
    /\ (mini \div DataParallelSize(c)) \div c.microPerGpu > 0
TrainMiniBatch(c) ==
    LET mini == (c.mini * c.n) \div DataParallelSize(c)
    IN [k \in 1 .. RowsOf(c) \div mini |-> Chunk(mini, mini \div c.microPerGpu)]

-----------------------------------------------------------------------------
(***************************************************************************)
(* Memory.  A worker w has the kind of its stack, what it is to offload    *)
(* between calls, whether the model has LoRA adapters, where the weights   *)
(* and the state of the optimizer are, and where they were while the last  *)
(* call computed with them.  "managed" is FSDP's own offloading, which     *)
(* brings weights to the GPU when they are needed; an optimizer is "empty" *)
(* before its first step.                                                  *)
(***************************************************************************)
Worker(stack, offload, policy, lora) ==
    [stack |-> stack, offload |-> offload, policy |-> policy, lora |-> lora,
     model |-> "gpu", optimizer |-> "empty", used |-> {}, alive |-> TRUE]

\* Managed weights are skipped, and an empty state has nothing to move.
MoveModel(w, place) == [w EXCEPT !.model = IF @ = "managed" THEN @ ELSE place]
MoveOptimizer(w, place) == [w EXCEPT !.optimizer = IF @ = "empty" THEN @ ELSE place]

OffloadModel(w) == IF "param" \in w.offload THEN MoveModel(w, "cpu") ELSE w
LoadModel(w) == IF "param" \in w.offload THEN MoveModel(w, "gpu") ELSE w
OffloadOptimizer(w) == IF "optimizer" \in w.offload THEN MoveOptimizer(w, "cpu") ELSE w
LoadOptimizer(w) == IF "optimizer" \in w.offload THEN MoveOptimizer(w, "gpu") ELSE w

\* Computing with the weights.
Forward(w) == [w EXCEPT !.used = @ \cup {w.model}]
\* A step of the optimizer; the first one makes its state, beside the weights.
Step(w) ==
    LET placed == [w EXCEPT !.optimizer = IF @ = "empty" THEN w.model ELSE @]
    IN [placed EXCEPT !.used = @ \cup {placed.model, placed.optimizer}]

\* FSDP workers.  With the offload policy of FSDP2 nothing is left to do here.
BuildModelOptimizer(w) ==
    IF w.policy THEN [w EXCEPT !.model = "managed", !.offload = {}] ELSE w
InitModel(w) == OffloadOptimizer(OffloadModel(BuildModelOptimizer(w)))

UpdateActor(w) == OffloadOptimizer(OffloadModel(Step(Forward(LoadOptimizer(LoadModel(w))))))
WithModel(w) == OffloadModel(Forward(LoadModel(w)))
\* The reference is the actor without its adapters, or a model of its own with
\* managed weights.
ComputeRefLogProb(w) == IF w.lora THEN WithModel(w) ELSE [w EXCEPT !.used = {"managed"}]
\* The state of the optimizer is put beside the weights.
Restore(w) == [Forward(w) EXCEPT !.optimizer = w.model]
LoadCheckpoint(w) == OffloadOptimizer(OffloadModel(Restore(LoadModel(w))))

-----------------------------------------------------------------------------
\* The engine moves weights with the optimizer or not at all.
To(w, place, model, optimizer) ==
    IF ~ model /\ optimizer THEN [w EXCEPT !.alive = FALSE]
    ELSE LET moved == IF model THEN MoveModel(w, place) ELSE w
         IN IF optimizer THEN MoveOptimizer(moved, place) ELSE moved

\* A context loads whatever there is and offloads what is to be offloaded.
ContextSwitchIfOffloaded(w, place, mode) ==                           \* mutant
    To(w, place, "param" \in w.offload, mode = "train" /\ "optimizer" \in w.offload)
ContextSwitch(w, place, mode) ==
    LET Moves(part) == place = "gpu" \/ part \in w.offload
    IN To(w, place, Moves("param"), mode = "train" /\ Moves("optimizer"))

Enter(w, mode, disabled) == IF disabled THEN w ELSE ContextSwitch(w, "gpu", mode)
Exit(w, mode, disabled) == IF disabled THEN w ELSE ContextSwitch(w, "cpu", mode)

TrainBatch(w, disabled) == Exit(Step(Forward(Enter(w, "train", disabled))), "train", disabled)
\* The mini-batches of an update, in one context around those of each.
TrainMiniBatches(w, minis) ==
    LET after[k \in 0 .. minis] ==
            IF k = 0 THEN Enter(w, "train", FALSE) ELSE TrainBatch(after[k - 1], TRUE)
    IN Exit(after[minis], "train", FALSE)
InferBatch(w) == Exit(Forward(Enter(w, "eval", FALSE)), "eval", FALSE)

Initialize(w) == To(w, "cpu", "param" \in w.offload, "optimizer" \in w.offload)

\* A checkpoint is written from the GPU, and only loaded weights go back.
SaveEngine(w) ==
    OffloadModel(Forward(IF "param" \in w.offload \/ w.model = "cpu" THEN MoveModel(w, "gpu") ELSE w))
\* For the rollout the weights are collected on the GPU; when it has them,
\* they leave the GPU, whatever is to be offloaded.
WakeUp(w) == To(OffloadModel(Forward(MoveModel(w, "gpu"))), "cpu", TRUE, FALSE)

-----------------------------------------------------------------------------
Start(w) == IF w.stack = "fsdp" THEN InitModel(w) ELSE Initialize(w)

\* One call of the trainer.
Call(worker, call) ==
    LET w == [worker EXCEPT !.used = {}]
        fsdp == w.stack = "fsdp"
    IN CASE call = "update_actor" -> IF fsdp THEN UpdateActor(w) ELSE TrainMiniBatches(w, 2)
         [] call = "compute_log_prob" -> IF fsdp THEN WithModel(w) ELSE InferBatch(w)
         [] call = "compute_ref_log_prob" ->
                IF fsdp THEN ComputeRefLogProb(w)
                ELSE IF w.lora THEN InferBatch(w) ELSE [w EXCEPT !.used = {"managed"}]
         [] call = "save_checkpoint" -> IF fsdp THEN WithModel(w) ELSE SaveEngine(w)
         [] call = "load_checkpoint" -> LoadCheckpoint(w)
         [] call = "wake_up" -> IF fsdp THEN WithModel(w) ELSE WakeUp(w)
================================================================================
