------------------------------ MODULE ActorUpdate ------------------------------
(***************************************************************************)
(* DataParallelPPOActor.update_policy on all data-parallel ranks: every    *)
(* rank divides its rows into mini-batches and these into micro-batches,   *)
(* accumulates the gradient of a mini-batch and makes one optimizer step   *)
(* with all other ranks; at the end the teacher of self-distillation       *)
(* follows the student.                                                    *)
(*                                                                         *)
(* A gradient is the list of the rows it was computed from, each with the  *)
(* weight of one of its tokens, a fraction <<numerator, denominator>>.     *)
(* Weights of a model are the sequence of the versions averaged in them;   *)
(* every optimizer step makes a new version of the student.                *)
(*                                                                         *)
(* Left out: the entropy and KL terms, which add to the loss of the same   *)
(* tokens, diagnostics, dumps and metrics.                                 *)
(***************************************************************************)
EXTENDS SeqlenBalancing

CONSTANTS
    Ranks,          \* the data-parallel ranks
    UpdateConfigs,  \* the options of the actor
    ResponseWidth,  \* the padded length of a response
    MaxRestarts     \* of the job

ASSUME UpdateAssumption ==
    /\ Ranks # {} /\ IsFiniteSet(Ranks)
    /\ ResponseWidth \in Nat \ {0} /\ MaxRestarts \in Nat
    /\ \A c \in UpdateConfigs :
        /\ c.steps \in Nat \ {0}        \* training steps
        /\ c.rows \in Nat \ {0}         \* rows of a rank
        /\ c.kinds \subseteq [len : 1 .. ResponseWidth, kept : 0 .. ResponseWidth,
                             target : BOOLEAN]
        /\ c.dynamic \in BOOLEAN        \* use_dynamic_bsz
        /\ c.maxTokens \in Nat          \* asserted by rearrange_micro_batches:
        /\ c.maxTokens >= ResponseWidth
        /\ c.mini \in Nat \ {0}         \* ppo_mini_batch_size of a rank
        /\ c.micro \in Nat \ {0} /\ c.mini % c.micro = 0
        /\ c.epochs \in Nat \ {0}       \* ppo_epochs
        /\ c.agg \in {"token-mean", "seq-mean-token-sum", "seq-mean-token-mean",
                      "seq-mean-token-sum-norm"}
        /\ c.teacher \in {"none", "current", "fixed", "ema", "progressive",
                          "trust-region"}
        /\ c.interval \in Nat \ {0}     \* teacher_update_interval

VARIABLES
    options,
    step,           \* global_steps
    stage,          \* where all ranks are in the update
    rows,           \* rows[r]: what rank r was sent
    pass,           \* the epoch and the mini-batch in work
    pending,        \* pending[r]: the micro-batches of rank r that are left
    grad,           \* grad[r]: the gradient rank r has accumulated
    student, ref,   \* the weights of the actor and of the reference model
    versions,       \* how many versions of the student have been made
    updated,        \* did_update
    taught,         \* the weights that taught the micro-batches of this step
    ends,           \* the steps since the start that changed the student
    saved, restarts

batchVars == <<rows, pass, pending, grad>>
weightVars == <<student, ref, versions>>
updateVars ==
    <<options, step, stage, batchVars, weightVars, updated, taught, ends, saved, restarts>>

Row == [len : 1 .. ResponseWidth, kept : 0 .. ResponseWidth, target : BOOLEAN]

UpdateTypeOK ==
    /\ options \in UpdateConfigs
    /\ step \in 1 .. options.steps + 1
    /\ stage \in {"wait", "mini", "micro", "step", "teacher", "done"}
    /\ rows \in [Ranks -> Seq(Row)]
    /\ pass \in [epoch : Nat, mini : Nat]
    /\ \A r \in Ranks : pending[r] \in Seq(Seq(1 .. Len(rows[r])))
    /\ student \in Nat /\ ref \in Seq(Nat) /\ versions \in Nat
    /\ updated \in BOOLEAN
    /\ ends \in Seq([step : Nat, student : Nat])
    /\ saved \in [step : Nat, student : Nat]
    /\ restarts \in 0 .. MaxRestarts

NoRows == [r \in Ranks |-> <<>>]

UpdateInit ==
    /\ options \in UpdateConfigs
    /\ step = 1 /\ stage = "wait"
    /\ rows = NoRows /\ pass = [epoch |-> 0, mini |-> 0]
    /\ pending = NoRows /\ grad = NoRows
    /\ student = 0 /\ ref = <<0>> /\ versions = 0
    /\ updated = FALSE /\ taught = {} /\ ends = <<>>
    /\ saved = [step |-> 0, student |-> 0] /\ restarts = 0

-----------------------------------------------------------------------------
(***************************************************************************)
(* Mini-batches and micro-batches.                                         *)
(***************************************************************************)
Count == CeilDiv(options.rows, options.mini)
Start == (pass.mini - 1) * options.mini

\* data.split(ppo_mini_batch_size): the last part may be shorter.
MiniBatch(r) == SubSeq(rows[r], Start + 1, Min({Start + options.mini, options.rows}))
MiniRows(r) == Start + 1 .. Start + Len(MiniBatch(r))

LengthsIn(r) == [i \in DOMAIN MiniBatch(r) |-> MiniBatch(r)[i].len]
WorkIn(r) ==
    LET mine == MiniBatch(r) IN [i \in DOMAIN mine |-> Workload(mine[i].len)]

\* The ranks agree on the largest number of micro-batches.
NeededByAll(r) ==
    Max({MicroBatchesFor(LengthsIn(q), options.maxTokens) : q \in Ranks})

\* Positions in the mini-batch become positions in the rows of the rank.
MicroBatches(r) ==
    LET work == WorkIn(r)
        needed == NeededByAll(r)
        parts == IF options.dynamic THEN RearrangedMicroBatches(work, needed)
                 ELSE Split(Len(work), options.micro)
    IN [m \in 1 .. Len(parts) |->
            [i \in 1 .. Len(parts[m]) |-> Start + parts[m][i]]]

-----------------------------------------------------------------------------
(***************************************************************************)
(* The loss of a micro-batch.                                              *)
(***************************************************************************)
Distils == options.teacher # "none"

Kept(mine, S) == MapThenSumSet(LAMBDA i : mine[i].kept, S)
NonEmpty(r, S) == Cardinality({i \in S : rows[r][i].kept > 0})

\* agg_loss over the rows S: what a token of row i is divided by.
Divisor(r, S, i) ==
    CASE options.agg = "token-mean" -> Kept(rows[r], S)
      [] options.agg = "seq-mean-token-sum" -> NonEmpty(r, S)
      [] options.agg = "seq-mean-token-mean" -> rows[r][i].kept * NonEmpty(r, S)
      [] options.agg = "seq-mean-token-sum-norm" -> ResponseWidth

\* The distillation loss covers the rows with a teacher, the policy loss the
\* others; without self-distillation the policy loss covers all of them.
Targets(r, S) == {i \in S : Distils /\ rows[r][i].target}

\* Zero divided by zero: the distillation loss clamps the number of tokens and
\* not the number of rows; the policy loss of no rows at all is not computed.
NotFinite(r, S) ==
    LET others == S \ Targets(r, S)
        empty(T) == options.agg # "seq-mean-token-sum-norm" /\ Kept(rows[r], T) = 0
    IN \/ Distils /\ options.agg # "token-mean" /\ empty(Targets(r, S))
       \/ others # {} /\ empty(others)

\* loss_scale_factor of a micro-batch of n rows.
ScaleOfFull(n) == <<1, options.mini \div options.micro>>           \* mutant
Scale(n) ==
    IF options.dynamic THEN <<n, options.mini>>
    ELSE <<1, options.mini \div options.micro>>

Gradient(r, micro) ==
    LET S == ToSet(micro)
        like(i) == IF i \in Targets(r, S) THEN Targets(r, S) ELSE S \ Targets(r, S)
        scale == Scale(Len(micro))
    IN [k \in 1 .. Len(micro) |->
            [row |-> micro[k], finite |-> ~ NotFinite(r, S),
             weight |-> <<scale[1], scale[2] * Divisor(r, like(micro[k]), micro[k])>>]]

-----------------------------------------------------------------------------
(***************************************************************************)
(* The teacher.                                                            *)
(***************************************************************************)
\* The legacy teacher is the module of the reference model.
Averaged == options.teacher \in {"ema", "progressive"}

\* The weights that teach a micro-batch.
Teacher ==
    CASE options.teacher = "none" -> {}
      [] options.teacher = "current" -> {<<student>>}
      [] options.teacher = "fixed" -> {<<"fixed">>}
      [] options.teacher = "trust-region" -> {<<ref, student>>}
      [] Averaged -> {ref}

\* _update_teacher
TeacherOneLate ==                                                \* mutant
    CASE options.teacher = "ema" -> Append(ref, student)
      [] options.teacher = "progressive" /\ step % (options.interval + 1) = 0 ->
            <<student>>
      [] OTHER -> ref
UpdatedTeacher ==
    CASE options.teacher = "ema" -> Append(ref, student)
      [] options.teacher = "progressive" /\ step % options.interval = 0 -> <<student>>
      [] OTHER -> ref

-----------------------------------------------------------------------------
\* update_policy is called on all ranks, with as many rows for each.
Begin ==
    /\ stage = "wait" /\ step <= options.steps
    /\ rows' \in [Ranks -> [1 .. options.rows -> options.kinds]]
    /\ pass' = [epoch |-> 1, mini |-> 1]
    /\ updated' = FALSE /\ taught' = {}
    /\ stage' = "mini"
    /\ UNCHANGED <<options, step, pending, grad, weightVars, ends, saved, restarts>>

\* The next mini-batch is divided, and the gradient of the last one cleared.
BeginMiniKeepsGrad ==                                            \* mutant
    /\ stage = "mini"
    /\ pending' = [r \in Ranks |-> MicroBatches(r)]
    /\ stage' = "micro"
    /\ UNCHANGED <<options, step, rows, pass, grad, weightVars, updated, taught,
                   ends, saved, restarts>>
BeginMini ==
    /\ stage = "mini"
    /\ pending' = [r \in Ranks |-> MicroBatches(r)]
    /\ grad' = NoRows
    /\ stage' = "micro"
    /\ UNCHANGED <<options, step, rows, pass, weightVars, updated, taught, ends,
                   saved, restarts>>

\* Forward and backward pass of the next micro-batch, collectives of all ranks.
Micro ==
    /\ stage = "micro"
    /\ \A r \in Ranks : pending[r] # <<>>
    /\ grad' = [r \in Ranks |-> grad[r] \o Gradient(r, Head(pending[r]))]
    /\ pending' = [r \in Ranks |-> Tail(pending[r])]
    /\ taught' = taught \cup Teacher
    /\ UNCHANGED <<options, step, stage, rows, pass, weightVars, updated, ends, saved,
                   restarts>>

Finite == \A r \in Ranks : \A k \in DOMAIN grad[r] : grad[r][k].finite

\* _optimizer_step: the norm of the gradient is a collective; a gradient that
\* is not finite is dropped by all ranks.
NextPass ==
    IF pass.mini < Count
    THEN pass' = [pass EXCEPT !.mini = @ + 1] /\ stage' = "mini"
    ELSE IF pass.epoch < options.epochs
    THEN pass' = [epoch |-> pass.epoch + 1, mini |-> 1] /\ stage' = "mini"
    ELSE pass' = pass /\ stage' = "teacher"

OptimizerStep ==
    /\ stage = "micro"
    /\ \A r \in Ranks : pending[r] = <<>>
    /\ IF Finite
       THEN /\ versions' = versions + 1 /\ student' = versions + 1
            /\ updated' = TRUE
       ELSE UNCHANGED <<versions, student, updated>>
    /\ NextPass
    /\ UNCHANGED <<options, step, rows, pending, grad, ref, taught, ends, saved,
                   restarts>>

\* The end of update_policy.
EndUpdate ==
    /\ stage = "teacher"
    /\ ref' = IF updated THEN UpdatedTeacher ELSE ref
    /\ ends' = IF updated THEN Append(ends, [step |-> step, student |-> student])
               ELSE ends
    /\ rows' = NoRows /\ grad' = NoRows
    /\ step' = step + 1
    /\ stage' = "wait"
    /\ UNCHANGED <<options, pass, pending, student, versions, updated, taught, saved,
                   restarts>>

\* save_checkpoint: the weights of the actor only.
Save ==
    /\ stage = "wait" /\ saved.step # step - 1
    /\ saved' = [step |-> step - 1, student |-> student]
    /\ UNCHANGED <<options, step, stage, batchVars, weightVars, updated, taught, ends,
                   restarts>>

\* The job ends and starts again: the actor is loaded from the checkpoint, the
\* reference model is built from the path of the model.
Restart ==
    /\ stage \in {"wait", "micro"} /\ restarts < MaxRestarts
    /\ restarts' = restarts + 1
    /\ student' = saved.student /\ step' = saved.step + 1
    /\ ref' = <<0>> /\ ends' = <<>>
    /\ rows' = NoRows /\ pending' = NoRows /\ grad' = NoRows
    /\ pass' = [epoch |-> 0, mini |-> 0]
    /\ updated' = FALSE /\ taught' = {}
    /\ stage' = "wait"
    /\ UNCHANGED <<options, versions, saved>>

Stop ==
    /\ stage = "wait" /\ step > options.steps
    /\ stage' = "done"
    /\ UNCHANGED <<options, step, batchVars, weightVars, updated, taught, ends, saved,
                   restarts>>

Finished == stage = "done" /\ UNCHANGED updateVars

UpdateNext ==
    \/ Begin \/ BeginMini \/ Micro \/ OptimizerStep \/ EndUpdate \/ Stop
    \/ Save \/ Restart
    \/ Finished

UpdateSpec == UpdateInit /\ [][UpdateNext]_updateVars

-----------------------------------------------------------------------------
Same(f, g) == f[1] * g[2] = g[1] * f[2]

Seen(r) == {grad[r][k].row : k \in DOMAIN grad[r]}
AtStep == stage = "micro" /\ \A r \in Ranks : pending[r] = <<>>

\* An optimizer step is made from every row of its mini-batch once, and from no
\* other row: not from those of a mini-batch whose gradient was dropped either.
OwnRowsOnly ==
    AtStep => \A r \in Ranks : /\ Seen(r) = MiniRows(r)
                               /\ Len(grad[r]) = Len(MiniBatch(r))

\* However a mini-batch is cut into micro-batches, all its rows weigh the same
\* in a mode that averages over rows: without rows of the other loss, without
\* empty responses, and, with micro-batches of a fixed size, in a mini-batch
\* that is full (a short one gives the rows of its last micro-batch more).  With
\* dynamic micro-batches seq-mean-token-sum-norm, which does not divide by the
\* number of rows, weighs a row by the size of its micro-batch.
Uniform(r) ==
    /\ \A i \in Seen(r) : rows[r][i].kept > 0
    /\ Targets(r, Seen(r)) \in {{}, Seen(r)}
Full(r) == options.dynamic \/ Len(MiniBatch(r)) = options.mini
RowWeight(r, k) ==
    LET e == grad[r][k]
    IN IF options.agg = "seq-mean-token-mean"
       THEN <<e.weight[1] * rows[r][e.row].kept, e.weight[2]>> ELSE e.weight
RowsWeighAlike ==
    (/\ AtStep /\ options.agg # "token-mean"
     /\ options.agg = "seq-mean-token-sum-norm" => ~ options.dynamic) =>
        \A q, r \in Ranks :
            (Uniform(q) /\ Uniform(r) /\ Full(q) /\ Full(r) /\ Finite) =>
                \A j \in DOMAIN grad[q], k \in DOMAIN grad[r] :
                    Same(RowWeight(q, j), RowWeight(r, k))

\* The reference weights take in the student as it is after a step that changed
\* it, once per step (ema) or replacing what was there (progressive, at most
\* interval steps old if no step since the start was dropped and the job was
\* not resumed); the other teachers never touch them.  Within a step one
\* teacher judges all micro-batches, unless it is the student or mixed with it.
NoneDropped == restarts = 0 /\ Len(ends) = step - 1
TeacherFollows ==
    /\ options.teacher \notin {"current", "trust-region"} => Cardinality(taught) <= 1
    /\ stage = "wait" =>
        CASE options.teacher = "ema" ->
                ref = <<0>> \o [k \in 1 .. Len(ends) |-> ends[k].student]
          [] options.teacher = "progressive" ->
                NoneDropped =>
                    \/ step <= options.interval
                    \/ \E k \in 1 .. Len(ends) :
                          /\ ref = <<ends[k].student>>
                          /\ step - ends[k].step <= options.interval
          [] OTHER -> ref = <<0>>

=============================================================================
