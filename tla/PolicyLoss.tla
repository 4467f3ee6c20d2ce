------------------------------- MODULE PolicyLoss -------------------------------
(***************************************************************************)
(* The policy losses of core_algos.py and the rollout correction of        *)
(* rollout_corr_helper.py.  Probabilities are powers of two and logarithms *)
(* have base 2.  A micro-batch is a sequence of rows; for every token a    *)
(* row has the logarithm of its probability in the policy that is trained  *)
(* (new), at the start of the step (old) and in the engine (rollout), its  *)
(* advantage and its mask.                                                 *)
(*                                                                         *)
(* A loss is given by its derivative by the new log-probability of each    *)
(* token, before the aggregation: [by, exp] is by * 2^exp.  Left out: the  *)
(* aggregation, which is in ActorUpdate, metrics, and the losses whose     *)
(* derivative is no power of two (sapo, kl_cov).                           *)
(***************************************************************************)
EXTENDS Fractions

CONSTANTS
    SafetyBound,    \* beyond it a log-ratio is cut off (20 in the code)
    MeanBound,      \* the same for the mean of a row in GSPO (10)
    LossConfig      \* [low, high, dual]: the clip range, and clip_ratio_c

ASSUME LossAssumption ==
    /\ SafetyBound \in Nat \ {0} /\ MeanBound \in Nat \ {0}
    /\ LossConfig.low <= 0 /\ LossConfig.high >= 0 /\ LossConfig.dual > 0

Pow2(e) == IF e >= 0 THEN Whole(2 ^ e) ELSE Frac(1, 2 ^ (0 - e))

Written(row) == {t \in DOMAIN row.mask : row.mask[t] = 1}
SumOf(row, f(_)) == MapThenSumSet(f, Written(row))

Cut(x, low, high) == Min({Max({x, low}), high})

-----------------------------------------------------------------------------
(***************************************************************************)
(* A term -A 2^exp of a loss; live says how much of the derivative by the  *)
(* log-probability is left (1 or 0, and 1/2 where two terms are equal).    *)
(***************************************************************************)
Term(exp) == [exp |-> exp, live |-> Whole(1)]
Constant(exp) == [exp |-> exp, live |-> Whole(0)]

Clip(term, low, high) ==
    IF low \preceq term.exp /\ term.exp \preceq high THEN term
    ELSE Constant(Clamped(term.exp, low, high))

Tied(p, q) == [exp |-> p.exp, live |-> (p.live ++ q.live) // Whole(2)]

\* torch.maximum and torch.min of -A 2^p and -A 2^q, for A # 0.
Larger(a, p, q) ==
    IF p.exp = q.exp THEN Tied(p, q)
    ELSE IF (a > 0) = (p.exp \prec q.exp) THEN p ELSE q
Smaller(a, p, q) ==
    IF p.exp = q.exp THEN Tied(p, q)
    ELSE IF (a > 0) = (p.exp \prec q.exp) THEN q ELSE p

Derivative(a, term) ==
    IF a = 0 \/ term.live = Whole(0) THEN [by |-> Whole(0), exp |-> Whole(0)]
    ELSE [by |-> Whole(0 - a) ** term.live, exp |-> term.exp]

Weighted(d, e) ==
    IF d.by = Whole(0) THEN d ELSE [d EXCEPT !.exp = d.exp ++ Whole(e)]

-----------------------------------------------------------------------------
LogRatio(row, t) == row.new[t] - row.old[t]

SafeTerm(x) ==
    IF Size(x) <= SafetyBound THEN Term(Whole(x))
    ELSE Constant(Whole(Cut(x, 0 - SafetyBound, SafetyBound)))

ClipRange(term) == Clip(term, Whole(LossConfig.low), Whole(LossConfig.high))

Vanilla(row, t) ==
    LET a == row.adv[t]
        ratio == SafeTerm(LogRatio(row, t))
        clipped == Larger(a, ratio, ClipRange(ratio))
    IN Derivative(a, IF a < 0 THEN Smaller(a, Constant(Whole(LossConfig.dual)), clipped)
                     ELSE clipped)

\* The geometric mean of the ratios of a row; each token has its derivative.
MeanLogRatio(row) ==
    Frac(SumOf(row, LAMBDA s : LogRatio(row, s)), Max({1, Cardinality(Written(row))}))

Gspo(row, t) ==
    LET a == row.adv[t]
        mean == MeanLogRatio(row)
        ratio == IF mean \preceq Whole(MeanBound) THEN Term(mean)
                 ELSE Constant(Whole(MeanBound))
    IN Derivative(a, Larger(a, ratio, ClipRange(ratio)))

\* The ratio of every token is clipped against its own advantage, then the
\* row has one ratio and one advantage; per token, times the length.
SgnMin(a, x) ==
    IF a > 0 THEN Min({x, Cut(x, LossConfig.low, LossConfig.high)})
    ELSE IF a < 0 THEN Max({x, Cut(x, LossConfig.low, LossConfig.high)})
    ELSE 0

GeoMean(row, t) ==
    LET a == row.adv[t]
        n == Cardinality(Written(row))
        x == LogRatio(row, t)
        mean == Frac(SumOf(row, LAMBDA s : SgnMin(row.adv[s], LogRatio(row, s))), n)
        advantage == Frac(SumOf(row, LAMBDA s : row.adv[s]), n)
    IN IF a = 0 \/ SgnMin(a, x) # x \/ advantage = Whole(0)
       THEN [by |-> Whole(0), exp |-> Whole(0)]
       ELSE [by |-> Whole(0) -- advantage, exp |-> mean]

\* The clipped ratio is a constant; the derivative is that of log_prob.
Cispo(row, t) ==
    LET ratio == Cut(LogRatio(row, t), 0 - SafetyBound, SafetyBound)
    IN Derivative(row.adv[t], Term(Whole(Cut(ratio, LossConfig.low, LossConfig.high))))

Reinforce(row, t) == Derivative(row.adv[t], Term(Whole(0)))

-----------------------------------------------------------------------------
(***************************************************************************)
(* Clip-Cov: of the tokens the clip range leaves alone, and whose          *)
(* advantage and log-probability vary together, some get no gradient.      *)
(***************************************************************************)
AllWritten(micro) == UNION {{<<i, t>> : t \in Written(micro[i])} : i \in DOMAIN micro}

Covariance(micro, p) ==
    LET Adv(q) == Whole(micro[q[1]].adv[q[2]])
        New(q) == Whole(micro[q[1]].new[q[2]])
    IN (Adv(p) -- Average(Adv, AllWritten(micro))) ** (New(p) -- Average(New, AllWritten(micro)))

\* Where the clipped term is the larger one.
ClipByOrigin(row, t) ==
    LET x == LogRatio(row, t)
    IN \/ row.adv[t] > 0 /\ x > LossConfig.high
       \/ row.adv[t] < 0 /\ x < LossConfig.low

CovCandidates(micro, low, high) ==
    {p \in AllWritten(micro) :
        /\ ~ ClipByOrigin(micro[p[1]], p[2])
        /\ low \prec Covariance(micro, p) /\ Covariance(micro, p) \prec high}

\* The random choices of at most clip_num of them.
CovChoices(micro, low, high, number) ==
    LET all == CovCandidates(micro, low, high)
    IN kSubset(Min({Max({1, number}), Cardinality(all)}), all)

ClipCov(micro, chosen, i, t) ==
    LET a == micro[i].adv[t]
        ratio == Term(Whole(LogRatio(micro[i], t)))
    IN IF <<i, t>> \in chosen THEN Derivative(0, ratio)
       ELSE Derivative(a, Larger(a, ratio, ClipRange(ratio)))

-----------------------------------------------------------------------------
(***************************************************************************)
(* Rollout correction.  x[i][t] is the logarithm of the ratio between the  *)
(* trained policy and the engine.                                          *)
(***************************************************************************)
RowSum(row, x) == SumOf(row, LAMBDA t : x[t])

IsExponent(row, x, level, threshold, t) ==
    Min({threshold,
         Cut(IF level = "token" THEN x[t] ELSE RowSum(row, x), 0 - SafetyBound, SafetyBound)})

\* rollout_is_batch_normalize: divided by the mean over tokens, or over rows.
IsWeights(micro, x, level, threshold, normalise) ==
    LET W(i, t) == Pow2(IsExponent(micro[i], x[i], level, threshold, t))
        rows == {i \in DOMAIN micro : Written(micro[i]) # {}}
        mean == IF ~ normalise THEN Whole(1)
                ELSE IF level = "token" THEN Average(LAMBDA p : W(p[1], p[2]), AllWritten(micro))
                ELSE Average(LAMBDA i : W(i, CHOOSE t \in Written(micro[i]) : TRUE), rows)
    IN [i \in DOMAIN micro |-> [t \in DOMAIN micro[i].mask |->
            IF t \in Written(micro[i]) THEN W(i, t) // mean ELSE Whole(0)]]

\* The three estimates of the divergence; ln 2 is taken as 7/10.
Estimate(k, x) ==
    LET y == Cut(x, 0 - SafetyBound, SafetyBound)
    IN CASE k = "k1" -> Whole(0 - y)
         [] k = "k2" -> Frac(y * y, 2)
         [] k = "k3" -> (Pow2(y) -- Whole(1)) -- Frac(7 * y, 10)

Statistic(row, x, level, k) ==
    LET F(t) == Estimate(k, x[t])
        kept == Written(row)
    IN CASE level = "seq_sum" -> Total(F, kept)
         [] level = "seq_mean" -> IF kept = {} THEN Whole(0) ELSE Average(F, kept)
         [] level = "seq_max" -> IF kept = {} THEN Whole(0)
                                 ELSE CHOOSE v \in {F(t) : t \in kept} :
                                        \A t \in kept : F(t) \preceq v

\* An option is [level, k, low, high]; low counts for k1 only.
Within(option, v) ==
    /\ v \preceq option.high
    /\ option.k = "k1" => option.low \preceq v

Keeps(option, row, x, t) ==
    IF option.level = "token" THEN Within(option, Estimate(option.k, x[t]))
    ELSE Within(option, Statistic(row, x, option.level, option.k))

\* Every option must pass; all of them look at the mask before any.
Rejected(micro, x, options) ==
    [i \in DOMAIN micro |->
        [micro[i] EXCEPT !.mask = [t \in DOMAIN micro[i].mask |->
            IF \A o \in options : Keeps(o, micro[i], x[i], t) THEN micro[i].mask[t] ELSE 0]]]

-----------------------------------------------------------------------------
(***************************************************************************)
(* Decoupled: three policies; the weights are computed once, from the old  *)
(* policy, and multiply the loss.  Bypass: the engine's log-probabilities  *)
(* are the old ones, and the loss computes weights from the new policy     *)
(* and uses them only without clipping.                                    *)
(***************************************************************************)
Decoupled(row, level, threshold, t) ==
    LET x == [s \in DOMAIN row.mask |-> row.old[s] - row.rollout[s]]
    IN Weighted(Vanilla(row, t), IsExponent(row, x, level, threshold, t))

BypassWeighted(row, level, threshold, lossType, t) ==            \* mutant
    LET bypassed == [row EXCEPT !.old = row.rollout]
        x == [s \in DOMAIN row.mask |-> row.new[s] - row.rollout[s]]
    IN Weighted(IF lossType = "reinforce" THEN Reinforce(bypassed, t)
                ELSE Vanilla(bypassed, t),
                IsExponent(row, x, level, threshold, t))
Bypass(row, level, threshold, lossType, t) ==
    LET bypassed == [row EXCEPT !.old = row.rollout]
        x == [s \in DOMAIN row.mask |-> row.new[s] - row.rollout[s]]
    IN IF lossType = "reinforce"
       THEN Weighted(Reinforce(bypassed, t), IsExponent(row, x, level, threshold, t))
       ELSE Vanilla(bypassed, t)
================================================================================
