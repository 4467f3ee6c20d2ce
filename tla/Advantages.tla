------------------------------- MODULE Advantages -------------------------------
(***************************************************************************)
(* The advantage estimators of core_algos.py.  A batch is a sequence of    *)
(* rows; a row has its group (the uid of its prompt) and, for every token  *)
(* of the padded response, the reward, the mask (0 where the model did not *)
(* write the token), the value of the critic and the energy: 1 - 2 pi +    *)
(* the sum of all pi^2, times the squared weight of importance sampling.   *)
(*                                                                         *)
(* An advantage divided by a standard deviation is given as its signed     *)
(* square; the epsilons that keep a division finite are left out.          *)
(***************************************************************************)
EXTENDS Fractions

None == <<>>                    \* ValueError
NaN == <<0, 0>>

Tokens(row) == DOMAIN row.mask
Length(row) == Cardinality({t \in Tokens(row) : row.mask[t] = 1})
Score(row) == Total(LAMBDA t : Whole(row.reward[t]), Tokens(row))

Group(batch, i) == {j \in DOMAIN batch : batch[j].group = batch[i].group}
Singleton(batch, i) == Cardinality(Group(batch, i)) = 1

MeanScore(batch, S) == Average(LAMBDA j : Score(batch[j]), S)
ScoreVariance(batch, S) ==
    LET m == MeanScore(batch, S)
    IN Total(LAMBDA j : (Score(batch[j]) -- m) ** (Score(batch[j]) -- m), S)
        // Whole(Cardinality(S) - 1)

\* scalar * response_mask
Broadcast(batch, scalars) ==
    LET scalar == Eager(scalars)
    IN Eager([i \in DOMAIN batch |-> Eager([t \in Tokens(batch[i]) |->
            IF scalar[i] = NaN THEN NaN
            ELSE scalar[i] ** Whole(batch[i].mask[t])])])

-----------------------------------------------------------------------------
(***************************************************************************)
(* One score for a response, compared with those of its group.             *)
(***************************************************************************)
Grpo(batch, norm) ==
    Broadcast(batch, [i \in DOMAIN batch |->
        LET G == Group(batch, i)
            mean == IF Singleton(batch, i) THEN Whole(0) ELSE MeanScore(batch, G)
            variance == IF Singleton(batch, i) THEN Whole(1) ELSE ScoreVariance(batch, G)
            centred == Score(batch[i]) -- mean
        IN IF norm THEN OverRoot(centred, variance) ELSE centred])

\* group_mean_std: from the sums of the scores and of their squares.
GrpoVectorized(batch, norm) ==
    Broadcast(batch, [i \in DOMAIN batch |->
        LET G == Group(batch, i)
            n == Whole(Cardinality(G))
            s1 == Total(LAMBDA j : Score(batch[j]), G)
            s2 == Total(LAMBDA j : Score(batch[j]) ** Score(batch[j]), G)
            mean == IF Singleton(batch, i) THEN Whole(0) ELSE s1 // n
            variance == IF Singleton(batch, i) THEN Whole(1)
                        ELSE (s2 -- ((s1 ** s1) // n)) // (n -- Whole(1))
            centred == Score(batch[i]) -- mean
        IN IF norm THEN OverRoot(centred, variance) ELSE centred])

\* Only the best response of a group, by its lead over the second.
GrpoPassK(batch, norm) ==
    IF \E i \in DOMAIN batch : Singleton(batch, i) THEN None
    ELSE Broadcast(batch, [i \in DOMAIN batch |->
        LET G == Group(batch, i)
            others == G \ {i}
            second == CHOOSE j \in others :
                        \A k \in others : Score(batch[k]) \preceq Score(batch[j])
            lead == Score(batch[i]) -- Score(batch[second])
        IN IF ~ (Whole(0) \prec lead) THEN Whole(0)
           ELSE IF norm THEN OverRoot(lead, ScoreVariance(batch, G)) ELSE lead])

RlooOfMean(batch) ==                                             \* mutant
    Broadcast(batch, [i \in DOMAIN batch |->
        LET n == Cardinality(Group(batch, i))
        IN IF n = 1 THEN Score(batch[i])
           ELSE (Score(batch[i]) ** Frac(n, n - 1)) -- MeanScore(batch, Group(batch, i))])
Rloo(batch) ==
    Broadcast(batch, [i \in DOMAIN batch |->
        LET n == Cardinality(Group(batch, i))
        IN IF n = 1 THEN Score(batch[i])
           ELSE (Score(batch[i]) ** Frac(n, n - 1))
                -- (MeanScore(batch, Group(batch, i)) ** Frac(n, n - 1))])

RlooVectorized(batch) ==
    Broadcast(batch, [i \in DOMAIN batch |->
        LET c == Cardinality(Group(batch, i))
        IN ((Whole(c) ** Score(batch[i])) -- Total(LAMBDA j : Score(batch[j]), Group(batch, i)))
            ** (IF c > 1 THEN Frac(1, c - 1) ELSE Whole(0))])

\* The baseline is weighted by the lengths: 0 / 0 when a group has no token.
OpoOverBatch(batch) ==                                           \* mutant
    Broadcast(batch, [i \in DOMAIN batch |->
        LET G == Group(batch, i)
            tokens == Total(LAMBDA j : Whole(Length(batch[j])), DOMAIN batch)
        IN IF Singleton(batch, i) THEN Score(batch[i])
           ELSE IF tokens = Whole(0) THEN NaN
           ELSE Score(batch[i])
                -- (Total(LAMBDA j : Whole(Length(batch[j])) ** Score(batch[j]), G) // tokens)])
Opo(batch) ==
    Broadcast(batch, [i \in DOMAIN batch |->
        LET G == Group(batch, i)
            tokens == Total(LAMBDA j : Whole(Length(batch[j])), G)
        IN IF Singleton(batch, i) THEN Score(batch[i])
           ELSE IF tokens = Whole(0) THEN NaN
           ELSE Score(batch[i])
                -- (Total(LAMBDA j : Whole(Length(batch[j])) ** Score(batch[j]), G) // tokens)])

\* alpha is the size of the batch over its number of scores that are not zero.
Gpg(batch) ==
    LET scored == {i \in DOMAIN batch : Score(batch[i]) # Whole(0)}
        alpha == Frac(Len(batch), IF scored = {} THEN 1 ELSE Cardinality(scored))
    IN Broadcast(batch, [i \in DOMAIN batch |->
        alpha ** (Score(batch[i]) -- (IF Singleton(batch, i) THEN Whole(0)
                                      ELSE MeanScore(batch, Group(batch, i))))])

-----------------------------------------------------------------------------
(***************************************************************************)
(* Token by token, from the last to the first.                             *)
(***************************************************************************)
Masked(batch, x) ==
    Eager([i \in DOMAIN batch |-> Eager([t \in Tokens(batch[i]) |->
        IF batch[i].mask[t] = 0 THEN Whole(0) ELSE x[i][t]])])

\* masked_whiten over all tokens of the batch.
Whitened(batch, x) ==
    LET all == {<<i, t>> : i \in DOMAIN batch, t \in UNION {Tokens(batch[i]) : i \in DOMAIN batch}}
        kept == {p \in all : p[2] \in Tokens(batch[p[1]]) /\ batch[p[1]].mask[p[2]] = 1}
        mean == Average(LAMBDA p : x[p[1]][p[2]], kept)
        Square(p) == (x[p[1]][p[2]] -- mean) ** (x[p[1]][p[2]] -- mean)
    IN IF Cardinality(kept) < 2 THEN None
       ELSE [i \in DOMAIN batch |-> [t \in Tokens(batch[i]) |->
            OverRoot(x[i][t] -- mean,
                     Total(Square, kept) // Whole(Cardinality(kept) - 1))]]

\* nextvalues and lastgaelam after the tokens T .. t; kept where the mask is 0.
GaeTail(row, gamma, lam) ==
    LET T == Len(row.mask)
        tail[t \in 1 .. T + 1] ==
            IF t = T + 1 THEN [next |-> Whole(0), last |-> Whole(0)]
            ELSE LET after == tail[t + 1]
                     delta == Whole(row.reward[t]) ++ ((gamma ** after.next) -- Whole(row.value[t]))
                 IN IF row.mask[t] = 0 THEN after
                    ELSE [next |-> Whole(row.value[t]),
                          last |-> delta ++ (gamma ** lam ** after.last)]
    IN tail

\* Before they are whitened; the returns are these plus the values.
GaeAdvantages(batch, gamma, lam) ==
    Eager([i \in DOMAIN batch |-> Eager([t \in Tokens(batch[i]) |->
        GaeTail(batch[i], gamma, lam)[t].last])])

Gae(batch, gamma, lam) == Whitened(batch, GaeAdvantages(batch, gamma, lam))

\* REINFORCE++: the running return is set to 0 after a token with mask 0.
RunningReturns(row, gamma) ==
    LET T == Len(row.mask)
        run[t \in 1 .. T + 1] ==
            IF t = T + 1 THEN Whole(0)
            ELSE Whole(row.reward[t])
                 ++ (gamma ** (IF t < T THEN Whole(row.mask[t + 1]) ** run[t + 1] ELSE Whole(0)))
    IN [t \in 1 .. T |-> run[t]]

ReinforcePlusPlus(batch, gamma) ==
    LET x == Whitened(batch, [i \in DOMAIN batch |-> RunningReturns(batch[i], gamma)])
    IN IF x = None THEN None ELSE Masked(batch, x)

ReinforcePlusPlusBaseline(batch) ==
    LET x == Whitened(batch, Grpo(batch, FALSE))
    IN IF x = None THEN None ELSE Masked(batch, x)

\* The rewards of a token and all that follow it.
Return(row, t) ==
    Total(LAMBDA s : Whole(row.reward[s] * row.mask[s]), {s \in Tokens(row) : s >= t})

Remax(batch, baselines) ==
    Eager([i \in DOMAIN batch |-> Eager([t \in Tokens(batch[i]) |->
        Return(batch[i], t) -- (baselines[i] ** Whole(batch[i].mask[t]))])])

-----------------------------------------------------------------------------
(***************************************************************************)
(* The optimal token baseline: at every token the returns of the group     *)
(* weighted by the energy of each response up to that token.               *)
(***************************************************************************)
EnergyUpTo(row, t) ==
    Total(LAMBDA s : Whole(row.energy[s] * row.mask[s]), {s \in Tokens(row) : s <= t})

\* Where the one longest response of a group is beyond the second longest.
InTail(batch, G, i, t) ==
    /\ \A j \in G \ {i} : Length(batch[j]) < Length(batch[i])
    /\ \A j \in G \ {i} : Length(batch[j]) < t

WeightedMean(x, w) ==
    LET S == DOMAIN x
        weight == Total(LAMBDA j : w[j], S)
    IN IF weight = Whole(0) THEN Whole(0)
       ELSE Total(LAMBDA j : x[j] ** w[j], S) // weight

OptimalTokenBaseline(batch, handleTail) ==
    Eager([i \in DOMAIN batch |-> Eager([t \in Tokens(batch[i]) |->
        LET G == Group(batch, i)
            baseline == IF Singleton(batch, i) \/ (handleTail /\ InTail(batch, G, i, t))
                        THEN Whole(0)
                        ELSE WeightedMean([j \in G |-> Return(batch[j], t)],
                                          [j \in G |-> EnergyUpTo(batch[j], t) ** Whole(batch[j].mask[t])])
        IN (Return(batch[i], t) -- baseline) ** Whole(batch[i].mask[t])])])

\* The position of the k-th token the model wrote, and its number.
Kth(row, k) == CHOOSE t \in Tokens(row) :
    row.mask[t] = 1 /\ Cardinality({s \in 1 .. t : row.mask[s] = 1}) = k
NumberOf(row, t) == Cardinality({s \in 1 .. t : row.mask[s] = 1})

\* The same with the tokens of a response numbered without the observations;
\* responses without a token do not belong to their group.
TirOptimalTokenBaseline(batch, handleTail) ==
    Eager([i \in DOMAIN batch |-> Eager([t \in Tokens(batch[i]) |->
        LET G == {j \in Group(batch, i) : Length(batch[j]) > 0}
            k == NumberOf(batch[i], t)
            Written(j) == k <= Length(batch[j])
            baseline == IF Cardinality(G) = 1 \/ (handleTail /\ InTail(batch, G, i, k))
                        THEN Whole(0)
                        ELSE WeightedMean(
                                [j \in G |-> IF Written(j) THEN Return(batch[j], Kth(batch[j], k)) ELSE Whole(0)],
                                [j \in G |-> IF Written(j) THEN EnergyUpTo(batch[j], Kth(batch[j], k)) ELSE Whole(0)])
        IN IF batch[i].mask[t] = 0 THEN Whole(0)
           ELSE Return(batch[i], t) -- baseline])])
================================================================================
