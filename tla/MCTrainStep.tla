------------------------------ MODULE MCTrainStep ------------------------------
EXTENDS TrainStep

\* Six rows: reversed, and with the groups split between the two ranks.
MCOrders == {<<6, 5, 4, 3, 2, 1>>, <<1, 3, 5, 2, 4, 6>>, <<5, 1, 4, 3, 6, 2>>}

Plain == [estimator |-> "grpo", scores |-> "loop", async |-> FALSE,
          rolloutLogProbs |-> TRUE, bypass |-> FALSE, kl |-> FALSE,
          balance |-> TRUE, teacher |-> "none", fallback |-> FALSE,
          complete |-> TRUE, miniBatch |-> 2, epochs |-> 1, warmup |-> 0]

\* Who computes the reward and the advantage, and when.
RewardConfigs ==
    {[Plain EXCEPT !.estimator = e, !.scores = s, !.async = a, !.kl = a,
                   !.warmup = w] :
        e \in {"gae", "grpo", "remax"}, s \in {"loop", "model", "fn"},
        a \in BOOLEAN, w \in {0, 2}}

\* What the old log probabilities are and how often they are used.
UpdateConfigs ==
    {[Plain EXCEPT !.rolloutLogProbs = r, !.bypass = b, !.miniBatch = m,
                   !.epochs = n, !.balance = b] :
        r \in BOOLEAN, b \in BOOLEAN, m \in 1 .. 3, n \in {1, 2}}

\* Self-distillation, with and without what the teacher needs.
DemoConfigs ==
    {[Plain EXCEPT !.teacher = "demo", !.async = a, !.estimator = e,
                   !.bypass = b] :
        a \in BOOLEAN, e \in {"gae", "grpo"}, b \in BOOLEAN}
AlwaysOnConfigs ==
    {[Plain EXCEPT !.teacher = t, !.fallback = f, !.complete = c,
                   !.async = TRUE, !.estimator = e, !.bypass = b] :
        t \in {"image", "hint"}, f \in BOOLEAN, c \in BOOLEAN,
        e \in {"gae", "grpo", "remax"}, b \in BOOLEAN}

MCConfigs ==
    RewardConfigs \cup UpdateConfigs \cup DemoConfigs \cup AlwaysOnConfigs

=============================================================================
