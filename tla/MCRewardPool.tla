----------------------------- MODULE MCRewardPool -----------------------------
EXTENDS RewardPool

CONSTANTS r1, r2

MCCases == 1 .. 2

\* Both rows with programs, or one with any other kind of score function.
MCBatches == {[r \in Rows |-> IF r = r1 THEN k ELSE "sandbox"] : k \in Kinds}

===============================================================================
