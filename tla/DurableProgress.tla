--------------------------- MODULE DurableProgress ---------------------------
(***************************************************************************)
(* What checkpointing promises, without files, ranks or rotation: a job    *)
(* counts steps; now and then the step in progress becomes durable, as one *)
(* event; a crash throws the job back to the durable step and nothing      *)
(* else.  A trainer whose commit is not one event may lose the durable     *)
(* step for good while it commits (MayLose).                               *)
(***************************************************************************)
EXTENDS Naturals

CONSTANTS LastStep, LoopSteps, SaveFreq, MayLose, Lost

VARIABLES mode, step, durable

vars == <<mode, step, durable>>

Init == mode = "down" /\ step = 0 /\ durable = 0

\* The job starts, right after the step that is durable.
Restart ==
    /\ mode = "down" /\ durable # Lost
    /\ step' = durable + 1
    /\ mode' = IF durable + 1 <= LoopSteps THEN "running" ELSE "finished"
    /\ UNCHANGED durable

\* The step in progress becomes durable.
Commit ==
    /\ mode = "running"
    /\ durable' = step
    /\ UNCHANGED <<mode, step>>

\* The durable step is not readable until the commit ends.
Lose ==
    /\ MayLose /\ mode = "running"
    /\ durable' = Lost
    /\ UNCHANGED <<mode, step>>

\* The next step begins; a step at which a save is due is durable by then.
Advance ==
    /\ mode = "running"
    /\ step < LastStep
    /\ step % SaveFreq = 0 => durable = step
    /\ step' = step + 1
    /\ mode' = IF step + 1 <= LoopSteps THEN "running" ELSE "finished"
    /\ UNCHANGED durable

\* The job ends, and its last step is durable.
Finish ==
    /\ mode = "running"
    /\ step >= LastStep /\ durable = step
    /\ mode' = "finished"
    /\ UNCHANGED <<step, durable>>

Crash ==
    /\ mode = "running"
    /\ mode' = "down" /\ step' = 0
    /\ UNCHANGED durable

Fail ==
    /\ mode = "down" /\ durable = Lost
    /\ mode' = "broken"
    /\ UNCHANGED <<step, durable>>

Next == Restart \/ Commit \/ Lose \/ Advance \/ Finish \/ Crash \/ Fail

Spec == Init /\ [][Next]_vars
=============================================================================
