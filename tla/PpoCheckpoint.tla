---------------------------- MODULE PpoCheckpoint ----------------------------
(***************************************************************************)
(* Checkpoint and resume of the PPO trainer (RayPPOTrainer): the driver    *)
(* trains step after step, saves the models one worker group after the     *)
(* other, then the dataloader state, then the tracker file that names the  *)
(* checkpoint to restart from.  The job may be killed between any two      *)
(* steps and is started again.                                             *)
(*                                                                         *)
(* One training step is one action: what happens inside it is not on disk. *)
(***************************************************************************)
EXTENDS CheckpointManager, Integers

CONSTANTS
    SaveOrder,      \* the models in the order they are saved
    LastStep,       \* total_training_steps
    LoopSteps,      \* total_epochs * len(train_dataloader)
    SaveFreq,       \* trainer.save_freq
    EsiExpires,     \* should_save_ckpt_esi may answer TRUE
    AsyncSave,      \* actor.checkpoint.async_save
    Resume,         \* trainer.resume_mode # "disable"
    MaxCrashes,     \* bound: how often the job is killed
    NoTracker, EmptyTracker,    \* the tracker file is missing, is empty
    NoData, TornData            \* data.pt is missing, is not finished

ASSUME TrainerAssumption ==
    /\ SaveOrder \in Seq(Models)
    /\ Len(SaveOrder) > 0
    /\ \A m \in Models : \E i \in 1 .. Len(SaveOrder) : SaveOrder[i] = m
    /\ \A i, j \in 1 .. Len(SaveOrder) : i # j => SaveOrder[i] # SaveOrder[j]
    /\ LastStep \in Nat \ {0}
    /\ LoopSteps \in Nat \ {0}
    /\ Steps = 1 .. LoopSteps
    /\ SaveFreq \in Int
    /\ EsiExpires \in BOOLEAN
    /\ AsyncSave \in BOOLEAN
    /\ Resume \in BOOLEAN
    /\ MaxCrashes \in Nat
    /\ NoTracker \notin Nat /\ EmptyTracker \notin Nat
    /\ NoTracker # EmptyTracker
    /\ NoData \notin Nat /\ TornData \notin Nat /\ NoData # TornData

VARIABLES
    dpc,        \* where the driver is
    step,       \* global_steps: the step in progress
    pos,        \* how many batches the dataloader has yielded
    cur,        \* the model being saved, an index of SaveOrder
    tracker,    \* latest_checkpointed_iteration.txt
    dataPt,     \* dataPt[s]: the position saved in data.pt of step s
    folders,    \* the folders global_step_s that exist
    crashes

driverVars == <<dpc, step, pos, cur>>
vars == <<mgrVars, driverVars, tracker, dataPt, folders, crashes>>

DriverStates == {"down", "step", "save", "saving", "data", "writingData",
                 "openTracker", "writeTracker", "bodyEnd", "finished", "broken"}

TypeOK ==
    /\ ManagerTypeOK
    /\ dpc \in DriverStates
    /\ step \in Nat
    /\ pos \in Nat
    /\ cur \in 1 .. Len(SaveOrder)
    /\ tracker \in Steps \cup {NoTracker, EmptyTracker}
    /\ dataPt \in [Steps -> Nat \cup {NoData, TornData}]
    /\ folders \subseteq Steps
    /\ crashes \in 0 .. MaxCrashes

Init ==
    /\ ManagerInit
    /\ dpc = "down"
    /\ step = 0 /\ pos = 0 /\ cur = 1
    /\ tracker = NoTracker
    /\ dataPt = [s \in Steps |-> NoData]
    /\ folders = {}
    /\ crashes = 0

-----------------------------------------------------------------------------
(***************************************************************************)
(* Start of the job: _load_checkpoint.                                     *)
(***************************************************************************)

\* find_latest_ckpt_path finds a folder to resume from.
FoundLatest == Resume /\ tracker \in folders

\* int() of an empty tracker file raises.
TrackerUnreadable == Resume /\ tracker = EmptyTracker

\* The shards of every model load, and data.pt loads if it is there.
Loadable(s) ==
    /\ \A m \in Models : ShardsWhole(m, s)
    /\ dataPt[s] # TornData

\* The position of the dataloader after _load_checkpoint of step s.
ForgottenPos(s) == 0                                             \* mutant
LoadedPos(s) == IF dataPt[s] = NoData THEN 0 ELSE dataPt[s]

\* fit() enters its loop at step s, or falls through it when no epoch is left.
EnterUnbounded(s) == step' = s /\ dpc' = "step"                  \* mutant
EnterLoop(s) ==
    /\ step' = s
    /\ dpc' = IF s <= LoopSteps THEN "step" ELSE "finished"

StartFromScratch ==
    /\ dpc = "down"
    /\ ~ FoundLatest /\ ~ TrackerUnreadable
    /\ EnterLoop(1)
    /\ pos' = 0
    /\ UNCHANGED <<mgrVars, cur, tracker, dataPt, folders, crashes>>

StartFromCheckpoint ==
    /\ dpc = "down"
    /\ FoundLatest /\ Loadable(tracker)
    /\ EnterLoop(tracker + 1)
    /\ pos' = LoadedPos(tracker)
    /\ UNCHANGED <<mgrVars, cur, tracker, dataPt, folders, crashes>>

\* _load_checkpoint raises: the job does not start, however often it is tried.
StartFails ==
    /\ dpc = "down"
    /\ TrackerUnreadable \/ (FoundLatest /\ ~ Loadable(tracker))
    /\ dpc' = "broken"
    /\ UNCHANGED <<mgrVars, step, pos, cur, tracker, dataPt, folders, crashes>>

-----------------------------------------------------------------------------
(***************************************************************************)
(* The loop of fit().                                                      *)
(***************************************************************************)
LastStepMissed(s) == s > LastStep                                \* mutant
IsLastStep(s) == s >= LastStep

\* The condition under which fit() saves at the end of step s.
SaveDue(s, esiClose) ==
    \/ IsLastStep(s)
    \/ SaveFreq > 0 /\ (s % SaveFreq = 0 \/ esiClose)

Train ==
    /\ dpc = "step"
    /\ pos' = pos + 1
    /\ \E esiClose \in {FALSE, EsiExpires} :
          dpc' = IF SaveDue(step, esiClose) THEN "save" ELSE "bodyEnd"
    /\ UNCHANGED <<mgrVars, step, cur, tracker, dataPt, folders, crashes>>

\* End of the loop body: return after the last step, or take the next batch.
EndBody ==
    /\ dpc = "bodyEnd"
    /\ IF IsLastStep(step)
       THEN dpc' = "finished" /\ UNCHANGED step
       ELSE EnterLoop(step + 1)
    /\ UNCHANGED <<mgrVars, pos, cur, tracker, dataPt, folders, crashes>>

-----------------------------------------------------------------------------
(***************************************************************************)
(* _save_checkpoint, after the last model went through the worker groups.  *)
(***************************************************************************)
StartSave ==
    /\ dpc = "save"
    /\ CallSave(SaveOrder[cur])
    /\ dpc' = "saving"
    /\ UNCHANGED <<step, pos, cur, tracker, dataPt, folders, crashes>>

\* The steps of the workers while the driver waits for them.
WorkersSave ==
    /\ dpc = "saving"
    /\ LET m == SaveOrder[cur] IN
          \/ /\ \/ EnsureCapacity(m)
                \/ \E s \in Steps : RemoveFile(m, s) \/ RemoveDir(m, s)
                \/ \E r \in Ranks : \/ PassBarrier1(m, r)
                                    \/ BeginDump(m, r, step)
                                    \/ EndDump(m, r, step)
                                    \/ PassBarrier2(m, r)
                \/ Register(m, step)
                \/ EndRetire(m)
             /\ UNCHANGED folders
          \/ /\ \E r \in Ranks : MakeDir(m, r)
             /\ folders' = folders \cup {step}
    /\ UNCHANGED <<driverVars, tracker, dataPt, crashes>>

EndSave ==
    /\ dpc = "saving"
    /\ AllSaved(SaveOrder[cur])
    /\ at' = [at EXCEPT ![SaveOrder[cur]] = [r \in Ranks |-> "idle"]]
    /\ IF cur < Len(SaveOrder)
       THEN dpc' = "save" /\ cur' = cur + 1
       ELSE dpc' = "data" /\ cur' = 1
    /\ UNCHANGED <<saved, doomed, whole, torn>>
    /\ UNCHANGED <<step, pos, tracker, dataPt, folders, crashes>>

BeginSaveData ==
    /\ dpc = "data"
    /\ folders' = folders \cup {step}
    /\ dataPt' = [dataPt EXCEPT ![step] = TornData]
    /\ dpc' = "writingData"
    /\ UNCHANGED <<mgrVars, step, pos, cur, tracker, crashes>>

EndSaveData ==
    /\ dpc = "writingData"
    /\ dataPt' = [dataPt EXCEPT ![step] = pos]
    /\ dpc' = IF AsyncSave THEN "bodyEnd" ELSE "openTracker"
    /\ UNCHANGED <<mgrVars, step, pos, cur, tracker, folders, crashes>>

\* open(tracker, "w") truncates the file; its content is there once written.
OpenTracker ==
    /\ dpc = "openTracker"
    /\ tracker' = EmptyTracker
    /\ dpc' = "writeTracker"
    /\ UNCHANGED <<mgrVars, step, pos, cur, dataPt, folders, crashes>>

WriteTracker ==
    /\ dpc = "writeTracker"
    /\ tracker' = step
    /\ dpc' = "bodyEnd"
    /\ UNCHANGED <<mgrVars, step, pos, cur, dataPt, folders, crashes>>

-----------------------------------------------------------------------------
\* The job is killed: the driver and the workers lose all they have in memory.
Crash ==
    /\ dpc \notin {"down", "finished", "broken"}
    /\ crashes < MaxCrashes
    /\ crashes' = crashes + 1
    /\ LoseWorkers
    /\ dpc' = "down" /\ step' = 0 /\ pos' = 0 /\ cur' = 1
    /\ UNCHANGED <<tracker, dataPt, folders>>

Proceed ==
    \/ StartFromScratch \/ StartFromCheckpoint \/ StartFails
    \/ Train \/ EndBody
    \/ StartSave \/ WorkersSave \/ EndSave
    \/ BeginSaveData \/ EndSaveData
    \/ OpenTracker \/ WriteTracker

Next == Proceed \/ Crash

Spec == Init /\ [][Next]_vars

\* A job that can go on goes on: the processes are scheduled, and a killed job
\* is started again.
FairSpec == Spec /\ WF_vars(Proceed)

-----------------------------------------------------------------------------
(***************************************************************************)
(* Properties.                                                             *)
(***************************************************************************)

\* No manager runs with max_ckpt_to_keep = 1.
NoKeepOne == \A m \in Models : Keep[m] # 1

Complete(s) == (\A m \in Models : ShardsWhole(m, s)) /\ dataPt[s] = s

\* The checkpoint the tracker file names is always complete on disk: every
\* shard of every model and the dataloader state of that very step.  No
\* rotation, no later save and no crash may take it away before the tracker
\* names a newer one.
TrackedCheckpointComplete == tracker \in Steps => Complete(tracker)

\* The model and its dataloader never drift apart: the batch trained in step s
\* is the s-th one, across every crash and resume.
DataInSync ==
    /\ dpc = "step" => pos = step - 1
    /\ dpc \in {"save", "saving", "data", "writingData", "openTracker",
               "writeTracker", "bodyEnd"} => pos = step

\* The step a restart would resume after.
Durable == IF tracker \in Steps THEN tracker ELSE 0

\* The PPO trainer implements the durable-progress promise up to its tracker
\* write: only between truncating and writing that file is the durable step
\* lost, and a job killed there does not start again.
Durably == INSTANCE DurableProgress WITH
    mode <- IF dpc \in {"down", "finished", "broken"} THEN dpc ELSE "running",
    step <- step,
    durable <- CASE tracker = EmptyTracker -> EmptyTracker
                 [] tracker = NoTracker -> 0
                 [] OTHER -> tracker,
    MayLose <- TRUE,
    Lost <- EmptyTracker

ImplementsDurableProgress == Durably!Spec

\* Every job ends, unless a crash between truncating and writing the tracker
\* file left it empty.
EndsUnlessTrackerEmpty ==
    <>(dpc = "finished" \/ (dpc = "broken" /\ tracker = EmptyTracker))
=============================================================================
