---------------------------- MODULE SftCheckpoint ----------------------------
(***************************************************************************)
(* Checkpoint and resume of the SFT trainers (CheckpointHandler, and the   *)
(* same code inside FSDPSFTTrainer).  Every rank runs the training loop.   *)
(* After the checkpoint manager and the barrier that follows it, each rank *)
(* that owns a dataloader writes its own data file into the folder of the  *)
(* step, rank 0 renames a new tracker file into place, and a last barrier  *)
(* closes the save.  Rotation removes whole folders.                       *)
(*                                                                         *)
(* All ranks are writers in SPMD mode, each being a data parallel rank;    *)
(* under Ray and in FSDPSFTTrainer one process, the leader, writes the     *)
(* only data file.  The copy to HDFS is left out (the   *)
(* folder is not changed by it), and so is an explicit resume_from_path.   *)
(***************************************************************************)
EXTENDS CheckpointManager

CONSTANTS
    Sft,            \* the model
    WriterSets,     \* the sets of ranks that may write data files
    DataFile,       \* DataFile[r] is the data file of rank r
    LastStep,       \* total_training_steps
    LoopSteps,      \* total_epochs * steps_per_epoch
    SaveFreq,       \* trainer.save_freq
    MaxCrashes,     \* bound: how often the job is killed
    NoTracker       \* the tracker file is missing

ASSUME SftAssumption ==
    /\ Models = {Sft}
    /\ \A W \in WriterSets : Leader \in W /\ W \subseteq Ranks
    /\ DataFile \in [Ranks -> Files]
    /\ \A r, q \in Ranks : DataFile[r] # Shard[q]
    /\ \A W \in WriterSets : \A r, q \in W : r # q => DataFile[r] # DataFile[q]
    /\ LastStep \in Nat \ {0} /\ LoopSteps \in Nat \ {0}
    /\ Steps = 1 .. LoopSteps
    /\ SaveFreq \in Nat \ {0}
    /\ MaxCrashes \in Nat
    /\ NoTracker \notin Nat

VARIABLES
    writers,    \* the ranks that write a data file
    phase,      \* where the job is in the loop that all ranks run in step
    tail,       \* tail[r]: where rank r is in the end of save_checkpoint
    step,       \* global_step
    pos,        \* pos[r]: how many batches rank r's dataloader has yielded
    tracker,
    folders,    \* the folders global_step_s that exist
    held,       \* held[r][s]: the position in rank r's data file of step s
    crashes

vars == <<mgrVars, writers, phase, tail, step, pos, tracker, folders, held, crashes>>

Phases == {"down", "step", "manager", "tail", "bodyEnd", "finished", "broken"}
TailPositions == {"data", "writing", "tracker", "barrier"}
NotInTail == [r \in Ranks |-> "barrier"]

TypeOK ==
    /\ ManagerTypeOK
    /\ writers \in WriterSets
    /\ phase \in Phases
    /\ tail \in [Ranks -> TailPositions]
    /\ step \in Nat
    /\ pos \in [writers -> Nat]
    /\ tracker \in Steps \cup {NoTracker}
    /\ folders \subseteq Steps
    /\ held \in [writers -> [Steps -> Nat]]
    /\ crashes \in 0 .. MaxCrashes

Init ==
    /\ ManagerInit
    /\ writers \in WriterSets
    /\ phase = "down"
    /\ tail = NotInTail
    /\ step = 0
    /\ pos = [r \in writers |-> 0]
    /\ tracker = NoTracker
    /\ folders = {}
    /\ held = [r \in writers |-> [s \in Steps |-> 0]]
    /\ crashes = 0

-----------------------------------------------------------------------------
\* find_latest_ckpt_path: the tracker file and the folder it names exist.
FoundLatest == tracker \in folders

\* Every shard loads, and every data file that is there loads.
Loadable(s) ==
    /\ ShardsWhole(Sft, s)
    /\ \A r \in writers : DataFile[r] \notin torn[Sft][s]

EnterUnbounded(s) == step' = s /\ phase' = "step"                \* mutant
EnterLoop(s) ==
    /\ step' = s
    /\ phase' = IF s <= LoopSteps THEN "step" ELSE "finished"

StartFromScratch ==
    /\ phase = "down"
    /\ ~ FoundLatest
    /\ EnterLoop(1)
    /\ pos' = [r \in writers |-> 0]
    /\ UNCHANGED <<mgrVars, writers, tail, tracker, folders, held, crashes>>

\* Where rank r's dataloader resumes from the checkpoint of step s: a rank
\* whose data file is missing only warns and starts anew.
ForgottenPos(r, s) == 0                                          \* mutant
ResumePos(r, s) == IF DataFile[r] \in whole[Sft][s] THEN held[r][s] ELSE 0

StartFromCheckpoint ==
    /\ phase = "down"
    /\ FoundLatest /\ Loadable(tracker)
    /\ EnterLoop(tracker + 1)
    /\ pos' = [r \in writers |-> ResumePos(r, tracker)]
    /\ UNCHANGED <<mgrVars, writers, tail, tracker, folders, held, crashes>>

StartFails ==
    /\ phase = "down"
    /\ FoundLatest /\ ~ Loadable(tracker)
    /\ phase' = "broken"
    /\ UNCHANGED <<mgrVars, writers, tail, step, pos, tracker, folders, held, crashes>>

-----------------------------------------------------------------------------
LastStepMissed(s) == s > LastStep                                \* mutant
IsLastStep(s) == s >= LastStep
SaveDue(s) == IsLastStep(s) \/ s % SaveFreq = 0

\* One batch on every rank: the gradient reduction keeps them in step.
Train ==
    /\ phase = "step"
    /\ pos' = [r \in writers |-> pos[r] + 1]
    /\ IF SaveDue(step)
       THEN phase' = "manager" /\ CallSave(Sft)
       ELSE phase' = "bodyEnd" /\ UNCHANGED mgrVars
    /\ UNCHANGED <<writers, tail, step, tracker, folders, held, crashes>>

EndBody ==
    /\ phase = "bodyEnd"
    /\ IF IsLastStep(step)
       THEN phase' = "finished" /\ UNCHANGED step
       ELSE EnterLoop(step + 1)
    /\ UNCHANGED <<mgrVars, writers, tail, pos, tracker, folders, held, crashes>>

-----------------------------------------------------------------------------
ManagerSaves ==
    /\ phase = "manager"
    /\ \/ /\ \/ EnsureCapacity(Sft)
             \/ \E s \in Steps : RemoveFile(Sft, s)
             \/ \E r \in Ranks : \/ PassBarrier1(Sft, r)
                                 \/ BeginDump(Sft, r, step)
                                 \/ EndDump(Sft, r, step)
                                 \/ PassBarrier2(Sft, r)
             \/ Register(Sft, step)
             \/ EndRetire(Sft)
          /\ UNCHANGED folders
       \/ /\ \E r \in Ranks : MakeDir(Sft, r)
          /\ folders' = folders \cup {step}
       \/ \E s \in Steps : /\ RemoveDir(Sft, s)
                           /\ folders' = folders \ {s}
    /\ UNCHANGED <<writers, phase, tail, step, pos, tracker, held, crashes>>

\* What a rank does first after the manager's save.
FirstTail(r) == IF r \in writers THEN "data" ELSE "barrier"

\* The barrier after the manager's save: rank 0 has finished the rotation.
EndManager ==
    /\ phase = "manager"
    /\ AllSaved(Sft)
    /\ at' = [at EXCEPT ![Sft] = [r \in Ranks |-> "idle"]]
    /\ phase' = "tail"
    /\ tail' = [r \in Ranks |-> FirstTail(r)]
    /\ UNCHANGED <<saved, doomed, whole, torn>>
    /\ UNCHANGED <<writers, step, pos, tracker, folders, held, crashes>>

BeginSaveData(r) ==
    /\ phase = "tail" /\ tail[r] = "data"
    /\ whole' = [whole EXCEPT ![Sft][step] = @ \ {DataFile[r]}]
    /\ torn' = [torn EXCEPT ![Sft][step] = @ \cup {DataFile[r]}]
    /\ tail' = [tail EXCEPT ![r] = "writing"]
    /\ UNCHANGED <<writers, at, saved, doomed, phase, step, pos, tracker, folders, held, crashes>>

EndSaveData(r) ==
    /\ phase = "tail" /\ tail[r] = "writing"
    /\ whole' = [whole EXCEPT ![Sft][step] = @ \cup {DataFile[r]}]
    /\ torn' = [torn EXCEPT ![Sft][step] = @ \ {DataFile[r]}]
    /\ held' = [held EXCEPT ![r][step] = pos[r]]
    /\ tail' = [tail EXCEPT ![r] = IF r = Leader THEN "tracker" ELSE "barrier"]
    /\ UNCHANGED <<writers, at, saved, doomed, phase, step, pos, tracker, folders, crashes>>

\* Write a temporary file and rename it onto the tracker file.
RenameTracker ==
    /\ phase = "tail" /\ tail[Leader] = "tracker"
    /\ tracker' = step
    /\ tail' = [tail EXCEPT ![Leader] = "barrier"]
    /\ UNCHANGED <<mgrVars, writers, phase, step, pos, folders, held, crashes>>

PassLastBarrier ==
    /\ phase = "tail"
    /\ tail = NotInTail
    /\ phase' = "bodyEnd"
    /\ UNCHANGED <<mgrVars, writers, tail, step, pos, tracker, folders, held, crashes>>

-----------------------------------------------------------------------------
Crash ==
    /\ phase \notin {"down", "finished", "broken"}
    /\ crashes < MaxCrashes
    /\ crashes' = crashes + 1
    /\ LoseWorkers
    /\ phase' = "down" /\ tail' = NotInTail
    /\ step' = 0 /\ pos' = [r \in writers |-> 0]
    /\ UNCHANGED <<writers, tracker, folders, held>>

Proceed ==
    \/ StartFromScratch \/ StartFromCheckpoint \/ StartFails
    \/ Train \/ EndBody
    \/ ManagerSaves \/ EndManager
    \/ \E r \in writers : BeginSaveData(r) \/ EndSaveData(r)
    \/ RenameTracker \/ PassLastBarrier

Next == Proceed \/ Crash

Spec == Init /\ [][Next]_vars
FairSpec == Spec /\ WF_vars(Proceed)

-----------------------------------------------------------------------------

\* "It's identical in each dp rank": the batch trained in step s is the s-th one
\* of every rank's dataloader.  It does not hold of the ranks for whose data
\* files the tracker does not wait, once the job was killed.
DataInSync == phase = "step" => \A r \in writers : pos[r] = step - 1

\* What does hold: the rank that writes the tracker is always at the batch of the
\* step, across every crash and resume; another one is there too, or has started
\* anew at a checkpoint that was tracked without its data file, and is behind by
\* just the batches up to that checkpoint ever since.
Tracked(s, t) == SaveDue(s) /\ t # NoTracker /\ s <= t
DataLostOnce ==
    phase = "step" =>
        /\ pos[Leader] = step - 1
        /\ \A r \in writers : pos[r] # step - 1 =>
              /\ crashes > 0
              /\ \E s \in Steps : Tracked(s, tracker) /\ pos[r] = step - 1 - s

\* What a restart would resume after: the tracked step, unless a data file in
\* its folder cannot be read.
Durable ==
    IF tracker = NoTracker THEN 0
    ELSE IF tracker \in folders /\ Loadable(tracker) THEN tracker ELSE NoTracker

\* The whole protocol of files, ranks, barriers and rotation implements the
\* promise that a step becomes durable as one event and that a crash loses
\* nothing else; a data file half written after the tracker can lose it.
Durably == INSTANCE DurableProgress WITH
    mode <- IF phase \in {"down", "finished", "broken"} THEN phase ELSE "running",
    step <- step,
    durable <- Durable,
    MayLose <- TRUE,
    Lost <- NoTracker

ImplementsDurableProgress == Durably!Spec

\* With one writer the job comes to its end however often it is killed.
Ends == (writers = {Leader}) => <>(phase = "finished")
=============================================================================
