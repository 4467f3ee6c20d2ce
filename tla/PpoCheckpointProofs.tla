------------------------- MODULE PpoCheckpointProofs -------------------------
(***************************************************************************)
(* Theorems about PpoCheckpoint, for every number of ranks, models and     *)
(* steps, every save frequency and every number of crashes.                *)
(***************************************************************************)
EXTENDS PpoCheckpoint, CheckpointManagerProofs

\* The driver states inside the loop body of fit().
InBody == {"step", "save", "saving", "data", "writingData", "openTracker",
           "writeTracker", "bodyEnd"}

-----------------------------------------------------------------------------
(***************************************************************************)
(* The inductive invariant.                                                *)
(***************************************************************************)

\* The step in progress is one of the loop.
StepInLoop == dpc \in InBody => step \in Steps

TypeInv == TypeOK /\ StepInLoop

\* The manager of m has recorded the step in progress.
Registered(m) ==
    \/ dpc \in {"data", "writingData", "openTracker", "writeTracker", "bodyEnd"}
    \/ /\ dpc \in {"save", "saving"}
       /\ \E j \in 1 .. cur - 1 : SaveOrder[j] = m
    \/ /\ dpc = "saving" /\ SaveOrder[cur] = m
       /\ at[m][Leader] \in {"retire", "saved"}

\* The models are saved from the first one on.
CursorInv == dpc \notin {"save", "saving"} => cur = 1

\* An entry e of previous_saved_paths of m is not younger than the step in
\* progress, is that step only once it is registered, and is otherwise not
\* younger than the tracked step.
EntryOK(m, e) ==
    /\ e <= step
    /\ e = step => Registered(m)
    /\ tracker \in Steps /\ (e # step \/ dpc = "bodyEnd") => e <= tracker

SavedInv ==
    \A m \in Models :
        /\ Ordered(m) /\ Room(m)
        /\ dpc = "down" => saved[m] = << >>
        /\ dpc \in InBody => \A i \in 1 .. Len(saved[m]) : EntryOK(m, saved[m][i])

\* What is being removed is neither tracked nor the checkpoint being written.
DoomedInv ==
    \A m \in Models : doomed[m] # {} =>
        /\ dpc = "saving" /\ SaveOrder[cur] = m /\ at[m][Leader] = "evict"
        /\ tracker \notin doomed[m]
        /\ step \notin doomed[m]

\* A restart finds the folder of the tracked step; the step in progress is
\* younger than it; the file is empty only while it is written.
TrackerInv ==
    /\ tracker \in Steps => tracker \in folders
    /\ tracker \in Steps /\ dpc \in InBody =>
          tracker < step \/ (tracker = step /\ dpc = "bodyEnd")
    /\ tracker = EmptyTracker => dpc \in {"writeTracker", "down", "broken"}
    /\ dpc = "writeTracker" => tracker = EmptyTracker
    /\ dpc \in {"writingData", "openTracker", "writeTracker"} => step \in folders

\* What the save of the step in progress has written so far.
WrittenInv ==
    /\ dpc = "saving" => Dumped(SaveOrder[cur], step)
    /\ dpc \in {"save", "saving"} =>
          \A j \in 1 .. cur - 1 : ShardsWhole(SaveOrder[j], step)
    /\ dpc \in {"data", "writingData", "openTracker", "writeTracker"} =>
          \A m \in Models : ShardsWhole(m, step)
    /\ dpc \in {"openTracker", "writeTracker"} => dataPt[step] = step

\* No tracker is ever written with asynchronous saving.
AsyncInv ==
    AsyncSave => tracker = NoTracker /\ dpc \notin {"openTracker", "writeTracker"}

IInv ==
    /\ TypeInv
    /\ CursorInv /\ SavedInv /\ DoomedInv /\ TrackerInv /\ WrittenInv /\ AsyncInv
    /\ DataInSync
    /\ TrackedCheckpointComplete
-----------------------------------------------------------------------------
(***************************************************************************)
(* Type correctness.                                                       *)
(***************************************************************************)

\* The steps of the workers are steps of the save of the current model.
LEMMA WorkersSaveStep ==
    ASSUME WorkersSave
    PROVE  SaveStep(SaveOrder[cur], step)
BY DEF WorkersSave, SaveStep

\* The current model is one of the models.
LEMMA CurrentModel ==
    ASSUME TypeOK
    PROVE  SaveOrder[cur] \in Models
BY TrainerAssumption DEF TypeOK

\* The loop is entered at a step of the loop, or not at all.
LEMMA EnterLoopInLoop ==
    ASSUME NEW s \in Nat \ {0}, EnterLoop(s)
    PROVE  step' \in Nat /\ dpc' \in DriverStates /\ StepInLoop'
BY TrainerAssumption DEF EnterLoop, DriverStates, StepInLoop, InBody

\* After a model is saved the driver goes on to the next one or to the data.
LEMMA NextCursor ==
    ASSUME cur \in 1 .. Len(SaveOrder), EndSave
    PROVE  cur' \in 1 .. Len(SaveOrder) /\ dpc = "saving" /\ dpc' \in {"save", "data"}
<1>1. Len(SaveOrder) \in Nat \ {0}
  <2>1. SaveOrder \in Seq(Models) /\ Len(SaveOrder) > 0
    BY TrainerAssumption
  <2>2. QED
    BY <2>1
<1>2. /\ dpc = "saving"
      /\ IF cur < Len(SaveOrder) THEN dpc' = "save" /\ cur' = cur + 1
                                 ELSE dpc' = "data" /\ cur' = 1
  BY DEF EndSave
<1>3. QED
  BY <1>1, <1>2

\* The initial state is well typed.
LEMMA InitType == Init => TypeInv
<1> SUFFICES ASSUME Init PROVE TypeInv
  OBVIOUS
<1>1. ManagerTypeOK
  BY ManagerInitType DEF Init
<1>2. QED
  BY <1>1, TrainerAssumption, ManagerAssumption
     DEF Init, TypeInv, TypeOK, StepInLoop, InBody, DriverStates

\* Every step keeps the state well typed and the step in progress in the loop.
LEMMA NextType ==
    ASSUME TypeInv, [Next]_vars
    PROVE  TypeInv'
<1> USE TrainerAssumption, ManagerAssumption
    DEF TypeInv, TypeOK, StepInLoop, InBody, DriverStates
<1>m. UNCHANGED mgrVars => ManagerTypeOK'
  BY DEF ManagerTypeOK, mgrVars
<1>1. CASE StartFromScratch
  <2>1. EnterLoop(1) /\ 1 \in Nat \ {0}
    BY <1>1 DEF StartFromScratch
  <2>2. step' \in Nat /\ dpc' \in DriverStates /\ StepInLoop'
    BY <2>1, EnterLoopInLoop
  <2>3. QED
    BY <1>1, <1>m, <2>2 DEF StartFromScratch
<1>2. CASE StartFromCheckpoint
  <2>1. tracker \in Steps /\ tracker + 1 \in Nat \ {0}
    BY <1>2 DEF StartFromCheckpoint, FoundLatest
  <2>2. LoadedPos(tracker) \in Nat
    BY <1>2, <2>1 DEF StartFromCheckpoint, Loadable, LoadedPos
  <2>3. QED
    BY <1>2, <1>m, <2>1, <2>2, EnterLoopInLoop DEF StartFromCheckpoint
<1>3. CASE StartFails
  BY <1>3, <1>m DEF StartFails
<1>4. CASE Train
  <2>1. dpc = "step" /\ dpc' \in {"save", "bodyEnd"}
    BY <1>4 DEF Train
  <2>2. pos' = pos + 1 /\ UNCHANGED <<mgrVars, step, cur, tracker, dataPt, folders, crashes>>
    BY <1>4 DEF Train
  <2>3. ManagerTypeOK' /\ pos' \in Nat
    BY <1>m, <2>2
  <2>4. StepInLoop'
    BY <2>1, <2>2
  <2>5. QED
    BY <2>1, <2>2, <2>3, <2>4
<1>5. CASE EndBody
  <2>1. step + 1 \in Nat \ {0}
    OBVIOUS
  <2>2. QED
    BY <1>5, <1>m, <2>1, EnterLoopInLoop DEF EndBody
<1>6. CASE StartSave
  <2>1. ManagerTypeOK'
    BY <1>6, CurrentModel, CallSaveType DEF StartSave
  <2>2. QED
    BY <1>6, <2>1 DEF StartSave
<1>7. CASE WorkersSave
  <2>1. step \in Steps
    BY <1>7 DEF WorkersSave
  <2>2. ManagerTypeOK'
    BY <1>7, <2>1, CurrentModel, WorkersSaveStep, SaveStepType
  <2>3. folders' \subseteq Steps
    BY <1>7, <2>1 DEF WorkersSave
  <2>4. QED
    BY <1>7, <2>2, <2>3 DEF WorkersSave, driverVars
<1>8. CASE EndSave
  <2>1. ManagerTypeOK'
    <3>1. at' = [at EXCEPT ![SaveOrder[cur]] = [r \in Ranks |-> "idle"]]
      BY <1>8 DEF EndSave
    <3>2. UNCHANGED <<saved, doomed, whole, torn>>
      BY <1>8 DEF EndSave
    <3>3. [r \in Ranks |-> "idle"] \in [Ranks -> Positions]
      BY DEF Positions
    <3>4. at' \in [Models -> [Ranks -> Positions]]
      BY <3>1, <3>3 DEF ManagerTypeOK
    <3>5. QED
      BY <3>2, <3>4 DEF ManagerTypeOK
  <2>2. cur' \in 1 .. Len(SaveOrder) /\ dpc = "saving" /\ dpc' \in {"save", "data"}
    BY <1>8, NextCursor
  <2>3. UNCHANGED <<step, pos, tracker, dataPt, folders, crashes>>
    BY <1>8 DEF EndSave
  <2>4. StepInLoop'
    BY <2>2, <2>3
  <2>5. QED
    BY <2>1, <2>2, <2>3, <2>4
<1>9. CASE BeginSaveData
  BY <1>9, <1>m DEF BeginSaveData
<1>10. CASE EndSaveData
  BY <1>10, <1>m DEF EndSaveData
<1>11. CASE OpenTracker
  BY <1>11, <1>m DEF OpenTracker
<1>12. CASE WriteTracker
  BY <1>12, <1>m DEF WriteTracker
<1>13. CASE Crash
  <2>1. ManagerTypeOK'
    BY <1>13, LoseWorkersType DEF Crash
  <2>2. crashes' \in 0 .. MaxCrashes
    BY <1>13 DEF Crash
  <2>3. cur' \in 1 .. Len(SaveOrder)
    BY <1>13 DEF Crash
  <2>4. QED
    BY <1>13, <2>1, <2>2, <2>3 DEF Crash
<1>14. CASE UNCHANGED vars
  BY <1>14, <1>m DEF vars, driverVars
<1>15. QED
  BY <1>1, <1>2, <1>3, <1>4, <1>5, <1>6, <1>7, <1>8, <1>9, <1>10, <1>11, <1>12,
     <1>13, <1>14 DEF Next, Proceed

\* Every state the job reaches is well typed: in particular the tracker file
\* only ever names a step of the loop, and the loop body only runs such steps.
THEOREM TypeCorrect == Spec => []TypeOK
<1>1. TypeInv => TypeOK
  BY DEF TypeInv
<1>2. QED
  BY <1>1, InitType, NextType, PTL DEF Spec

-----------------------------------------------------------------------------
(***************************************************************************)
(* Every step preserves the inductive invariant, when no manager keeps     *)
(* exactly one checkpoint and the job resumes.                             *)
(***************************************************************************)

\* The part of the state an action of the driver alone leaves as it is.
LEMMA ManagerUnchanged ==
    ASSUME UNCHANGED mgrVars
    PROVE  /\ UNCHANGED <<at, saved, doomed, whole, torn>>
           /\ \A m \in Models : (Ordered(m) => Ordered(m)') /\ (Room(m) => Room(m)')
BY DEF mgrVars, Ordered, Room

\* While a model is saved and rank 0 has not registered it, the step in
\* progress is not in its previous_saved_paths.
LEMMA NotRegistered ==
    ASSUME TypeOK, dpc = "saving", at[SaveOrder[cur]][Leader] \notin {"retire", "saved"}
    PROVE  ~ Registered(SaveOrder[cur])
BY TrainerAssumption DEF TypeOK, Registered

\* Batches and steps stay in step.
LEMMA DataInSyncStep ==
    ASSUME IInv, Resume, Next
    PROVE  DataInSync'
<1> USE DEF IInv, TypeInv, TypeOK, DataInSync
<1>1. CASE StartFromScratch
  BY <1>1 DEF StartFromScratch, EnterLoop
<1>2. CASE StartFromCheckpoint
  <2>1. tracker \in Steps /\ tracker \in Nat /\ Complete(tracker)
    BY <1>2, ManagerAssumption DEF StartFromCheckpoint, FoundLatest, TrackedCheckpointComplete
  <2>2. pos' = tracker
    BY <1>2, <2>1, TrainerAssumption DEF StartFromCheckpoint, LoadedPos, Complete
  <2>3. step' = tracker + 1 /\ dpc' \in {"step", "finished"}
    BY <1>2 DEF StartFromCheckpoint, EnterLoop
  <2>4. QED
    BY <2>1, <2>2, <2>3
<1>3. CASE StartFails
  BY <1>3 DEF StartFails
<1>4. CASE Train
  <2>1. dpc = "step" /\ dpc' \in {"save", "bodyEnd"} /\ pos' = pos + 1 /\ step' = step
    BY <1>4 DEF Train
  <2>2. QED
    BY <2>1
<1>5. CASE EndBody
  <2>1. /\ dpc = "bodyEnd" /\ pos' = pos
        /\ dpc' = "finished" \/ (dpc' \in {"step", "finished"} /\ step' = step + 1)
    BY <1>5 DEF EndBody, EnterLoop
  <2>2. QED
    BY <2>1
<1>6. CASE StartSave
  BY <1>6 DEF StartSave
<1>7. CASE WorkersSave
  BY <1>7 DEF WorkersSave, driverVars
<1>8. CASE EndSave
  <2>1. dpc = "saving" /\ dpc' \in {"save", "data"} /\ pos' = pos /\ step' = step
    BY <1>8 DEF EndSave
  <2>2. QED
    BY <2>1
<1>9. CASE BeginSaveData \/ EndSaveData \/ OpenTracker \/ WriteTracker
  BY <1>9 DEF BeginSaveData, EndSaveData, OpenTracker, WriteTracker
<1>10. CASE Crash
  BY <1>10 DEF Crash
<1>11. QED
  BY <1>1, <1>2, <1>3, <1>4, <1>5, <1>6, <1>7, <1>8, <1>9, <1>10 DEF Next, Proceed

\* The models are saved from the first one on.
LEMMA CursorStep ==
    ASSUME IInv, Next
    PROVE  CursorInv'
<1> USE DEF IInv, CursorInv
<1>1. CASE StartFromScratch \/ StartFromCheckpoint \/ StartFails
  BY <1>1 DEF StartFromScratch, StartFromCheckpoint, StartFails
<1>2. CASE Train \/ EndBody
  BY <1>2 DEF Train, EndBody
<1>3. CASE StartSave \/ WorkersSave \/ EndSave
  BY <1>3 DEF StartSave, WorkersSave, EndSave, driverVars
<1>4. CASE BeginSaveData \/ EndSaveData \/ OpenTracker \/ WriteTracker
  BY <1>4 DEF BeginSaveData, EndSaveData, OpenTracker, WriteTracker
<1>5. CASE Crash
  BY <1>5 DEF Crash
<1>6. QED
  BY <1>1, <1>2, <1>3, <1>4, <1>5 DEF Next, Proceed

\* With asynchronous saving the tracker file is never written.
LEMMA AsyncStep ==
    ASSUME IInv, Next
    PROVE  AsyncInv'
<1> USE DEF IInv, AsyncInv, TrackerInv
<1>1. CASE StartFromScratch \/ StartFromCheckpoint \/ StartFails
  BY <1>1 DEF StartFromScratch, StartFromCheckpoint, StartFails, EnterLoop
<1>2. CASE Train \/ EndBody
  BY <1>2 DEF Train, EndBody, EnterLoop
<1>3. CASE StartSave \/ WorkersSave \/ EndSave
  BY <1>3 DEF StartSave, WorkersSave, EndSave, driverVars
<1>4. CASE BeginSaveData \/ EndSaveData \/ Crash
  BY <1>4 DEF BeginSaveData, EndSaveData, Crash
<1>5. CASE OpenTracker \/ WriteTracker
  <2>1. ~ AsyncSave
    BY <1>5 DEF OpenTracker, WriteTracker
  <2>2. QED
    BY <2>1
<1>6. QED
  BY <1>1, <1>2, <1>3, <1>4, <1>5 DEF Next, Proceed

\* A restart finds the tracked step, and the step in progress is younger.
LEMMA TrackerStep ==
    ASSUME IInv, Resume, Next
    PROVE  TrackerInv'
<1> USE ManagerAssumption, TrainerAssumption
    DEF IInv, TypeInv, TypeOK, StepInLoop, InBody, TrackerInv
<1>1. CASE StartFromScratch
  <2>1. tracker \notin Steps /\ tracker # EmptyTracker
    BY <1>1 DEF StartFromScratch, FoundLatest, TrackerUnreadable
  <2>2. UNCHANGED <<tracker, folders>> /\ dpc' \in {"step", "finished"}
    BY <1>1 DEF StartFromScratch, EnterLoop
  <2>3. QED
    BY <2>1, <2>2
<1>2. CASE StartFromCheckpoint
  <2>1. tracker \in Steps /\ tracker \in folders /\ tracker \in Nat
    BY <1>2 DEF StartFromCheckpoint, FoundLatest
  <2>2. UNCHANGED <<tracker, folders>> /\ dpc' \in {"step", "finished"}
        /\ step' = tracker + 1
    BY <1>2 DEF StartFromCheckpoint, EnterLoop
  <2>3. tracker # EmptyTracker
    BY <2>1
  <2>4. tracker < tracker + 1
    BY <2>1
  <2>5. tracker' < step'
    BY <2>2, <2>4, Zenon
  <2>6. QED
    BY <2>1, <2>2, <2>3, <2>5
<1>3. CASE StartFails
  BY <1>3 DEF StartFails
<1>4. CASE Train
  <2>1. /\ dpc = "step" /\ dpc' \in {"save", "bodyEnd"}
        /\ UNCHANGED <<tracker, folders, step>>
    BY <1>4 DEF Train
  <2>2. QED
    BY <2>1
<1>5. CASE EndBody
  <2>1. /\ dpc = "bodyEnd" /\ UNCHANGED <<tracker, folders>>
        /\ dpc' = "finished" \/ (dpc' \in {"step", "finished"} /\ step' = step + 1)
    BY <1>5 DEF EndBody, EnterLoop
  <2>2. tracker \in Steps => tracker < step + 1
    BY <2>1
  <2>3. QED
    BY <2>1, <2>2
<1>6. CASE StartSave
  BY <1>6 DEF StartSave
<1>7. CASE WorkersSave
  <2>1. folders' = folders \/ folders' = folders \cup {step}
    BY <1>7 DEF WorkersSave
  <2>2. dpc = "saving" /\ UNCHANGED <<dpc, step, tracker>>
    BY <1>7 DEF WorkersSave, driverVars
  <2>3. QED
    BY <2>1, <2>2
<1>8. CASE EndSave
  <2>1. dpc = "saving" /\ dpc' \in {"save", "data"} /\ UNCHANGED <<tracker, step, folders>>
    BY <1>8 DEF EndSave
  <2>2. QED
    BY <2>1
<1>9. CASE BeginSaveData
  BY <1>9 DEF BeginSaveData
<1>10. CASE EndSaveData
  <2>1. /\ dpc = "writingData" /\ dpc' \in {"bodyEnd", "openTracker"}
        /\ UNCHANGED <<tracker, step, folders>>
    BY <1>10 DEF EndSaveData
  <2>2. QED
    BY <2>1
<1>11. CASE OpenTracker
  <2>1. EmptyTracker \notin Steps
    OBVIOUS
  <2>2. QED
    BY <1>11, <2>1 DEF OpenTracker
<1>12. CASE WriteTracker
  <2>1. step \in Steps /\ step # EmptyTracker /\ step \in folders
    BY <1>12 DEF WriteTracker
  <2>2. QED
    BY <1>12, <2>1 DEF WriteTracker
<1>13. CASE Crash
  BY <1>13 DEF Crash
<1>14. QED
  BY <1>1, <1>2, <1>3, <1>4, <1>5, <1>6, <1>7, <1>8, <1>9, <1>10, <1>11, <1>12,
     <1>13 DEF Next, Proceed

\* What is being removed is neither tracked nor being written.
LEMMA DoomedStep ==
    ASSUME IInv, NoKeepOne, Next
    PROVE  DoomedInv'
<1> USE DEF IInv, TypeInv
<1>1. CASE WorkersSave
  <2> DEFINE m == SaveOrder[cur]
  <2>1. /\ dpc = "saving" /\ UNCHANGED <<dpc, step, cur, tracker>>
        /\ step \in Steps /\ step \in Nat /\ m \in Models
    BY <1>1, CurrentModel DEF WorkersSave, driverVars, StepInLoop, InBody, TypeOK
  <2>2. SaveStep(m, step) /\ ManagerTypeOK
    BY <1>1, WorkersSaveStep DEF TypeOK
  <2>3. Room(m) /\ Ordered(m) /\ Keep[m] # 1
    BY <2>1 DEF SavedInv, NoKeepOne
  <2>4. doomed[m] # {} => at[m][Leader] = "evict"
    BY <2>1 DEF DoomedInv
  <2>5. /\ doomed'[m] # {} => at'[m][Leader] = "evict"
        /\ \A d \in doomed'[m] :
              \/ d \in doomed[m]
              \/ /\ at[m][Leader] = "enter"
                 /\ \E j \in 1 .. Len(saved[m]) : d < saved[m][j]
    BY <2>1, <2>2, <2>3, <2>4, SaveStepDoomed
  <2>6. doomed'[m] \subseteq Steps
    <3>1. ManagerTypeOK'
      BY <2>1, <2>2, SaveStepType
    <3>2. QED
      BY <2>1, <3>1 DEF ManagerTypeOK
  <2>7. ASSUME NEW d \in doomed'[m]
        PROVE  d # tracker /\ d # step
    <3>1. CASE d \in doomed[m]
      BY <2>1, <3>1 DEF DoomedInv
    <3>2. CASE /\ at[m][Leader] = "enter"
               /\ \E j \in 1 .. Len(saved[m]) : d < saved[m][j]
      <4>1. PICK j \in 1 .. Len(saved[m]) : d < saved[m][j]
        BY <3>2
      <4>2. ~ Registered(m)
        BY <2>1, <3>2, NotRegistered
      <4>3. /\ saved[m][j] <= step /\ saved[m][j] # step
            /\ tracker \in Steps => saved[m][j] <= tracker
        BY <2>1, <4>1, <4>2 DEF SavedInv, EntryOK, InBody
      <4>4. d \in Nat /\ saved[m][j] \in Nat
        <5>1. saved[m] \in Seq(Steps)
          BY <2>1, <2>2 DEF ManagerTypeOK
        <5>2. saved[m][j] \in Steps /\ d \in Steps
          BY <2>6, <2>7, <4>1, <5>1
        <5>3. QED
          BY <5>2, ManagerAssumption
      <4>5. d # step
        BY <2>1, <4>1, <4>3, <4>4
      <4>6. tracker \in Steps => d # tracker
        BY <4>1, <4>3, <4>4, ManagerAssumption
      <4>7. QED
        BY <2>6, <2>7, <4>5, <4>6
    <3>3. QED
      BY <2>5, <2>7, <3>1, <3>2
  <2>8. ASSUME NEW n \in Models, n # m
        PROVE  doomed'[n] = {}
    BY <2>1, <2>2, <2>8, SaveStepFrame DEF DoomedInv
  <2>9. QED
    BY <2>1, <2>5, <2>7, <2>8 DEF DoomedInv
<1>2. CASE EndSave
  <2>1. /\ AllSaved(SaveOrder[cur]) /\ UNCHANGED doomed
    BY <1>2 DEF EndSave
  <2>2. \A n \in Models : doomed[n] = {}
    BY <2>1, ManagerAssumption DEF DoomedInv, AllSaved
  <2>3. QED
    BY <2>1, <2>2 DEF DoomedInv
<1>3. CASE Crash
  <2>1. \A n \in Models : doomed'[n] = {}
    BY <1>3 DEF Crash, LoseWorkers
  <2>2. QED
    BY <2>1 DEF DoomedInv
<1>4. ASSUME dpc # "saving", UNCHANGED doomed
      PROVE  DoomedInv'
  BY <1>4 DEF DoomedInv
<1>5. CASE \/ StartFromScratch \/ StartFromCheckpoint \/ StartFails \/ Train \/ EndBody
           \/ BeginSaveData \/ EndSaveData \/ OpenTracker \/ WriteTracker
  <2>1. dpc # "saving" /\ UNCHANGED mgrVars
    BY <1>5 DEF StartFromScratch, StartFromCheckpoint, StartFails, Train, EndBody,
                BeginSaveData, EndSaveData, OpenTracker, WriteTracker
  <2>2. QED
    BY <1>4, <2>1 DEF mgrVars
<1>6. CASE StartSave
  BY <1>4, <1>6 DEF StartSave, CallSave
<1>7. QED
  BY <1>1, <1>2, <1>3, <1>5, <1>6 DEF Next, Proceed

\* The bookkeeping of the managers stays in line with the driver.
LEMMA SavedStep ==
    ASSUME IInv, NoKeepOne, Next
    PROVE  SavedInv'
<1> USE DEF IInv, TypeInv
<1> DEFINE Entries == \A m \in Models : \A i \in 1 .. Len(saved[m]) : EntryOK(m, saved[m][i])
<1>a. dpc \in InBody => Entries
  BY DEF SavedInv
<1>n. \A m \in Models : \A i \in 1 .. Len(saved[m]) : saved[m][i] \in Nat
  <2>1. ASSUME NEW m \in Models, NEW i \in 1 .. Len(saved[m])
        PROVE  saved[m][i] \in Nat
    <3>1. saved[m] \in Seq(Steps)
      BY DEF TypeOK, ManagerTypeOK
    <3>2. saved[m][i] \in Steps
      BY <3>1
    <3>3. QED
      BY <3>2, ManagerAssumption
  <2>2. QED
    BY <2>1
<1>b. ASSUME UNCHANGED mgrVars, dpc' # "down", (dpc \in {"down"} \cup InBody),
             (dpc' \in InBody => Entries')
      PROVE  SavedInv'
  BY <1>b, ManagerUnchanged DEF SavedInv
<1>c. ASSUME UNCHANGED mgrVars, dpc = "down", dpc' # "down"
      PROVE  SavedInv'
  <2>1. Entries'
    BY <1>c DEF mgrVars, SavedInv
  <2>2. QED
    BY <1>b, <1>c, <2>1
<1>1. CASE StartFromScratch \/ StartFromCheckpoint \/ StartFails
  <2>1. UNCHANGED mgrVars /\ dpc = "down" /\ dpc' \in {"step", "finished", "broken"}
    BY <1>1 DEF StartFromScratch, StartFromCheckpoint, StartFails, EnterLoop
  <2>2. QED
    BY <1>c, <2>1
<1>2. CASE Train
  <2>1. /\ dpc = "step" /\ dpc' \in {"save", "bodyEnd"}
        /\ UNCHANGED <<mgrVars, step, tracker>>
    BY <1>2 DEF Train
  <2>2. \A m \in Models : ~ Registered(m)
    BY <2>1 DEF Registered
  <2>3. Entries'
    <3>1. \A m \in Models : \A i \in 1 .. Len(saved[m]) :
              /\ saved[m][i] <= step /\ saved[m][i] # step
              /\ tracker \in Steps => saved[m][i] <= tracker
      BY <1>a, <2>1, <2>2 DEF InBody, EntryOK
    <3>2. QED
      BY <2>1, <3>1 DEF EntryOK, mgrVars
  <2>4. QED
    BY <1>b, <2>1, <2>3 DEF InBody
<1>3. CASE EndBody
  <2>1. /\ dpc = "bodyEnd" /\ UNCHANGED <<mgrVars, tracker>>
        /\ dpc' = "finished" \/ (dpc' = "step" /\ step' = step + 1)
    BY <1>3 DEF EndBody, EnterLoop
  <2>2. CASE dpc' = "finished"
    BY <1>b, <2>1, <2>2 DEF InBody
  <2>3. CASE dpc' = "step" /\ step' = step + 1
    <3>1. \A m \in Models : \A i \in 1 .. Len(saved[m]) :
              /\ saved[m][i] <= step
              /\ tracker \in Steps => saved[m][i] <= tracker
      BY <1>a, <2>1 DEF InBody, EntryOK
    <3>2. step \in Nat
      BY DEF TypeOK
    <3>3. \A m \in Models : \A i \in 1 .. Len(saved[m]) :
              saved[m][i] <= step + 1 /\ saved[m][i] # step + 1
      BY <1>n, <3>1, <3>2
    <3>4. Entries'
      BY <2>1, <2>3, <3>1, <3>3 DEF EntryOK, mgrVars
    <3>5. QED
      BY <1>b, <2>1, <2>3, <3>4 DEF InBody
  <2>4. QED
    BY <2>1, <2>2, <2>3
<1>4. CASE StartSave
  <2>1. /\ dpc = "save" /\ dpc' = "saving" /\ UNCHANGED <<step, cur, tracker, saved>>
        /\ at' = [at EXCEPT ![SaveOrder[cur]] = [r \in Ranks |-> "enter"]]
    BY <1>4 DEF StartSave, CallSave
  <2>2. \A m \in Models : Ordered(m)' /\ Room(m)'
    <3>1. \A m \in Models : at'[m][Leader] = at[m][Leader] \/ at'[m][Leader] = "enter"
      BY <2>1, ManagerAssumption DEF TypeOK, ManagerTypeOK
    <3>2. QED
      BY <2>1, <3>1 DEF SavedInv, Ordered, Room
  <2>3. \A m \in Models : Registered(m) => Registered(m)'
    BY <2>1 DEF Registered
  <2>4. Entries'
    BY <1>a, <2>1, <2>3 DEF InBody, EntryOK
  <2>5. QED
    BY <2>1, <2>2, <2>4 DEF SavedInv
<1>5. CASE WorkersSave
  <2> DEFINE m == SaveOrder[cur]
  <2>1. /\ dpc = "saving" /\ UNCHANGED <<dpc, step, cur, tracker>>
        /\ step \in Steps /\ step \in Nat /\ m \in Models
    BY <1>5, CurrentModel DEF WorkersSave, driverVars, StepInLoop, InBody, TypeOK
  <2>2. SaveStep(m, step) /\ ManagerTypeOK
    BY <1>5, WorkersSaveStep DEF TypeOK
  <2>3. Room(m) /\ Ordered(m) /\ Keep[m] # 1
    BY <2>1 DEF SavedInv, NoKeepOne
  <2>4. at[m][Leader] = "register" => \A i \in 1 .. Len(saved[m]) : saved[m][i] < step
    <3>1. SUFFICES ASSUME at[m][Leader] = "register", NEW i \in 1 .. Len(saved[m])
                   PROVE  saved[m][i] < step
      OBVIOUS
    <3>2. ~ Registered(m)
      BY <2>1, <3>1, NotRegistered
    <3>3. saved[m][i] <= step /\ saved[m][i] # step
      BY <1>a, <2>1, <3>1, <3>2 DEF InBody, EntryOK
    <3>4. QED
      BY <1>n, <2>1, <3>1, <3>3
  <2>5. Room(m)' /\ Ordered(m)'
    BY <2>1, <2>2, <2>3, <2>4, SaveStepRoom, SaveStepOrdered
  <2>6. ASSUME NEW i \in 1 .. Len(saved'[m])
        PROVE  EntryOK(m, saved[m][i])'
    <3>1. CASE \E j \in 1 .. Len(saved[m]) : saved'[m][i] = saved[m][j]
      <4>1. PICK j \in 1 .. Len(saved[m]) : saved'[m][i] = saved[m][j]
        BY <3>1
      <4>2. EntryOK(m, saved[m][j])
        BY <1>a, <2>1 DEF InBody
      <4>3. Registered(m) => Registered(m)'
        BY <2>1, <2>2, SaveStepStaysRegistered DEF Registered
      <4>4. QED
        BY <2>1, <4>1, <4>2, <4>3 DEF EntryOK
    <3>2. CASE saved'[m][i] = step /\ at'[m][Leader] = "retire"
      BY <2>1, <3>2 DEF EntryOK, Registered
    <3>3. QED
      BY <2>1, <2>2, <2>3, <2>6, <3>1, <3>2, SaveStepEntries
  <2>7. ASSUME NEW n \in Models, n # m
        PROVE  /\ Ordered(n)' /\ Room(n)'
               /\ \A i \in 1 .. Len(saved'[n]) : EntryOK(n, saved[n][i])'
    <3>1. at'[n] = at[n] /\ saved'[n] = saved[n]
      BY <2>1, <2>2, <2>7, SaveStepFrame
    <3>2. Registered(n) => Registered(n)'
      BY <2>1, <2>7, <3>1 DEF Registered
    <3>3. Ordered(n)' /\ Room(n)'
      BY <3>1 DEF SavedInv, Ordered, Room
    <3>4. \A i \in 1 .. Len(saved[n]) : EntryOK(n, saved[n][i])
      BY <1>a, <2>1 DEF InBody
    <3>5. QED
      BY <2>1, <3>1, <3>2, <3>3, <3>4 DEF EntryOK
  <2>8. QED
    BY <2>1, <2>5, <2>6, <2>7 DEF SavedInv
<1>6. CASE EndSave
  <2>1. /\ dpc = "saving" /\ UNCHANGED <<step, tracker, saved>>
        /\ at' = [at EXCEPT ![SaveOrder[cur]] = [r \in Ranks |-> "idle"]]
        /\ \/ dpc' = "save" /\ cur' = cur + 1
           \/ dpc' = "data"
    BY <1>6 DEF EndSave
  <2>2. \A m \in Models : Ordered(m)' /\ Room(m)'
    <3>1. \A m \in Models : at'[m][Leader] = at[m][Leader] \/ at'[m][Leader] = "idle"
      BY <2>1, ManagerAssumption DEF TypeOK, ManagerTypeOK
    <3>2. QED
      BY <2>1, <3>1 DEF SavedInv, Ordered, Room
  <2>3. ASSUME NEW m \in Models, Registered(m)
        PROVE  Registered(m)'
    <3>1. cur \in Nat \ {0}
      BY DEF TypeOK
    <3>2. CASE dpc' = "data"
      BY <3>2 DEF Registered
    <3>3. CASE dpc' = "save" /\ cur' = cur + 1
      <4>1. PICK j \in 1 .. cur : SaveOrder[j] = m
        BY <2>1, <2>3, <3>1 DEF Registered
      <4>2. j \in 1 .. cur' - 1
        BY <3>1, <3>3, <4>1
      <4>3. QED
        BY <3>3, <4>1, <4>2 DEF Registered
    <3>4. QED
      BY <2>1, <3>2, <3>3
  <2>4. Entries'
    BY <1>a, <2>1, <2>3 DEF InBody, EntryOK
  <2>5. QED
    BY <2>1, <2>2, <2>4 DEF SavedInv
<1>7. CASE BeginSaveData
  <2>1. /\ dpc = "data" /\ dpc' = "writingData"
        /\ UNCHANGED <<mgrVars, step, tracker>>
    BY <1>7 DEF BeginSaveData
  <2>2. Entries'
    BY <1>a, <2>1 DEF InBody, EntryOK, Registered, mgrVars
  <2>3. QED
    BY <1>b, <2>1, <2>2 DEF InBody
<1>8. CASE EndSaveData
  <2>1. /\ dpc = "writingData" /\ UNCHANGED <<mgrVars, step, tracker>>
        /\ \/ dpc' = "openTracker"
           \/ dpc' = "bodyEnd" /\ tracker \notin Steps
    BY <1>8, ManagerAssumption, TrainerAssumption DEF EndSaveData, AsyncInv
  <2>2. Entries'
    BY <1>a, <2>1 DEF InBody, EntryOK, Registered, mgrVars
  <2>3. QED
    BY <1>b, <2>1, <2>2 DEF InBody
<1>9. CASE OpenTracker
  <2>1. /\ dpc = "openTracker" /\ dpc' = "writeTracker" /\ tracker' \notin Steps
        /\ UNCHANGED <<mgrVars, step>>
    BY <1>9, ManagerAssumption, TrainerAssumption DEF OpenTracker
  <2>2. Entries'
    BY <1>a, <2>1 DEF InBody, EntryOK, Registered, mgrVars
  <2>3. QED
    BY <1>b, <2>1, <2>2 DEF InBody
<1>10. CASE WriteTracker
  <2>1. /\ dpc = "writeTracker" /\ dpc' = "bodyEnd" /\ tracker' = step
        /\ UNCHANGED <<mgrVars, step>>
    BY <1>10 DEF WriteTracker
  <2>2. Entries'
    BY <1>a, <2>1 DEF InBody, EntryOK, Registered, mgrVars
  <2>3. QED
    BY <1>b, <2>1, <2>2 DEF InBody
<1>11. CASE Crash
  <2>1. /\ \A m \in Models : saved'[m] = << >> /\ at'[m][Leader] = "idle"
        /\ dpc' = "down"
    BY <1>11, ManagerAssumption DEF Crash, LoseWorkers
  <2>2. QED
    BY <2>1 DEF SavedInv, Ordered, Room, InBody
<1>12. QED
  BY <1>1, <1>2, <1>3, <1>4, <1>5, <1>6, <1>7, <1>8, <1>9, <1>10, <1>11
     DEF Next, Proceed

\* What the save in progress has written stays written.
LEMMA WrittenStep ==
    ASSUME IInv, Next
    PROVE  WrittenInv'
<1> USE DEF IInv, TypeInv
<1> DEFINE m == SaveOrder[cur]
<1>m. m \in Models /\ cur \in 1 .. Len(SaveOrder) /\ cur \in Nat
  BY CurrentModel DEF TypeOK
<1>1. CASE StartFromScratch \/ StartFromCheckpoint \/ StartFails \/ EndBody
  <2>1. dpc' \in {"step", "finished", "broken"}
    BY <1>1 DEF StartFromScratch, StartFromCheckpoint, StartFails, EndBody, EnterLoop
  <2>2. QED
    BY <2>1 DEF WrittenInv
<1>2. CASE Train
  <2>1. dpc = "step" /\ dpc' \in {"save", "bodyEnd"} /\ cur' = cur /\ cur = 1
    BY <1>2 DEF Train, CursorInv
  <2>2. QED
    BY <2>1 DEF WrittenInv
<1>3. CASE StartSave
  <2>1. /\ dpc = "save" /\ dpc' = "saving" /\ UNCHANGED <<step, cur, whole>>
        /\ \A r \in Ranks : at'[m][r] = "enter"
    BY <1>3, <1>m DEF StartSave, CallSave, TypeOK, ManagerTypeOK
  <2>2. Dumped(m, step)'
    BY <2>1 DEF Dumped
  <2>3. \A j \in 1 .. cur - 1 : ShardsWhole(SaveOrder[j], step)'
    BY <2>1 DEF WrittenInv, ShardsWhole
  <2>4. QED
    BY <2>1, <2>2, <2>3 DEF WrittenInv
<1>4. CASE WorkersSave
  <2>1. /\ dpc = "saving" /\ UNCHANGED <<dpc, step, cur, tracker>>
        /\ step \in Steps /\ SaveStep(m, step) /\ ManagerTypeOK
    BY <1>4, WorkersSaveStep DEF WorkersSave, driverVars, StepInLoop, InBody, TypeOK
  <2>2. step \notin doomed[m]
    BY <1>m DEF DoomedInv
  <2>3. Dumped(m, step)'
    <3>1. Dumped(m, step)
      BY <2>1 DEF WrittenInv
    <3>2. \A s \in Steps : SaveStep(m, s) /\ s \notin doomed[m] /\ Dumped(m, s)
                          => \A r \in Ranks :
                                at'[m][r] \in {"barrier2", "register", "retire", "saved"}
                                    => Shard[r] \in whole'[m][s]
      BY <1>m, <2>1, SaveStepDumped DEF Dumped
    <3>3. QED
      BY <2>1, <2>2, <3>1, <3>2 DEF Dumped
  <2>4. ASSUME NEW j \in 1 .. cur - 1
        PROVE  ShardsWhole(SaveOrder[j], step)'
    <3>1. SaveOrder[j] \in Models /\ SaveOrder[j] # m
      BY <1>m, <2>4, TrainerAssumption
    <3>2. whole'[SaveOrder[j]] = whole[SaveOrder[j]]
      BY <1>m, <2>1, <3>1, SaveStepFrame
    <3>3. ShardsWhole(SaveOrder[j], step)
      BY <2>1, <2>4 DEF WrittenInv
    <3>4. QED
      BY <2>1, <3>2, <3>3 DEF ShardsWhole
  <2>5. QED
    BY <2>1, <2>3, <2>4 DEF WrittenInv
<1>5. CASE EndSave
  <2>1. /\ dpc = "saving" /\ AllSaved(m) /\ UNCHANGED <<step, whole>>
        /\ \/ dpc' = "save" /\ cur' = cur + 1
           \/ dpc' = "data" /\ cur = Len(SaveOrder)
    BY <1>5, <1>m, TrainerAssumption DEF EndSave
  <2>2. \A j \in 1 .. cur : ShardsWhole(SaveOrder[j], step)
    <3>1. ShardsWhole(m, step)
      BY <2>1 DEF WrittenInv, Dumped, AllSaved, ShardsWhole
    <3>2. \A j \in 1 .. cur - 1 : ShardsWhole(SaveOrder[j], step)
      BY <2>1 DEF WrittenInv
    <3>3. QED
      BY <1>m, <3>1, <3>2
  <2>3. CASE dpc' = "save" /\ cur' = cur + 1
    BY <1>m, <2>1, <2>2, <2>3 DEF WrittenInv, ShardsWhole
  <2>4. CASE dpc' = "data" /\ cur = Len(SaveOrder)
    <3>1. \A n \in Models : ShardsWhole(n, step)
      BY <2>2, <2>4, TrainerAssumption
    <3>2. QED
      BY <2>1, <2>4, <3>1 DEF WrittenInv, ShardsWhole
  <2>5. QED
    BY <2>1, <2>3, <2>4
<1>6. CASE BeginSaveData
  <2>1. dpc = "data" /\ dpc' = "writingData" /\ UNCHANGED <<mgrVars, step>>
    BY <1>6 DEF BeginSaveData
  <2>2. QED
    BY <2>1 DEF WrittenInv, ShardsWhole, mgrVars
<1>7. CASE EndSaveData
  <2>1. /\ dpc = "writingData" /\ dpc' \in {"bodyEnd", "openTracker"}
        /\ UNCHANGED <<mgrVars, step>> /\ dataPt'[step] = step
    BY <1>7 DEF EndSaveData, DataInSync, TypeOK, StepInLoop, InBody
  <2>2. QED
    BY <2>1 DEF WrittenInv, ShardsWhole, mgrVars
<1>8. CASE OpenTracker
  <2>1. /\ dpc = "openTracker" /\ dpc' = "writeTracker"
        /\ UNCHANGED <<mgrVars, step, dataPt>>
    BY <1>8 DEF OpenTracker
  <2>2. QED
    BY <2>1 DEF WrittenInv, ShardsWhole, mgrVars
<1>9. CASE WriteTracker \/ Crash
  BY <1>9 DEF WriteTracker, Crash, WrittenInv
<1>10. QED
  BY <1>1, <1>2, <1>3, <1>4, <1>5, <1>6, <1>7, <1>8, <1>9 DEF Next, Proceed

\* The tracked checkpoint stays complete, and a new one is complete before it
\* is tracked.
LEMMA TrackedStep ==
    ASSUME IInv, Next
    PROVE  TrackedCheckpointComplete'
<1> USE DEF IInv, TypeInv
<1>1. ASSUME UNCHANGED <<tracker, whole, dataPt>>
      PROVE  TrackedCheckpointComplete'
  BY <1>1 DEF TrackedCheckpointComplete, Complete, ShardsWhole
<1>2. CASE StartFromScratch \/ StartFromCheckpoint \/ StartFails \/ Train \/ EndBody
  <2>1. UNCHANGED <<tracker, mgrVars, dataPt>>
    BY <1>2 DEF StartFromScratch, StartFromCheckpoint, StartFails, Train, EndBody
  <2>2. QED
    BY <1>1, <2>1 DEF mgrVars
<1>3. CASE StartSave \/ EndSave
  BY <1>1, <1>3 DEF StartSave, CallSave, EndSave
<1>4. CASE WorkersSave
  <2> DEFINE m == SaveOrder[cur]
  <2>1. /\ dpc = "saving" /\ UNCHANGED <<tracker, dataPt>>
        /\ step \in Steps /\ SaveStep(m, step) /\ ManagerTypeOK /\ m \in Models
    BY <1>4, CurrentModel, WorkersSaveStep
       DEF WorkersSave, StepInLoop, InBody, TypeOK
  <2>2. SUFFICES ASSUME tracker \in Steps, Complete(tracker)
                 PROVE  Complete(tracker)'
    BY <2>1 DEF TrackedCheckpointComplete
  <2>3. tracker # step /\ tracker \notin doomed[m]
    BY <2>1, <2>2, ManagerAssumption DEF TrackerInv, DoomedInv, InBody
  <2>4. whole'[m][tracker] = whole[m][tracker]
    BY <2>1, <2>2, <2>3, SaveStepKeepsFiles
  <2>5. \A n \in Models : n # m => whole'[n] = whole[n]
    BY <2>1, SaveStepFrame
  <2>6. \A n \in Models : whole'[n][tracker] = whole[n][tracker]
    BY <2>4, <2>5
  <2>7. QED
    BY <2>1, <2>2, <2>6 DEF Complete, ShardsWhole
<1>5. CASE BeginSaveData \/ EndSaveData
  <2>1. /\ dpc \in {"data", "writingData"} /\ UNCHANGED <<tracker, mgrVars>>
        /\ \E d : dataPt' = [dataPt EXCEPT ![step] = d]
    BY <1>5 DEF BeginSaveData, EndSaveData
  <2>2. tracker \in Steps => tracker # step
    BY <2>1, ManagerAssumption DEF TrackerInv, InBody
  <2>3. tracker \in Steps => dataPt'[tracker] = dataPt[tracker]
    BY <2>1, <2>2 DEF TypeOK
  <2>4. QED
    BY <2>1, <2>3 DEF TrackedCheckpointComplete, Complete, ShardsWhole, mgrVars
<1>6. CASE OpenTracker
  <2>1. tracker' \notin Steps
    BY <1>6, ManagerAssumption, TrainerAssumption DEF OpenTracker
  <2>2. QED
    BY <2>1 DEF TrackedCheckpointComplete
<1>7. CASE WriteTracker
  <2>1. tracker' = step /\ UNCHANGED <<mgrVars, dataPt>>
    BY <1>7 DEF WriteTracker
  <2>2. Complete(step)
    BY <1>7 DEF WriteTracker, WrittenInv, Complete
  <2>3. QED
    BY <2>1, <2>2 DEF TrackedCheckpointComplete, Complete, ShardsWhole, mgrVars
<1>8. CASE Crash
  BY <1>1, <1>8 DEF Crash, LoseWorkers, diskVars
<1>9. QED
  BY <1>2, <1>3, <1>4, <1>5, <1>6, <1>7, <1>8 DEF Next, Proceed

-----------------------------------------------------------------------------
(***************************************************************************)
(* The theorems.                                                           *)
(***************************************************************************)

\* The initial state satisfies the inductive invariant.
LEMMA InitInv == Init => IInv
<1> SUFFICES ASSUME Init PROVE IInv
  OBVIOUS
<1>1. TypeInv
  BY InitType
<1>2. tracker \notin Steps /\ tracker # EmptyTracker /\ dpc = "down" /\ cur = 1
  BY ManagerAssumption, TrainerAssumption DEF Init
<1>3. \A m \in Models : saved[m] = << >> /\ doomed[m] = {} /\ at[m][Leader] = "idle"
  BY ManagerAssumption DEF Init, ManagerInit
<1>4. SavedInv
  BY <1>2, <1>3 DEF SavedInv, Ordered, Room, InBody
<1>5. CursorInv /\ DoomedInv /\ AsyncInv
  BY <1>2, <1>3 DEF CursorInv, DoomedInv, AsyncInv, Init
<1>6. TrackerInv /\ WrittenInv /\ DataInSync /\ TrackedCheckpointComplete
  BY <1>2 DEF TrackerInv, WrittenInv, DataInSync, TrackedCheckpointComplete
<1>7. QED
  BY <1>1, <1>4, <1>5, <1>6 DEF IInv

\* Every step, and stuttering, preserves it.
LEMMA NextInv ==
    ASSUME IInv, NoKeepOne, Resume, [Next]_vars
    PROVE  IInv'
<1>1. TypeInv'
  BY NextType DEF IInv
<1>2. CASE Next
  BY <1>1, <1>2, CursorStep, SavedStep, DoomedStep, TrackerStep, WrittenStep,
     AsyncStep, DataInSyncStep, TrackedStep DEF IInv
<1>3. CASE UNCHANGED vars
  BY <1>1, <1>3
     DEF vars, mgrVars, driverVars, IInv, CursorInv, SavedInv, Ordered, Room, EntryOK,
         Registered, DoomedInv, TrackerInv, WrittenInv, Dumped, ShardsWhole, AsyncInv,
         DataInSync, TrackedCheckpointComplete, Complete, InBody
<1>4. QED
  BY <1>2, <1>3

\* The checkpoint that the tracker file names is always complete on disk, for
\* any number of ranks, models, steps and crashes and any save frequency, as
\* long as no manager keeps exactly one checkpoint and restarts resume.
THEOREM TrackedIsComplete ==
    ASSUME NoKeepOne, Resume
    PROVE  Spec => []TrackedCheckpointComplete
<1>1. IInv /\ [Next]_vars => IInv'
  BY NextInv
<1>2. IInv => TrackedCheckpointComplete
  BY DEF IInv
<1>3. QED
  BY <1>1, <1>2, InitInv, PTL DEF Spec

\* Under the same conditions the batch of step s is the s-th one, across all
\* crashes and resumes.
THEOREM StepsAndBatchesInSync ==
    ASSUME NoKeepOne, Resume
    PROVE  Spec => []DataInSync
<1>1. IInv /\ [Next]_vars => IInv'
  BY NextInv
<1>2. IInv => DataInSync
  BY DEF IInv
<1>3. QED
  BY <1>1, <1>2, InitInv, PTL DEF Spec
-----------------------------------------------------------------------------
(***************************************************************************)
(* Refinement: with synchronous saving, a job is a count of steps whose    *)
(* durable step is the one in the tracker file.  Restart is the start of   *)
(* the job, Lose opens the tracker file, Commit writes it; every other     *)
(* step of a save is a stutter.                                            *)
(***************************************************************************)

\* A step at which a save is due is tracked by the end of its body.
DueInv ==
    dpc = "bodyEnd" /\ (IsLastStep(step) \/ step % SaveFreq = 0) => tracker = step

\* Only a step without a save goes to the end of its body untracked.
LEMMA DueStep ==
    ASSUME DueInv, ~ AsyncSave, SaveFreq \in Nat \ {0}, [Next]_vars
    PROVE  DueInv'
<1> USE DEF DueInv, IsLastStep
<1>1. CASE StartFromScratch \/ StartFromCheckpoint \/ StartFails
  BY <1>1 DEF StartFromScratch, StartFromCheckpoint, StartFails, EnterLoop
<1>2. CASE Train
  BY <1>2 DEF Train, SaveDue
<1>3. CASE EndBody
  BY <1>3 DEF EndBody, EnterLoop
<1>4. CASE StartSave \/ WorkersSave \/ EndSave
  BY <1>4 DEF StartSave, WorkersSave, EndSave, driverVars
<1>5. CASE BeginSaveData \/ EndSaveData
  BY <1>5 DEF BeginSaveData, EndSaveData
<1>6. CASE OpenTracker \/ WriteTracker \/ Crash
  BY <1>6 DEF OpenTracker, WriteTracker, Crash
<1>7. CASE UNCHANGED vars
  BY <1>7 DEF vars, driverVars
<1>8. QED
  BY <1>1, <1>2, <1>3, <1>4, <1>5, <1>6, <1>7 DEF Next, Proceed

\* What the abstract specification sees of a state.
Mode(d) == IF d \in {"down", "finished", "broken"} THEN d ELSE "running"
DurableStep(t) == CASE t = EmptyTracker -> EmptyTracker [] t = NoTracker -> 0 [] OTHER -> t

LEMMA DurableStepOf ==
    /\ DurableStep(EmptyTracker) = EmptyTracker
    /\ DurableStep(NoTracker) = 0
    /\ \A s \in Steps : DurableStep(s) = s
BY ManagerAssumption, TrainerAssumption DEF DurableStep

\* The first state is the first state of the abstract specification.
LEMMA InitDurable == Init => Durably!Init
BY DurableStepOf DEF Init, Durably!Init, DurableStep

\* Steps of a save other than those on the tracker file are not seen.
LEMMA SaveUnseen ==
    ASSUME UNCHANGED <<tracker, step>>, dpc \in InBody, dpc' \in InBody
    PROVE  UNCHANGED Durably!vars
BY DEF InBody, Durably!vars

\* A job starts right after its durable step, and not if there is none.
LEMMA StartRefines ==
    ASSUME IInv, Resume, StartFromScratch \/ StartFromCheckpoint \/ StartFails
    PROVE  Durably!Next
<1> USE ManagerAssumption, TrainerAssumption, DurableStepOf DEF DurableStep
<1>t. tracker \in Steps \cup {NoTracker, EmptyTracker}
  BY DEF IInv, TypeInv, TypeOK
<1>1. CASE StartFromScratch
  <2>1. tracker = NoTracker
    BY <1>1, <1>t DEF StartFromScratch, FoundLatest, TrackerUnreadable, IInv, TrackerInv
  <2>2. Durably!Restart
    BY <1>1, <2>1 DEF StartFromScratch, EnterLoop, Durably!Restart
  <2>3. QED
    BY <2>2 DEF Durably!Next
<1>2. CASE StartFromCheckpoint
  <2>1. tracker \in Steps
    BY <1>2, <1>t DEF StartFromCheckpoint, FoundLatest, IInv, TypeInv, TypeOK
  <2>2. DurableStep(tracker) = tracker /\ tracker # EmptyTracker /\ tracker # NoTracker
    BY <2>1
  <2>3. Durably!Restart
    BY <1>2, <2>2 DEF StartFromCheckpoint, EnterLoop, Durably!Restart
  <2>4. QED
    BY <2>3 DEF Durably!Next
<1>3. CASE StartFails
  <2>1. tracker \in Steps => Loadable(tracker)
    BY DEF IInv, TrackedCheckpointComplete, Complete, Loadable
  <2>2. tracker = EmptyTracker
    BY <1>3, <1>t, <2>1 DEF StartFails, TrackerUnreadable, FoundLatest, IInv, TypeInv, TypeOK
  <2>3. Durably!Fail
    BY <1>3, <2>2 DEF StartFails, Durably!Fail
  <2>4. QED
    BY <2>3 DEF Durably!Next
<1>4. QED
  BY <1>1, <1>2, <1>3

\* The body of a step ends as the abstract step does: tracked if it was due.
LEMMA EndBodyRefines ==
    ASSUME IInv, DueInv, SaveFreq \in Nat \ {0}, EndBody
    PROVE  Durably!Next
<1> USE ManagerAssumption, TrainerAssumption, DurableStepOf
<1>1. dpc = "bodyEnd" /\ step \in Steps /\ step \in Nat /\ UNCHANGED tracker
  BY DEF EndBody, IInv, TypeInv, StepInLoop, InBody
<1>2. IsLastStep(step) \/ step % SaveFreq = 0 => tracker = step /\ DurableStep(tracker) = step
  BY <1>1 DEF DueInv
<1>3. CASE IsLastStep(step)
  <2>1. Durably!Finish
    BY <1>1, <1>2, <1>3 DEF EndBody, IsLastStep, Durably!Finish, DurableStep
  <2>2. QED
    BY <2>1 DEF Durably!Next
<1>4. CASE ~ IsLastStep(step)
  <2>1. Durably!Advance
    BY <1>1, <1>2, <1>4 DEF EndBody, EnterLoop, IsLastStep, Durably!Advance, DurableStep
  <2>2. QED
    BY <2>1 DEF Durably!Next
<1>5. QED
  BY <1>3, <1>4

\* Every step of the trainer is a step of the abstract job or is not seen.
LEMMA NextDurable ==
    ASSUME IInv, DueInv, Resume, ~ AsyncSave, SaveFreq \in Nat \ {0}, [Next]_vars
    PROVE  [Durably!Next]_(Durably!vars)
<1> USE ManagerAssumption, TrainerAssumption, DurableStepOf
<1>1. CASE StartFromScratch \/ StartFromCheckpoint \/ StartFails
  BY <1>1, StartRefines
<1>2. CASE EndBody
  BY <1>2, EndBodyRefines
<1>3. CASE Train
  <2>1. dpc = "step" /\ dpc' \in {"save", "bodyEnd"} /\ UNCHANGED <<tracker, step>>
    BY <1>3 DEF Train
  <2>2. QED
    BY <2>1, SaveUnseen DEF InBody
<1>4. CASE StartSave \/ WorkersSave \/ EndSave
  <2>1. /\ dpc \in {"save", "saving"} /\ dpc' \in {"save", "saving", "data"}
        /\ UNCHANGED <<tracker, step>>
    BY <1>4 DEF StartSave, WorkersSave, EndSave, driverVars
  <2>2. QED
    BY <2>1, SaveUnseen DEF InBody
<1>5. CASE BeginSaveData \/ EndSaveData
  <2>1. /\ dpc \in {"data", "writingData"} /\ dpc' \in {"writingData", "openTracker"}
        /\ UNCHANGED <<tracker, step>>
    BY <1>5 DEF BeginSaveData, EndSaveData
  <2>2. QED
    BY <2>1, SaveUnseen DEF InBody
<1>6. CASE OpenTracker
  <2>1. Durably!Lose
    BY <1>6 DEF OpenTracker, Durably!Lose, DurableStep
  <2>2. QED
    BY <2>1 DEF Durably!Next
<1>7. CASE WriteTracker
  <2>1. tracker' = step /\ step \in Steps
    BY <1>7 DEF WriteTracker, IInv, TypeInv, StepInLoop, InBody
  <2>2. Durably!Commit
    BY <1>7, <2>1 DEF WriteTracker, Durably!Commit, DurableStep
  <2>3. QED
    BY <2>2 DEF Durably!Next
<1>8. CASE Crash
  <2>1. Durably!Crash
    BY <1>8 DEF Crash, Durably!Crash
  <2>2. QED
    BY <2>1 DEF Durably!Next
<1>9. CASE UNCHANGED vars
  BY <1>9 DEF vars, driverVars, Durably!vars
<1>10. QED
  BY <1>1, <1>2, <1>3, <1>4, <1>5, <1>6, <1>7, <1>8, <1>9 DEF Next, Proceed

\* Whatever the ranks, models, steps and crashes, the files, barriers and
\* rotations of synchronous saves amount to one durable step that a job resumes
\* after, lost only between truncating and writing the tracker file.
THEOREM CheckpointsAreDurable ==
    ASSUME NoKeepOne, Resume, ~ AsyncSave, SaveFreq \in Nat \ {0}
    PROVE  Spec => ImplementsDurableProgress
<1>1. IInv /\ [Next]_vars => IInv'
  BY NextInv
<1>2. Init => DueInv
  BY DEF Init, DueInv
<1>3. DueInv /\ [Next]_vars => DueInv'
  BY DueStep
<1>4. IInv /\ DueInv /\ [Next]_vars => [Durably!Next]_(Durably!vars)
  BY NextDurable
<1>5. QED
  BY <1>1, <1>2, <1>3, <1>4, InitInv, InitDurable, PTL
     DEF Spec, ImplementsDurableProgress, Durably!Spec
=============================================================================
