------------------------- MODULE SftCheckpointProofs -------------------------
(***************************************************************************)
(* Theorems about SftCheckpoint, for every number of ranks and writers of  *)
(* data files, every save frequency and every number of crashes.           *)
(***************************************************************************)
EXTENDS SftCheckpoint, CheckpointManagerProofs

NoKeepOne == Keep[Sft] # 1

\* Inside the loop body that all ranks run in step.
InBody == {"step", "manager", "tail", "bodyEnd"}

-----------------------------------------------------------------------------
(***************************************************************************)
(* The inductive invariant.                                                *)
(***************************************************************************)

TypeInv == TypeOK /\ (phase \in InBody => step \in Steps)

\* Rank 0 has renamed the tracker file, if the step in progress is saved.
Renamed == phase = "bodyEnd" \/ (phase = "tail" /\ tail[Leader] = "barrier")

\* The manager has recorded the step in progress.
Registered ==
    \/ phase \in {"tail", "bodyEnd"}
    \/ phase = "manager" /\ at[Sft][Leader] \in {"retire", "saved"}

\* An entry e of previous_saved_paths is not younger than the step in progress,
\* is that step only once it is registered, and is not younger than the tracked
\* step once that can be known.
EntryOK(e) ==
    /\ e <= step
    /\ e = step => Registered
    /\ tracker \in Steps /\ (e # step \/ Renamed) => e <= tracker

SavedInv ==
    /\ Ordered(Sft) /\ Room(Sft)
    /\ phase = "down" => saved[Sft] = << >>
    /\ phase \in InBody => \A i \in 1 .. Len(saved[Sft]) : EntryOK(saved[Sft][i])

\* What is being removed is neither tracked nor the folder being written.
DoomedInv ==
    doomed[Sft] # {} =>
        /\ phase = "manager" /\ at[Sft][Leader] = "evict"
        /\ tracker \notin doomed[Sft]
        /\ step \notin doomed[Sft]

\* The tracked folder is there, with every shard and rank 0's data file; the
\* step in progress is younger until the tracker is renamed.
TrackerInv ==
    /\ tracker \in Steps =>
          /\ tracker \in folders
          /\ ShardsWhole(Sft, tracker)
          /\ DataFile[Leader] \in whole[Sft][tracker]
    /\ tracker \in Steps /\ phase \in InBody =>
          tracker < step \/ (tracker = step /\ Renamed)

\* What the manager has written of the step in progress.
ManagerInv ==
    phase = "manager" =>
        /\ Dumped(Sft, step)
        /\ at[Sft][Leader] \notin BeforeBarrier1 => step \in folders

\* What is there of the step in progress after the manager's save.
TailInv ==
    phase = "tail" =>
        /\ step \in folders /\ ShardsWhole(Sft, step)
        /\ tail[Leader] \in {"tracker", "barrier"} => DataFile[Leader] \in whole[Sft][step]
        /\ tail[Leader] = "barrier" => tracker = step
        /\ \A r \in writers :
              tail[r] \in {"tracker", "barrier"} => DataFile[r] \notin torn[Sft][step]

\* What a position p of rank r after n batches says, when t is tracked and the
\* job was killed c times: p is n, or the rank has started anew at a checkpoint.
Behind(r, p, n, t, c) ==
    p # n => /\ r # Leader /\ c > 0
             /\ \E s \in Steps : Tracked(s, t) /\ p = n - s

\* The positions of the dataloaders, and those in the data files.
PosInv ==
    /\ phase = "down" /\ crashes = 0 => tracker = NoTracker
    /\ phase \in InBody =>
          \A r \in writers :
              Behind(r, pos[r], IF phase = "step" THEN step - 1 ELSE step, tracker, crashes)
HeldInv ==
    \A r \in writers : \A s \in Steps :
        DataFile[r] \in whole[Sft][s] => Behind(r, held[r][s], s, tracker, crashes)

\* Only a step at which a save is due is saved and tracked.
OnlyDueInv ==
    /\ tracker \in Steps => SaveDue(tracker)
    /\ phase \in {"manager", "tail"} => SaveDue(step)

\* A step at which a save is due is durable by the end of its body.
DueInv ==
    phase = "bodyEnd" /\ SaveDue(step) =>
        /\ tracker = step
        /\ \A r \in writers : DataFile[r] \notin torn[Sft][step]

IInv ==
    /\ TypeInv
    /\ SavedInv /\ DoomedInv /\ TrackerInv /\ ManagerInv /\ TailInv /\ PosInv
    /\ HeldInv /\ OnlyDueInv /\ DueInv
-----------------------------------------------------------------------------
(***************************************************************************)
(* Type correctness.                                                       *)
(***************************************************************************)

\* There is one model, and the leader is among the writers.
LEMMA Constants ==
    /\ Sft \in Models /\ Leader \in Ranks /\ Steps \subseteq Nat \ {0}
    /\ NoTracker \notin Steps /\ NoTracker # 0
BY ManagerAssumption, SftAssumption

\* Rank 0 writes a data file, and no two writers write the same one.
LEMMA Writers ==
    ASSUME TypeOK
    PROVE  /\ Leader \in writers /\ writers \subseteq Ranks
           /\ \A r \in writers : DataFile[r] \in Files
           /\ \A r, q \in writers : r # q => DataFile[r] # DataFile[q]
BY SftAssumption DEF TypeOK

\* The steps of the manager are steps of a save, and change folders with it.
LEMMA ManagerStep ==
    ASSUME ManagerSaves, step \in Steps
    PROVE  /\ phase = "manager"
           /\ SaveStep(Sft, step)
           /\ UNCHANGED <<writers, phase, tail, step, pos, tracker, held, crashes>>
           /\ \/ UNCHANGED folders
              \/ folders' = folders \cup {step}
              \/ \E s \in doomed[Sft] : folders' = folders \ {s}
BY DEF ManagerSaves, SaveStep, RemoveDir

\* The loop is entered at a step of the loop, or not at all.
LEMMA EnterLoopInLoop ==
    ASSUME NEW s \in Nat \ {0}, EnterLoop(s)
    PROVE  /\ step' = s /\ step' \in Nat
           /\ phase' \in {"step", "finished"}
           /\ phase' = "step" => step' \in Steps
BY SftAssumption DEF EnterLoop

\* Outside of a save every rank counts as past it.
LEMMA TailType == NotInTail \in [Ranks -> TailPositions]
BY DEF NotInTail, TailPositions

\* The initial state is well typed.
LEMMA InitType == Init => TypeInv
<1> SUFFICES ASSUME Init PROVE TypeInv
  OBVIOUS
<1>1. ManagerTypeOK
  BY ManagerInitType DEF Init
<1>2. QED
  BY <1>1, Constants, SftAssumption, TailType DEF Init, TypeInv, TypeOK, InBody, Phases

\* Writing a file of the step in progress keeps the disk well typed.
LEMMA DataFileType ==
    ASSUME TypeOK, NEW r \in writers, step \in Steps, BeginSaveData(r) \/ EndSaveData(r)
    PROVE  ManagerTypeOK'
<1> USE Constants
<1>1. DataFile[r] \in Files
  BY Writers
<1>2. /\ whole[Sft][step] \ {DataFile[r]} \in SUBSET Files
      /\ whole[Sft][step] \cup {DataFile[r]} \in SUBSET Files
      /\ torn[Sft][step] \ {DataFile[r]} \in SUBSET Files
      /\ torn[Sft][step] \cup {DataFile[r]} \in SUBSET Files
  BY <1>1 DEF TypeOK, ManagerTypeOK
<1>3. /\ whole \in [Models -> [Steps -> SUBSET Files]]
      /\ torn \in [Models -> [Steps -> SUBSET Files]]
  BY DEF TypeOK, ManagerTypeOK
<1>4. CASE BeginSaveData(r)
  <2>1. /\ whole' = [whole EXCEPT ![Sft][step] = whole[Sft][step] \ {DataFile[r]}]
        /\ torn' = [torn EXCEPT ![Sft][step] = torn[Sft][step] \cup {DataFile[r]}]
        /\ UNCHANGED <<at, saved, doomed>>
    BY <1>4 DEF BeginSaveData
  <2>2. /\ whole' \in [Models -> [Steps -> SUBSET Files]]
        /\ torn' \in [Models -> [Steps -> SUBSET Files]]
    BY <1>2, <1>3, <2>1, DirectoryType
  <2>3. QED
    BY <2>1, <2>2 DEF TypeOK, ManagerTypeOK
<1>5. CASE EndSaveData(r)
  <2>1. /\ whole' = [whole EXCEPT ![Sft][step] = whole[Sft][step] \cup {DataFile[r]}]
        /\ torn' = [torn EXCEPT ![Sft][step] = torn[Sft][step] \ {DataFile[r]}]
        /\ UNCHANGED <<at, saved, doomed>>
    BY <1>5 DEF EndSaveData
  <2>2. /\ whole' \in [Models -> [Steps -> SUBSET Files]]
        /\ torn' \in [Models -> [Steps -> SUBSET Files]]
    BY <1>2, <1>3, <2>1, DirectoryType
  <2>3. QED
    BY <2>1, <2>2 DEF TypeOK, ManagerTypeOK
<1>6. QED
  BY <1>4, <1>5

\* Every step keeps the state well typed and the step in progress in the loop.
LEMMA NextType ==
    ASSUME TypeInv, [Next]_vars
    PROVE  TypeInv'
<1> USE Constants DEF TypeInv, TypeOK, InBody, Phases
<1>m. UNCHANGED mgrVars => ManagerTypeOK'
  BY DEF ManagerTypeOK, mgrVars
<1>1. CASE StartFromScratch
  <2>1. EnterLoop(1) /\ 1 \in Nat \ {0}
    BY <1>1 DEF StartFromScratch
  <2>2. QED
    BY <1>1, <1>m, <2>1, EnterLoopInLoop DEF StartFromScratch
<1>2. CASE StartFromCheckpoint
  <2>1. tracker \in Steps /\ tracker + 1 \in Nat \ {0} /\ tracker \in Nat
    BY <1>2 DEF StartFromCheckpoint, FoundLatest
  <2>2. pos' \in [writers -> Nat]
    BY <1>2, <2>1 DEF StartFromCheckpoint, ResumePos
  <2>3. QED
    BY <1>2, <1>m, <2>1, <2>2, EnterLoopInLoop DEF StartFromCheckpoint
<1>3. CASE StartFails
  BY <1>3, <1>m DEF StartFails
<1>4. CASE Train
  <2>1. ManagerTypeOK'
    BY <1>4, <1>m, CallSaveType DEF Train
  <2>2. pos' \in [writers -> Nat]
    BY <1>4 DEF Train
  <2>3. QED
    BY <1>4, <2>1, <2>2 DEF Train
<1>5. CASE EndBody
  <2>1. step + 1 \in Nat \ {0}
    OBVIOUS
  <2>2. QED
    BY <1>5, <1>m, <2>1, EnterLoopInLoop DEF EndBody
<1>6. CASE ManagerSaves
  <2>1. phase = "manager"
    BY <1>6 DEF ManagerSaves
  <2>2. step \in Steps
    BY <2>1
  <2>3. ManagerTypeOK'
    BY <1>6, <2>2, ManagerStep, SaveStepType
  <2>4. folders' \subseteq Steps
    BY <1>6, <2>2, ManagerStep
  <2>5. QED
    BY <1>6, <2>2, <2>3, <2>4, ManagerStep
<1>7. CASE EndManager
  <2>1. ManagerTypeOK'
    BY <1>7 DEF EndManager, ManagerTypeOK, Positions
  <2>2. tail' \in [Ranks -> TailPositions]
    BY <1>7 DEF EndManager, FirstTail, TailPositions
  <2>3. QED
    BY <1>7, <2>1, <2>2 DEF EndManager
<1>8. ASSUME NEW r \in writers, BeginSaveData(r) \/ EndSaveData(r)
      PROVE  TypeInv'
  <2>1. ManagerTypeOK'
    BY <1>8, DataFileType DEF BeginSaveData, EndSaveData
  <2>2. tail' \in [Ranks -> TailPositions]
    BY <1>8 DEF BeginSaveData, EndSaveData, TailPositions
  <2>3. held' \in [writers -> [Steps -> Nat]]
    <3>1. pos[r] \in Nat
      OBVIOUS
    <3>2. held' = held \/ held' = [held EXCEPT ![r][step] = pos[r]]
      BY <1>8 DEF BeginSaveData, EndSaveData
    <3>3. QED
      BY <3>1, <3>2
  <2>4. QED
    BY <1>8, <2>1, <2>2, <2>3 DEF BeginSaveData, EndSaveData
<1>9. CASE RenameTracker
  <2>1. tail' \in [Ranks -> TailPositions]
    BY <1>9 DEF RenameTracker, TailPositions
  <2>2. QED
    BY <1>9, <1>m, <2>1 DEF RenameTracker
<1>10. CASE PassLastBarrier
  BY <1>10, <1>m DEF PassLastBarrier
<1>11. CASE Crash
  <2>1. ManagerTypeOK'
    BY <1>11, LoseWorkersType DEF Crash
  <2>2. crashes' \in 0 .. MaxCrashes
    BY <1>11, SftAssumption DEF Crash
  <2>3. QED
    BY <1>11, <2>1, <2>2, TailType DEF Crash
<1>12. CASE UNCHANGED vars
  BY <1>12, <1>m DEF vars
<1>13. QED
  BY <1>1, <1>2, <1>3, <1>4, <1>5, <1>6, <1>7, <1>8, <1>9, <1>10, <1>11, <1>12
     DEF Next, Proceed

-----------------------------------------------------------------------------
(***************************************************************************)
(* Every step preserves the inductive invariant, when the manager does not *)
(* keep exactly one checkpoint.                                            *)
(***************************************************************************)

\* What a rank's write of its data file changes.
LEMMA DataFileEffect ==
    ASSUME TypeInv, NEW r \in writers, BeginSaveData(r) \/ EndSaveData(r)
    PROVE  /\ step \in Steps /\ phase = "tail"
           /\ UNCHANGED <<writers, at, saved, doomed, phase, step, pos, tracker, folders, crashes>>
           /\ \A t \in Steps : t # step => /\ whole'[Sft][t] = whole[Sft][t]
                                           /\ torn'[Sft][t] = torn[Sft][t]
           /\ \A f : f # DataFile[r] =>
                 /\ f \in whole'[Sft][step] <=> f \in whole[Sft][step]
                 /\ f \in torn'[Sft][step] <=> f \in torn[Sft][step]
           /\ \A q \in Ranks : q # r => tail'[q] = tail[q]
           /\ BeginSaveData(r) => /\ tail[r] = "data" /\ tail'[r] = "writing"
           /\ BeginSaveData(r) => UNCHANGED held /\ DataFile[r] \notin whole'[Sft][step]
           /\ EndSaveData(r) =>
                 /\ held' = [held EXCEPT ![r][step] = pos[r]]
                 /\ tail[r] = "writing"
                 /\ tail'[r] = IF r = Leader THEN "tracker" ELSE "barrier"
                 /\ DataFile[r] \in whole'[Sft][step]
                 /\ DataFile[r] \notin torn'[Sft][step]
<1> USE Constants
<1>1. step \in Steps /\ phase = "tail" /\ r \in Ranks
  BY Writers DEF BeginSaveData, EndSaveData, TypeInv, InBody
<1>2. /\ whole \in [Models -> [Steps -> SUBSET Files]]
      /\ torn \in [Models -> [Steps -> SUBSET Files]]
      /\ tail \in [Ranks -> TailPositions]
  BY DEF TypeInv, TypeOK, ManagerTypeOK
<1>3. CASE BeginSaveData(r)
  <2>1. ~ EndSaveData(r)
    BY <1>3 DEF BeginSaveData, EndSaveData
  <2>2. QED
    BY <1>1, <1>2, <1>3, <2>1 DEF BeginSaveData
<1>4. CASE EndSaveData(r)
  <2>1. ~ BeginSaveData(r)
    BY <1>4 DEF BeginSaveData, EndSaveData
  <2>2. QED
    BY <1>1, <1>2, <1>4, <2>1 DEF EndSaveData
<1>5. QED
  BY <1>3, <1>4

\* Writing data files does not touch a shard.
LEMMA DataFilesAreNoShards ==
    ASSUME TypeInv, NEW r \in writers, BeginSaveData(r) \/ EndSaveData(r), NEW t \in Steps
    PROVE  ShardsWhole(Sft, t)' <=> ShardsWhole(Sft, t)
<1>1. \A q \in Ranks : Shard[q] # DataFile[r]
  BY Writers, SftAssumption DEF TypeInv
<1>2. QED
  BY <1>1, DataFileEffect DEF ShardsWhole

\* A step of a save does not touch a torn file of another step that is not
\* being removed.
LEMMA SaveStepKeepsTorn ==
    ASSUME ManagerTypeOK, NEW s \in Steps, SaveStep(Sft, s),
           NEW t \in Steps, t # s, t \notin doomed[Sft]
    PROVE  torn'[Sft][t] = torn[Sft][t]
<1> USE Constants DEF ManagerTypeOK
<1>1. CASE EnsureCapacity(Sft) \/ Register(Sft, s) \/ EndRetire(Sft)
  BY <1>1 DEF EnsureCapacity, Register, EndRetire, diskVars
<1>2. ASSUME NEW d \in Steps, RemoveFile(Sft, d)
      PROVE  torn'[Sft][t] = torn[Sft][t]
  <2>1. d # t
    BY <1>2 DEF RemoveFile
  <2>2. PICK f : torn' = [torn EXCEPT ![Sft][d] = @ \ {f}]
    BY <1>2 DEF RemoveFile
  <2>3. QED
    BY <2>1, <2>2
<1>3. ASSUME NEW d \in Steps, RemoveDir(Sft, d)
      PROVE  torn'[Sft][t] = torn[Sft][t]
  BY <1>3 DEF RemoveDir
<1>4. ASSUME NEW r \in Ranks, MakeDir(Sft, r) \/ PassBarrier1(Sft, r) \/ PassBarrier2(Sft, r)
      PROVE  torn'[Sft][t] = torn[Sft][t]
  BY <1>4 DEF MakeDir, PassBarrier1, PassBarrier2
<1>5. ASSUME NEW r \in Ranks, BeginDump(Sft, r, s) \/ EndDump(Sft, r, s)
      PROVE  torn'[Sft][t] = torn[Sft][t]
  BY <1>5 DEF BeginDump, EndDump
<1>6. QED
  BY <1>1, <1>2, <1>3, <1>4, <1>5 DEF SaveStep

\* While the manager saves, the tracked step is an older one and not removed.
LEMMA TrackedIsOlder ==
    ASSUME IInv, phase = "manager", tracker \in Steps
    PROVE  tracker < step /\ tracker # step /\ tracker \notin doomed[Sft]
BY Constants DEF IInv, TypeInv, TypeOK, TrackerInv, DoomedInv, InBody, Renamed

\* The tracked folder keeps the shards and rank 0's data file.
LEMMA TrackerStep ==
    ASSUME IInv, Next
    PROVE  TrackerInv'
<1> USE Constants DEF IInv, TypeInv, TypeOK, InBody, TrackerInv, Renamed, ShardsWhole
<1>n. step \in Nat /\ (tracker \in Steps => tracker \in Nat)
  OBVIOUS
<1>1. CASE StartFromScratch \/ StartFromCheckpoint \/ StartFails
  <2>1. /\ phase = "down" /\ UNCHANGED <<mgrVars, tracker, folders>>
        /\ phase' \in {"step", "finished", "broken"}
    BY <1>1 DEF StartFromScratch, StartFromCheckpoint, StartFails, EnterLoop
  <2>2. phase' = "step" /\ tracker \in Steps => tracker < step'
    <3>1. CASE StartFromScratch
      BY <3>1 DEF StartFromScratch, FoundLatest
    <3>2. CASE StartFromCheckpoint
      <4>1. tracker \in Nat /\ step' = tracker + 1
        BY <3>2 DEF StartFromCheckpoint, FoundLatest, EnterLoop
      <4>2. QED
        BY <4>1
    <3>3. CASE StartFails
      BY <3>3 DEF StartFails
    <3>4. QED
      BY <1>1, <3>1, <3>2, <3>3
  <2>3. QED
    BY <2>1, <2>2 DEF mgrVars
<1>2. CASE Train
  <2>1. /\ phase = "step" /\ phase' \in {"manager", "bodyEnd"}
        /\ UNCHANGED <<whole, tracker, folders, step>>
    BY <1>2 DEF Train, CallSave, mgrVars
  <2>2. QED
    BY <2>1
<1>3. CASE EndBody
  <2>1. /\ phase = "bodyEnd" /\ UNCHANGED <<whole, tracker, folders>>
        /\ phase' = "finished" \/ (phase' = "step" /\ step' = step + 1)
    BY <1>3 DEF EndBody, EnterLoop, mgrVars
  <2>2. tracker \in Steps => tracker < step + 1
    BY <1>n, <2>1
  <2>3. QED
    BY <2>1, <2>2
<1>4. CASE ManagerSaves
  <2>1. phase = "manager" /\ step \in Steps
    BY <1>4 DEF ManagerSaves
  <2>2. /\ SaveStep(Sft, step) /\ UNCHANGED <<phase, step, tracker>>
        /\ \/ UNCHANGED folders
           \/ folders' = folders \cup {step}
           \/ \E s \in doomed[Sft] : folders' = folders \ {s}
    BY <1>4, <2>1, ManagerStep
  <2>3. SUFFICES ASSUME tracker \in Steps
                 PROVE  TrackerInv'
    BY <2>2
  <2>4. tracker < step /\ tracker # step /\ tracker \notin doomed[Sft]
    BY <2>1, <2>3, TrackedIsOlder
  <2>5. whole'[Sft][tracker] = whole[Sft][tracker]
    BY <2>1, <2>2, <2>3, <2>4, SaveStepKeepsFiles
  <2>6. tracker \in folders'
    BY <2>2, <2>3, <2>4
  <2>7. QED
    BY <2>1, <2>2, <2>3, <2>4, <2>5, <2>6
<1>5. CASE EndManager
  <2>1. /\ phase = "manager" /\ phase' = "tail"
        /\ UNCHANGED <<whole, tracker, folders, step>>
    BY <1>5 DEF EndManager
  <2>2. QED
    BY <2>1
<1>6. ASSUME NEW r \in writers, BeginSaveData(r) \/ EndSaveData(r)
      PROVE  TrackerInv'
  <2>1. SUFFICES ASSUME tracker \in Steps
                 PROVE  TrackerInv'
    BY <1>6, DataFileEffect
  <2>2. ShardsWhole(Sft, tracker)'
    BY <1>6, <2>1, DataFileEffect, DataFilesAreNoShards
  <2>3. DataFile[Leader] \in whole'[Sft][tracker]
    <3>1. CASE tracker # step
      BY <1>6, <2>1, <3>1, DataFileEffect
    <3>2. CASE tracker = step
      <4>1. tail[Leader] = "barrier"
        BY <1>6, <2>1, <3>2, <1>n, DataFileEffect
      <4>2. r # Leader
        BY <1>6, <4>1, DataFileEffect
      <4>3. DataFile[r] # DataFile[Leader]
        BY <4>2, Writers
      <4>4. QED
        BY <1>6, <2>1, <3>2, <4>3, DataFileEffect
    <3>3. QED
      BY <3>1, <3>2
  <2>4. Renamed => Renamed'
    BY <1>6, DataFileEffect
  <2>5. QED
    BY <1>6, <2>1, <2>2, <2>3, <2>4, DataFileEffect
<1>7. CASE RenameTracker
  <2>1. /\ phase = "tail" /\ tail[Leader] = "tracker" /\ tracker' = step
        /\ tail'[Leader] = "barrier" /\ UNCHANGED <<whole, phase, folders, step>>
    BY <1>7 DEF RenameTracker, mgrVars
  <2>2. step \in folders /\ ShardsWhole(Sft, step) /\ DataFile[Leader] \in whole[Sft][step]
    BY <2>1 DEF TailInv
  <2>3. QED
    BY <2>1, <2>2
<1>8. CASE PassLastBarrier
  <2>1. /\ phase = "tail" /\ phase' = "bodyEnd"
        /\ UNCHANGED <<whole, tracker, folders, step>>
    BY <1>8 DEF PassLastBarrier, mgrVars
  <2>2. QED
    BY <2>1
<1>9. CASE Crash
  BY <1>9 DEF Crash, LoseWorkers, diskVars
<1>10. QED
  BY <1>1, <1>2, <1>3, <1>4, <1>5, <1>6, <1>7, <1>8, <1>9 DEF Next, Proceed

\* Nothing that is tracked or being written is removed.
LEMMA DoomedStep ==
    ASSUME IInv, NoKeepOne, Next
    PROVE  DoomedInv'
<1> USE Constants DEF IInv, TypeInv, NoKeepOne
<1>1. CASE ManagerSaves
  <2>1. phase = "manager" /\ step \in Steps /\ step \in Nat /\ ManagerTypeOK
    BY <1>1 DEF ManagerSaves, InBody, TypeOK
  <2>2. SaveStep(Sft, step) /\ UNCHANGED <<phase, step, tracker>>
    BY <1>1, <2>1, ManagerStep
  <2>3. Room(Sft) /\ Ordered(Sft) /\ (doomed[Sft] # {} => at[Sft][Leader] = "evict")
    BY DEF SavedInv, DoomedInv
  <2>4. /\ doomed'[Sft] # {} => at'[Sft][Leader] = "evict"
        /\ \A d \in doomed'[Sft] :
              \/ d \in doomed[Sft]
              \/ /\ at[Sft][Leader] = "enter"
                 /\ \E j \in 1 .. Len(saved[Sft]) : d < saved[Sft][j]
    BY <2>1, <2>2, <2>3, SaveStepDoomed
  <2>5. doomed'[Sft] \subseteq Steps /\ saved[Sft] \in Seq(Steps)
    <3>1. ManagerTypeOK'
      BY <2>1, <2>2, SaveStepType
    <3>2. QED
      BY <2>1, <3>1 DEF ManagerTypeOK
  <2>6. ASSUME NEW d \in doomed'[Sft]
        PROVE  d # tracker /\ d # step
    <3>1. CASE d \in doomed[Sft]
      BY <3>1 DEF DoomedInv
    <3>2. CASE /\ at[Sft][Leader] = "enter"
               /\ \E j \in 1 .. Len(saved[Sft]) : d < saved[Sft][j]
      <4>1. PICK j \in 1 .. Len(saved[Sft]) : d < saved[Sft][j]
        BY <3>2
      <4>2. ~ Registered
        BY <2>1, <3>2 DEF Registered
      <4>3. /\ saved[Sft][j] <= step /\ saved[Sft][j] # step
            /\ tracker \in Steps => saved[Sft][j] <= tracker
        BY <2>1, <4>1, <4>2 DEF SavedInv, EntryOK, InBody
      <4>4. d \in Nat /\ saved[Sft][j] \in Nat
        <5>1. d \in Steps /\ saved[Sft][j] \in Steps
          BY <2>5, <2>6, <4>1
        <5>2. QED
          BY <5>1
      <4>5. d # step
        BY <2>1, <4>1, <4>3, <4>4
      <4>6. tracker \in Steps => d # tracker
        BY <4>1, <4>3, <4>4
      <4>7. QED
        BY <2>5, <4>5, <4>6
    <3>3. QED
      BY <2>4, <3>1, <3>2
  <2>7. QED
    BY <2>1, <2>2, <2>4, <2>6 DEF DoomedInv
<1>2. CASE EndManager
  <2>1. AllSaved(Sft) /\ UNCHANGED doomed
    BY <1>2 DEF EndManager
  <2>2. doomed[Sft] = {}
    BY <2>1 DEF DoomedInv, AllSaved
  <2>3. QED
    BY <2>1, <2>2 DEF DoomedInv
<1>3. CASE Crash
  BY <1>3 DEF Crash, LoseWorkers, DoomedInv
<1>4. CASE \/ StartFromScratch \/ StartFromCheckpoint \/ StartFails \/ Train \/ EndBody
           \/ RenameTracker \/ PassLastBarrier
           \/ \E r \in writers : BeginSaveData(r) \/ EndSaveData(r)
  <2>1. phase # "manager" /\ UNCHANGED doomed
    BY <1>4 DEF StartFromScratch, StartFromCheckpoint, StartFails, Train, EndBody,
                RenameTracker, PassLastBarrier, BeginSaveData, EndSaveData, CallSave, mgrVars
  <2>2. QED
    BY <2>1 DEF DoomedInv
<1>5. QED
  BY <1>1, <1>2, <1>3, <1>4 DEF Next, Proceed

\* The bookkeeping of rank 0 stays in line with the loop.
LEMMA SavedStep ==
    ASSUME IInv, NoKeepOne, Next
    PROVE  SavedInv'
<1> USE Constants DEF IInv, TypeInv, NoKeepOne
<1> DEFINE Entries == \A i \in 1 .. Len(saved[Sft]) : EntryOK(saved[Sft][i])
<1>a. phase \in InBody => Entries
  BY DEF SavedInv
<1>t. saved[Sft] \in Seq(Steps)
  BY DEF TypeOK, ManagerTypeOK
<1>n. \A i \in 1 .. Len(saved[Sft]) : saved[Sft][i] \in Nat
  <2>1. \A i \in 1 .. Len(saved[Sft]) : saved[Sft][i] \in Steps
    BY <1>t
  <2>2. QED
    BY <2>1
<1>b. ASSUME UNCHANGED mgrVars, phase' # "down", phase' \in InBody => Entries'
      PROVE  SavedInv'
  BY <1>b DEF SavedInv, Ordered, Room, mgrVars
<1>1. CASE StartFromScratch \/ StartFromCheckpoint \/ StartFails
  <2>1. UNCHANGED mgrVars /\ phase = "down" /\ phase' # "down"
    BY <1>1 DEF StartFromScratch, StartFromCheckpoint, StartFails, EnterLoop
  <2>2. Entries'
    BY <2>1 DEF mgrVars, SavedInv
  <2>3. QED
    BY <1>b, <2>1, <2>2
<1>2. CASE Train
  <2>1. /\ phase = "step" /\ phase' \in {"manager", "bodyEnd"}
        /\ UNCHANGED <<saved, step, tracker>>
        /\ UNCHANGED mgrVars \/ CallSave(Sft)
    BY <1>2 DEF Train, CallSave, mgrVars
  <2>2. ~ Registered /\ ~ Renamed
    BY <2>1 DEF Registered, Renamed
  <2>3. Entries'
    <3>1. \A i \in 1 .. Len(saved[Sft]) :
              /\ saved[Sft][i] <= step /\ saved[Sft][i] # step
              /\ tracker \in Steps => saved[Sft][i] <= tracker
      BY <1>a, <2>1, <2>2 DEF InBody, EntryOK
    <3>2. QED
      BY <2>1, <3>1 DEF EntryOK
  <2>4. CASE UNCHANGED mgrVars
    BY <1>b, <2>1, <2>3, <2>4
  <2>5. CASE CallSave(Sft)
    <3>1. at'[Sft][Leader] = "enter"
      BY <2>5 DEF CallSave, TypeOK, ManagerTypeOK
    <3>2. QED
      BY <2>1, <2>3, <3>1 DEF SavedInv, Ordered, Room
  <2>6. QED
    BY <2>1, <2>4, <2>5
<1>3. CASE EndBody
  <2>1. /\ phase = "bodyEnd" /\ UNCHANGED <<mgrVars, tracker>>
        /\ phase' = "finished" \/ (phase' = "step" /\ step' = step + 1)
    BY <1>3 DEF EndBody, EnterLoop
  <2>2. CASE phase' = "finished"
    BY <1>b, <2>1, <2>2 DEF InBody
  <2>3. CASE phase' = "step" /\ step' = step + 1
    <3>1. \A i \in 1 .. Len(saved[Sft]) :
              /\ saved[Sft][i] <= step
              /\ tracker \in Steps => saved[Sft][i] <= tracker
      BY <1>a, <2>1 DEF InBody, EntryOK, Renamed
    <3>2. step \in Nat
      BY DEF TypeOK
    <3>3. \A i \in 1 .. Len(saved[Sft]) :
              saved[Sft][i] <= step + 1 /\ saved[Sft][i] # step + 1
      BY <1>n, <3>1, <3>2
    <3>4. Entries'
      BY <2>1, <2>3, <3>1, <3>3 DEF EntryOK, mgrVars
    <3>5. QED
      BY <1>b, <2>1, <2>3, <3>4
  <2>4. QED
    BY <2>1, <2>2, <2>3
<1>4. CASE ManagerSaves
  <2>1. /\ phase = "manager" /\ step \in Steps /\ step \in Nat /\ ManagerTypeOK
    BY <1>4 DEF ManagerSaves, InBody, TypeOK
  <2>2. SaveStep(Sft, step) /\ UNCHANGED <<phase, step, tracker>>
    BY <1>4, <2>1, ManagerStep
  <2>3. Room(Sft) /\ Ordered(Sft) /\ Keep[Sft] # 1
    BY DEF SavedInv
  <2>4. at[Sft][Leader] = "register" => \A i \in 1 .. Len(saved[Sft]) : saved[Sft][i] < step
    <3>1. SUFFICES ASSUME at[Sft][Leader] = "register", NEW i \in 1 .. Len(saved[Sft])
                   PROVE  saved[Sft][i] < step
      OBVIOUS
    <3>2. ~ Registered
      BY <2>1, <3>1 DEF Registered
    <3>3. saved[Sft][i] <= step /\ saved[Sft][i] # step
      BY <1>a, <2>1, <3>1, <3>2 DEF InBody, EntryOK
    <3>4. QED
      BY <1>n, <2>1, <3>1, <3>3
  <2>5. Room(Sft)' /\ Ordered(Sft)'
    BY <2>1, <2>2, <2>3, <2>4, SaveStepRoom, SaveStepOrdered
  <2>6. ASSUME NEW i \in 1 .. Len(saved'[Sft])
        PROVE  EntryOK(saved[Sft][i])'
    <3>1. CASE \E j \in 1 .. Len(saved[Sft]) : saved'[Sft][i] = saved[Sft][j]
      <4>1. PICK j \in 1 .. Len(saved[Sft]) : saved'[Sft][i] = saved[Sft][j]
        BY <3>1
      <4>2. EntryOK(saved[Sft][j])
        BY <1>a, <2>1 DEF InBody
      <4>3. (Registered => Registered') /\ ~ Renamed'
        BY <2>1, <2>2, SaveStepStaysRegistered DEF Registered, Renamed
      <4>4. QED
        BY <2>2, <4>1, <4>2, <4>3 DEF EntryOK
    <3>2. CASE saved'[Sft][i] = step /\ at'[Sft][Leader] = "retire"
      BY <2>1, <2>2, <3>2 DEF EntryOK, Registered, Renamed
    <3>3. QED
      BY <2>1, <2>2, <2>3, <2>6, <3>1, <3>2, SaveStepEntries
  <2>7. QED
    BY <2>1, <2>2, <2>5, <2>6 DEF SavedInv
<1>5. CASE EndManager
  <2>1. /\ phase = "manager" /\ phase' = "tail" /\ UNCHANGED <<step, tracker, saved>>
        /\ at' = [at EXCEPT ![Sft] = [r \in Ranks |-> "idle"]]
        /\ tail'[Leader] = "data"
    BY <1>5, Writers DEF EndManager, FirstTail
  <2>2. at'[Sft][Leader] = "idle"
    BY <2>1 DEF TypeOK, ManagerTypeOK
  <2>3. Registered' /\ ~ Renamed'
    BY <2>1 DEF Registered, Renamed
  <2>4. Entries'
    BY <1>a, <2>1, <2>3 DEF InBody, EntryOK
  <2>5. QED
    BY <2>1, <2>2, <2>4 DEF SavedInv, Ordered, Room
<1>6. ASSUME NEW r \in writers, BeginSaveData(r) \/ EndSaveData(r)
      PROVE  SavedInv'
  <2>1. Registered' /\ phase = "tail" /\ UNCHANGED <<at, saved, phase, step, tracker>>
    BY <1>6, DataFileEffect DEF Registered
  <2>2. Renamed' => Renamed
    BY <1>6, DataFileEffect DEF Renamed
  <2>3. Entries'
    BY <1>a, <2>1, <2>2 DEF InBody, EntryOK
  <2>4. QED
    BY <2>1, <2>3 DEF SavedInv, Ordered, Room
<1>7. CASE RenameTracker
  <2>1. /\ phase = "tail" /\ tracker' = step /\ UNCHANGED <<mgrVars, phase, step>>
    BY <1>7 DEF RenameTracker
  <2>2. Registered'
    BY <2>1 DEF Registered
  <2>3. Entries'
    BY <1>a, <2>1, <2>2 DEF InBody, EntryOK, mgrVars
  <2>4. QED
    BY <1>b, <2>1, <2>3
<1>8. CASE PassLastBarrier
  <2>1. /\ phase = "tail" /\ phase' = "bodyEnd" /\ UNCHANGED <<mgrVars, tracker, step>>
        /\ tail[Leader] = "barrier"
    BY <1>8 DEF PassLastBarrier, NotInTail
  <2>2. Registered' /\ Renamed
    BY <2>1 DEF Registered, Renamed
  <2>3. Entries'
    BY <1>a, <2>1, <2>2 DEF InBody, EntryOK, mgrVars
  <2>4. QED
    BY <1>b, <2>1, <2>3
<1>9. CASE Crash
  <2>1. saved'[Sft] = << >> /\ at'[Sft][Leader] = "idle" /\ phase' = "down"
    BY <1>9 DEF Crash, LoseWorkers
  <2>2. QED
    BY <2>1 DEF SavedInv, Ordered, Room, InBody
<1>10. QED
  BY <1>1, <1>2, <1>3, <1>4, <1>5, <1>6, <1>7, <1>8, <1>9 DEF Next, Proceed

\* What the manager has written stays written.
LEMMA ManagerInvStep ==
    ASSUME IInv, Next
    PROVE  ManagerInv'
<1> USE Constants DEF IInv, TypeInv
<1>1. CASE Train
  <2>1. CASE phase' = "manager"
    <3>1. CallSave(Sft)
      BY <1>1, <2>1 DEF Train
    <3>2. \A r \in Ranks : at'[Sft][r] = "enter"
      BY <3>1 DEF CallSave, TypeOK, ManagerTypeOK
    <3>3. QED
      BY <3>2 DEF ManagerInv, Dumped, BeforeBarrier1
  <2>2. QED
    BY <2>1 DEF ManagerInv
<1>2. CASE ManagerSaves
  <2>1. phase = "manager" /\ step \in Steps /\ ManagerTypeOK
    BY <1>2 DEF ManagerSaves, InBody, TypeOK
  <2>2. /\ SaveStep(Sft, step) /\ UNCHANGED <<phase, step, tracker>>
        /\ \/ UNCHANGED folders
           \/ folders' = folders \cup {step}
           \/ \E s \in doomed[Sft] : folders' = folders \ {s}
    BY <1>2, <2>1, ManagerStep
  <2>3. step \notin doomed[Sft] /\ Dumped(Sft, step)
    BY <2>1 DEF DoomedInv, ManagerInv
  <2>4. Dumped(Sft, step)'
    <3>1. \A s \in Steps : SaveStep(Sft, s) /\ s \notin doomed[Sft] /\ Dumped(Sft, s)
                          => \A r \in Ranks :
                                at'[Sft][r] \in {"barrier2", "register", "retire", "saved"}
                                    => Shard[r] \in whole'[Sft][s]
      BY <2>1, SaveStepDumped DEF Dumped
    <3>2. QED
      BY <2>1, <2>2, <2>3, <3>1 DEF Dumped
  <2>5. CASE at[Sft][Leader] \notin BeforeBarrier1
    BY <2>1, <2>2, <2>3, <2>4, <2>5 DEF ManagerInv
  <2>6. CASE at[Sft][Leader] \in BeforeBarrier1 /\ at'[Sft][Leader] \notin BeforeBarrier1
    <3>1. MakeDir(Sft, Leader) /\ folders' = folders \cup {step}
      <4>1. ~ \E s \in Steps : RemoveFile(Sft, s) \/ RemoveDir(Sft, s)
        BY <2>6 DEF RemoveFile, RemoveDir
      <4>2. ~ EnsureCapacity(Sft) /\ ~ Register(Sft, step) /\ ~ EndRetire(Sft)
        BY <2>1, <2>6 DEF EnsureCapacity, Register, EndRetire, MoveTo, BeforeBarrier1,
                          ManagerTypeOK
      <4>3. ASSUME NEW r \in Ranks
            PROVE  ~ (\/ PassBarrier1(Sft, r) \/ BeginDump(Sft, r, step)
                      \/ EndDump(Sft, r, step) \/ PassBarrier2(Sft, r))
        BY <2>1, <2>6 DEF PassBarrier1, BeginDump, EndDump, PassBarrier2, MoveTo,
                          BeforeBarrier1, ManagerTypeOK
      <4>4. PICK r \in Ranks : MakeDir(Sft, r) /\ folders' = folders \cup {step}
        BY <1>2, <4>1, <4>2, <4>3 DEF ManagerSaves
      <4>5. r # Leader => at'[Sft][Leader] = at[Sft][Leader]
        BY <2>1, <4>4 DEF MakeDir, MoveTo, ManagerTypeOK
      <4>6. QED
        BY <2>6, <4>4, <4>5
    <3>2. QED
      BY <2>1, <2>2, <2>4, <3>1 DEF ManagerInv
  <2>7. QED
    BY <2>2, <2>4, <2>5, <2>6 DEF ManagerInv
<1>3. CASE Crash
  BY <1>3 DEF Crash, ManagerInv
<1>4. CASE \/ StartFromScratch \/ StartFromCheckpoint \/ StartFails \/ EndBody \/ EndManager
           \/ RenameTracker \/ PassLastBarrier
           \/ \E r \in writers : BeginSaveData(r) \/ EndSaveData(r)
  <2>1. phase' # "manager"
    BY <1>4 DEF StartFromScratch, StartFromCheckpoint, StartFails, EndBody, EnterLoop,
                EndManager, RenameTracker, PassLastBarrier, BeginSaveData, EndSaveData
  <2>2. QED
    BY <2>1 DEF ManagerInv
<1>5. QED
  BY <1>1, <1>2, <1>3, <1>4 DEF Next, Proceed

\* What there is of the step in progress in the end of the save.
LEMMA TailStep ==
    ASSUME IInv, Next
    PROVE  TailInv'
<1> USE Constants DEF IInv, TypeInv
<1>1. CASE EndManager
  <2>1. /\ phase = "manager" /\ AllSaved(Sft) /\ UNCHANGED <<whole, writers, step, folders>>
        /\ \A r \in Ranks : tail'[r] = FirstTail(r)
    BY <1>1 DEF EndManager
  <2>2. step \in folders /\ ShardsWhole(Sft, step)
    BY <2>1 DEF ManagerInv, AllSaved, BeforeBarrier1, Dumped, ShardsWhole
  <2>3. \A r \in writers : tail'[r] = "data"
    BY <2>1, Writers DEF FirstTail
  <2>4. QED
    BY <2>1, <2>2, <2>3, Writers DEF TailInv, ShardsWhole
<1>2. ASSUME NEW r \in writers, BeginSaveData(r) \/ EndSaveData(r)
      PROVE  TailInv'
  <2>1. /\ step \in Steps /\ phase = "tail"
        /\ UNCHANGED <<writers, phase, step, tracker, folders>>
    BY <1>2, DataFileEffect
  <2>2. step \in folders /\ ShardsWhole(Sft, step)'
    BY <1>2, <2>1, DataFileEffect, DataFilesAreNoShards DEF TailInv
  <2>3. ASSUME NEW q \in writers, tail'[q] \in {"tracker", "barrier"}
        PROVE  DataFile[q] \notin torn'[Sft][step]
    <3>1. CASE q = r
      BY <1>2, <2>3, <3>1, DataFileEffect
    <3>2. CASE q # r
      <4>1. tail[q] \in {"tracker", "barrier"} /\ DataFile[q] # DataFile[r]
        BY <1>2, <2>3, <3>2, DataFileEffect, Writers
      <4>2. QED
        BY <1>2, <2>1, <4>1, DataFileEffect DEF TailInv
    <3>3. QED
      BY <3>1, <3>2
  <2>4. tail'[Leader] \in {"tracker", "barrier"} => DataFile[Leader] \in whole'[Sft][step]
    <3>1. CASE r = Leader
      BY <1>2, <3>1, DataFileEffect
    <3>2. CASE r # Leader
      <4>1. tail'[Leader] = tail[Leader] /\ DataFile[Leader] # DataFile[r]
        BY <1>2, <3>2, DataFileEffect, Writers
      <4>2. QED
        BY <1>2, <2>1, <4>1, DataFileEffect DEF TailInv
    <3>3. QED
      BY <3>1, <3>2
  <2>5. tail'[Leader] = "barrier" => tail[Leader] = "barrier"
    BY <1>2, DataFileEffect
  <2>6. QED
    BY <2>1, <2>2, <2>3, <2>4, <2>5 DEF TailInv
<1>3. CASE RenameTracker
  <2>1. /\ phase = "tail" /\ tail[Leader] = "tracker" /\ tracker' = step
        /\ tail' = [tail EXCEPT ![Leader] = "barrier"]
        /\ UNCHANGED <<whole, torn, writers, phase, folders, step>>
    BY <1>3 DEF RenameTracker, mgrVars
  <2>2. \A r \in writers : tail'[r] \in {"tracker", "barrier"} =>
                               tail[r] \in {"tracker", "barrier"}
    BY <2>1, Writers DEF TypeOK
  <2>3. QED
    BY <2>1, <2>2 DEF TailInv, ShardsWhole
<1>4. CASE ManagerSaves
  BY <1>4 DEF ManagerSaves, TailInv
<1>5. CASE Crash
  BY <1>5 DEF Crash, TailInv
<1>6. CASE \/ StartFromScratch \/ StartFromCheckpoint \/ StartFails \/ Train \/ EndBody
           \/ PassLastBarrier
  <2>1. phase' # "tail"
    BY <1>6 DEF StartFromScratch, StartFromCheckpoint, StartFails, Train, EndBody, EnterLoop,
                PassLastBarrier
  <2>2. QED
    BY <2>1 DEF TailInv
<1>7. QED
  BY <1>1, <1>2, <1>3, <1>4, <1>5, <1>6 DEF Next, Proceed

\* A position stays explained when more is tracked and more crashes have been.
LEMMA BehindKept ==
    ASSUME NEW r, NEW p, NEW n, NEW t \in Steps \cup {NoTracker}, NEW u,
           NEW c \in Nat, NEW d \in Nat, Behind(r, p, n, t, c), c <= d,
           t \in Steps => u \in Steps /\ t <= u
    PROVE  Behind(r, p, n, u, d)
<1> SUFFICES ASSUME p # n PROVE r # Leader /\ d > 0 /\ \E s \in Steps : Tracked(s, u) /\ p = n - s
  BY DEF Behind
<1>1. r # Leader /\ c > 0 /\ d > 0
  BY DEF Behind
<1>2. PICK s \in Steps : Tracked(s, t) /\ p = n - s
  BY DEF Behind
<1>3. t \in Steps /\ u \in Steps /\ s <= t /\ t <= u /\ SaveDue(s)
  BY <1>2 DEF Tracked
<1>4. s <= u /\ u # NoTracker
  BY <1>3, Constants
<1>5. QED
  BY <1>1, <1>2, <1>3, <1>4 DEF Tracked

\* One batch more on both sides.
LEMMA BehindNext ==
    ASSUME NEW r, NEW p \in Int, NEW n \in Int, NEW t, NEW c, Behind(r, p, n, t, c)
    PROVE  Behind(r, p + 1, n + 1, t, c)
<1> SUFFICES ASSUME p + 1 # n + 1
             PROVE  r # Leader /\ c > 0 /\ \E s \in Steps : Tracked(s, t) /\ p + 1 = (n + 1) - s
  BY DEF Behind
<1>1. p # n
  OBVIOUS
<1>2. PICK s \in Steps : Tracked(s, t) /\ p = n - s
  BY <1>1 DEF Behind
<1>3. s \in Int /\ p + 1 = (n + 1) - s
  BY <1>2, Constants
<1>4. QED
  BY <1>1, <1>2, <1>3 DEF Behind

\* No crash is undone, and the tracked step never goes back.
LEMMA TrackedGrows ==
    ASSUME IInv, Next
    PROVE  /\ tracker' \in Steps \cup {NoTracker} /\ crashes \in Nat /\ crashes' \in Nat
           /\ crashes <= crashes'
           /\ tracker \in Steps => tracker' \in Steps /\ tracker <= tracker'
<1> USE Constants DEF IInv, TypeInv
<1>1. crashes \in Nat /\ tracker \in Steps \cup {NoTracker} /\ (tracker \in Steps => tracker \in Nat)
  BY SftAssumption DEF TypeOK
<1>2. CASE RenameTracker
  <2>1. phase = "tail" /\ tail[Leader] = "tracker" /\ tracker' = step /\ UNCHANGED crashes
    BY <1>2 DEF RenameTracker
  <2>2. step \in Steps /\ step \in Nat
    BY <2>1 DEF InBody
  <2>3. tracker \in Steps => tracker < step
    BY <2>1 DEF TrackerInv, Renamed, InBody
  <2>4. QED
    BY <1>1, <2>1, <2>2, <2>3
<1>3. CASE Crash
  BY <1>1, <1>3 DEF Crash
<1>4. CASE \/ StartFromScratch \/ StartFromCheckpoint \/ StartFails \/ Train \/ EndBody
           \/ ManagerSaves \/ EndManager \/ PassLastBarrier
           \/ \E r \in writers : BeginSaveData(r) \/ EndSaveData(r)
  <2>1. UNCHANGED <<tracker, crashes>>
    BY <1>4 DEF StartFromScratch, StartFromCheckpoint, StartFails, Train, EndBody,
                ManagerSaves, EndManager, PassLastBarrier, BeginSaveData, EndSaveData
  <2>2. QED
    BY <1>1, <2>1
<1>5. QED
  BY <1>2, <1>3, <1>4 DEF Next, Proceed

\* Only a step that is due is saved, and so tracked.
LEMMA OnlyDueStep ==
    ASSUME IInv, Next
    PROVE  OnlyDueInv'
<1> USE DEF IInv, TypeInv
<1>1. CASE Train
  <2>1. /\ UNCHANGED <<step, tracker>> /\ phase' \in {"manager", "bodyEnd"}
        /\ phase' = "manager" => SaveDue(step)
    BY <1>1 DEF Train
  <2>2. SaveDue(step') = SaveDue(step) /\ SaveDue(tracker') = SaveDue(tracker)
    BY <2>1
  <2>3. QED
    BY <2>1, <2>2 DEF OnlyDueInv, SaveDue, IsLastStep
<1>2. CASE RenameTracker
  <2>1. /\ UNCHANGED <<step, phase>> /\ phase = "tail" /\ tracker' = step
    BY <1>2 DEF RenameTracker
  <2>2. SaveDue(step') = SaveDue(step) /\ SaveDue(tracker') = SaveDue(step) /\ SaveDue(step)
    BY <2>1 DEF OnlyDueInv
  <2>3. QED
    BY <2>1, <2>2 DEF OnlyDueInv, SaveDue, IsLastStep
<1>3. CASE ManagerSaves \/ EndManager \/ \E r \in writers : BeginSaveData(r) \/ EndSaveData(r)
  <2>1. /\ UNCHANGED <<step, tracker>> /\ phase \in {"manager", "tail"}
    BY <1>3 DEF ManagerSaves, EndManager, BeginSaveData, EndSaveData
  <2>2. SaveDue(step') = SaveDue(step) /\ SaveDue(tracker') = SaveDue(tracker) /\ SaveDue(step)
    BY <2>1 DEF OnlyDueInv
  <2>3. QED
    BY <2>1, <2>2 DEF OnlyDueInv, SaveDue, IsLastStep
<1>4. CASE \/ StartFromScratch \/ StartFromCheckpoint \/ StartFails \/ EndBody
           \/ PassLastBarrier \/ Crash
  <2>1. /\ UNCHANGED tracker /\ phase' \notin {"manager", "tail"}
    BY <1>4 DEF StartFromScratch, StartFromCheckpoint, StartFails, EndBody, PassLastBarrier,
                Crash, EnterLoop
  <2>2. SaveDue(tracker') = SaveDue(tracker)
    BY <2>1
  <2>3. QED
    BY <2>1, <2>2 DEF OnlyDueInv, SaveDue, IsLastStep
<1>5. QED
  BY <1>1, <1>2, <1>3, <1>4 DEF Next, Proceed

\* The manager writes shards only.
LEMMA SaveStepWritesShards ==
    ASSUME ManagerTypeOK, NEW s \in Steps, SaveStep(Sft, s), NEW t \in Steps,
           NEW f, \A q \in Ranks : f # Shard[q], f \in whole'[Sft][t]
    PROVE  f \in whole[Sft][t]
<1> USE Constants DEF ManagerTypeOK
<1>1. CASE EnsureCapacity(Sft) \/ Register(Sft, s) \/ EndRetire(Sft)
  BY <1>1 DEF EnsureCapacity, Register, EndRetire, diskVars
<1>2. ASSUME NEW d \in Steps, RemoveFile(Sft, d)
      PROVE  f \in whole[Sft][t]
  <2>1. PICK g : whole' = [whole EXCEPT ![Sft][d] = @ \ {g}]
    BY <1>2 DEF RemoveFile
  <2>2. QED
    BY <2>1
<1>3. ASSUME NEW d \in Steps, RemoveDir(Sft, d)
      PROVE  f \in whole[Sft][t]
  BY <1>3 DEF RemoveDir
<1>4. ASSUME NEW r \in Ranks, MakeDir(Sft, r) \/ PassBarrier1(Sft, r) \/ PassBarrier2(Sft, r)
      PROVE  f \in whole[Sft][t]
  BY <1>4 DEF MakeDir, PassBarrier1, PassBarrier2
<1>5. ASSUME NEW r \in Ranks, BeginDump(Sft, r, s)
      PROVE  f \in whole[Sft][t]
  BY <1>5 DEF BeginDump
<1>6. ASSUME NEW r \in Ranks, EndDump(Sft, r, s)
      PROVE  f \in whole[Sft][t]
  <2>1. whole' = [whole EXCEPT ![Sft][s] = whole[Sft][s] \cup {Shard[r]}] /\ f # Shard[r]
    BY <1>6 DEF EndDump
  <2>2. QED
    BY <2>1
<1>7. QED
  BY <1>1, <1>2, <1>3, <1>4, <1>5, <1>6 DEF SaveStep

\* A data file that was not written in this step is as it was.
LEMMA HeldKept ==
    ASSUME IInv, Next, UNCHANGED <<writers, held>>,
           \A r \in writers : \A s \in Steps :
                DataFile[r] \in whole'[Sft][s] => DataFile[r] \in whole[Sft][s]
    PROVE  HeldInv'
<1> SUFFICES ASSUME NEW r \in writers, NEW s \in Steps, DataFile[r] \in whole'[Sft][s]
             PROVE  Behind(r, held[r][s], s, tracker', crashes')
  BY DEF HeldInv
<1>1. Behind(r, held[r][s], s, tracker, crashes)
  BY DEF IInv, HeldInv
<1>2. tracker \in Steps \cup {NoTracker}
  BY DEF IInv, TypeInv, TypeOK
<1>3. QED
  BY <1>1, <1>2, TrackedGrows, BehindKept

\* A data file holds the position its rank had when it was written.
LEMMA HeldStep ==
    ASSUME IInv, Next
    PROVE  HeldInv'
<1> USE Constants DEF IInv, TypeInv
<1>1. CASE ManagerSaves
  <2>1. ManagerTypeOK /\ step \in Steps /\ SaveStep(Sft, step) /\ UNCHANGED <<writers, held>>
    BY <1>1, ManagerStep DEF ManagerSaves, TypeOK, InBody
  <2>2. \A r \in writers : \A q \in Ranks : DataFile[r] # Shard[q]
    BY Writers, SftAssumption
  <2>3. QED
    BY <1>1, <2>1, <2>2, SaveStepWritesShards, HeldKept
<1>2. ASSUME NEW r \in writers, BeginSaveData(r)
      PROVE  HeldInv'
  <2>1. \A q \in writers : \A s \in Steps :
            DataFile[q] \in whole'[Sft][s] => DataFile[q] \in whole[Sft][s]
    BY <1>2, DataFileEffect, Writers
  <2>2. UNCHANGED <<writers, held>>
    BY <1>2, DataFileEffect
  <2>3. QED
    BY <2>1, <2>2, HeldKept
<1>3. ASSUME NEW r \in writers, EndSaveData(r)
      PROVE  HeldInv'
  <2>1. /\ phase = "tail" /\ step \in Steps /\ UNCHANGED <<writers, tracker, crashes>>
        /\ held' = [held EXCEPT ![r][step] = pos[r]]
        /\ held \in [writers -> [Steps -> Nat]]
    BY <1>3, DataFileEffect DEF TypeOK
  <2>2. SUFFICES ASSUME NEW q \in writers, NEW s \in Steps, DataFile[q] \in whole'[Sft][s]
                 PROVE  Behind(q, held'[q][s], s, tracker, crashes)
    BY <2>1 DEF HeldInv
  <2>3. CASE q = r /\ s = step
    <3>1. held'[q][s] = pos[r]
      BY <2>1, <2>3
    <3>2. Behind(r, pos[r], step, tracker, crashes)
      BY <2>1 DEF PosInv, InBody
    <3>3. QED
      BY <2>3, <3>1, <3>2
  <2>4. CASE ~ (q = r /\ s = step)
    <3>1. held'[q][s] = held[q][s]
      BY <2>1, <2>4
    <3>2. DataFile[q] \in whole[Sft][s]
      BY <1>3, <2>2, <2>4, DataFileEffect, Writers
    <3>3. QED
      BY <3>1, <3>2 DEF HeldInv
  <2>5. QED
    BY <2>3, <2>4
<1>4. CASE \/ StartFromScratch \/ StartFromCheckpoint \/ StartFails \/ Train \/ EndBody
           \/ EndManager \/ RenameTracker \/ PassLastBarrier \/ Crash
  <2>1. UNCHANGED <<writers, held, whole>>
    BY <1>4 DEF StartFromScratch, StartFromCheckpoint, StartFails, Train, EndBody, EndManager,
                RenameTracker, PassLastBarrier, Crash, LoseWorkers, CallSave, mgrVars, diskVars
  <2>2. QED
    BY <2>1, HeldKept
<1>5. QED
  BY <1>1, <1>2, <1>3, <1>4 DEF Next, Proceed

\* Batches and steps stay in step, but for data files lost to a crash.
LEMMA PosStep ==
    ASSUME IInv, Next
    PROVE  PosInv'
<1> USE Constants DEF IInv, TypeInv
<1>p. pos \in [writers -> Nat] /\ step \in Nat
  BY DEF TypeOK
<1>1. CASE StartFromScratch
  <2>1. /\ pos' = [r \in writers |-> 0] /\ step' = 1 /\ phase' \in {"step", "finished"}
        /\ UNCHANGED <<writers, crashes>>
    BY <1>1 DEF StartFromScratch, EnterLoop
  <2>2. QED
    BY <2>1 DEF PosInv, InBody, Behind
<1>2. CASE StartFromCheckpoint
  <2>1. /\ phase = "down" /\ tracker \in Steps /\ tracker \in Nat
        /\ phase' \in {"step", "finished"} /\ step' = tracker + 1
        /\ pos' = [r \in writers |-> ResumePos(r, tracker)]
        /\ UNCHANGED <<writers, tracker, crashes>> /\ crashes \in Nat
    BY <1>2, SftAssumption DEF StartFromCheckpoint, FoundLatest, EnterLoop, TypeOK
  <2>2. crashes > 0 /\ DataFile[Leader] \in whole[Sft][tracker] /\ SaveDue(tracker)
    BY <2>1 DEF PosInv, TrackerInv, OnlyDueInv
  <2>3. ASSUME NEW r \in writers
        PROVE  Behind(r, pos'[r], tracker, tracker, crashes)
    <3>1. CASE DataFile[r] \in whole[Sft][tracker]
      BY <2>1, <3>1 DEF ResumePos, HeldInv
    <3>2. CASE DataFile[r] \notin whole[Sft][tracker]
      <4>1. r # Leader /\ pos'[r] = 0
        BY <2>1, <2>2, <3>2 DEF ResumePos
      <4>2. Tracked(tracker, tracker) /\ 0 = tracker - tracker
        BY <2>1, <2>2 DEF Tracked
      <4>3. QED
        BY <2>1, <2>2, <4>1, <4>2 DEF Behind
    <3>3. QED
      BY <3>1, <3>2
  <2>4. step' - 1 = tracker
    BY <2>1
  <2>5. QED
    BY <2>1, <2>2, <2>3, <2>4 DEF PosInv, InBody
<1>3. CASE StartFails
  BY <1>3 DEF StartFails, PosInv, InBody
<1>4. CASE Train
  <2>1. /\ phase = "step" /\ phase' \in {"manager", "bodyEnd"}
        /\ \A r \in writers : pos'[r] = pos[r] + 1
        /\ UNCHANGED <<writers, step, tracker, crashes>>
    BY <1>4 DEF Train
  <2>2. ASSUME NEW r \in writers PROVE Behind(r, pos'[r], step, tracker, crashes)
    <3>1. Behind(r, pos[r], step - 1, tracker, crashes) /\ pos[r] \in Int /\ step - 1 \in Int
      BY <1>p, <2>1 DEF PosInv, InBody
    <3>2. Behind(r, pos[r] + 1, (step - 1) + 1, tracker, crashes)
      BY <3>1, BehindNext
    <3>3. (step - 1) + 1 = step
      BY <1>p
    <3>4. QED
      BY <2>1, <3>2, <3>3
  <2>3. QED
    BY <2>1, <2>2 DEF PosInv, InBody
<1>5. CASE EndBody
  <2>1. /\ phase = "bodyEnd" /\ UNCHANGED <<pos, writers, tracker, crashes>>
        /\ phase' = "finished" \/ (phase' \in {"step", "finished"} /\ step' = step + 1)
    BY <1>5 DEF EndBody, EnterLoop
  <2>2. \A r \in writers : Behind(r, pos[r], step, tracker, crashes)
    BY <2>1 DEF PosInv, InBody
  <2>3. phase' = "step" => step' - 1 = step
    BY <1>p, <2>1
  <2>4. QED
    BY <2>1, <2>2, <2>3 DEF PosInv, InBody
<1>6. CASE Crash
  <2>1. crashes' # 0 /\ phase' = "down"
    BY <1>6, SftAssumption DEF Crash, TypeOK
  <2>2. QED
    BY <2>1 DEF PosInv, InBody
<1>7. CASE \/ ManagerSaves \/ EndManager \/ RenameTracker \/ PassLastBarrier
           \/ \E r \in writers : BeginSaveData(r) \/ EndSaveData(r)
  <2>1. /\ phase \in InBody /\ phase # "step" /\ phase' \in InBody /\ phase' # "step"
        /\ UNCHANGED <<pos, writers, step, crashes>>
    BY <1>7 DEF ManagerSaves, EndManager, RenameTracker, PassLastBarrier, BeginSaveData,
                EndSaveData, InBody
  <2>2. ASSUME NEW r \in writers PROVE Behind(r, pos[r], step, tracker', crashes')
    <3>1. Behind(r, pos[r], step, tracker, crashes)
      BY <2>1 DEF PosInv
    <3>2. tracker \in Steps \cup {NoTracker}
      BY DEF TypeOK
    <3>3. QED
      BY <3>1, <3>2, TrackedGrows, BehindKept
  <2>3. QED
    BY <2>1, <2>2 DEF PosInv, InBody
<1>8. QED
  BY <1>1, <1>2, <1>3, <1>4, <1>5, <1>6, <1>7 DEF Next, Proceed

\* A step at which a save is due goes to the end of its body through the last
\* barrier, behind the tracker and every data file.
LEMMA DueStep ==
    ASSUME IInv, Next
    PROVE  DueInv'
<1> USE DEF IInv, TypeInv
<1>1. CASE Train
  <2>1. phase' = "bodyEnd" => ~ SaveDue(step)
    BY <1>1 DEF Train
  <2>2. step' = step
    BY <1>1 DEF Train
  <2>3. SaveDue(step') = SaveDue(step)
    BY <2>2
  <2>4. QED
    BY <2>1, <2>3 DEF DueInv, SaveDue, IsLastStep
<1>2. CASE PassLastBarrier
  <2>1. /\ phase = "tail" /\ \A r \in Ranks : tail[r] = "barrier"
        /\ UNCHANGED <<tracker, torn, writers, step>>
    BY <1>2 DEF PassLastBarrier, NotInTail, mgrVars
  <2>2. /\ tracker = step
        /\ \A r \in writers : DataFile[r] \notin torn[Sft][step]
    BY <2>1, Constants, Writers DEF TailInv
  <2>3. QED
    BY <2>1, <2>2 DEF DueInv
<1>3. CASE \/ StartFromScratch \/ StartFromCheckpoint \/ StartFails \/ EndBody
           \/ ManagerSaves \/ EndManager \/ RenameTracker \/ Crash
           \/ \E r \in writers : BeginSaveData(r) \/ EndSaveData(r)
  <2>1. phase' # "bodyEnd"
    BY <1>3 DEF StartFromScratch, StartFromCheckpoint, StartFails, EndBody, EnterLoop,
                ManagerSaves, EndManager, RenameTracker, Crash, BeginSaveData, EndSaveData
  <2>2. QED
    BY <2>1 DEF DueInv
<1>4. QED
  BY <1>1, <1>2, <1>3 DEF Next, Proceed

\* The initial state satisfies the inductive invariant.
LEMMA InitInv == Init => IInv
<1> SUFFICES ASSUME Init PROVE IInv
  OBVIOUS
<1> USE Constants
<1>1. TypeInv
  BY InitType
<1>2. tracker \notin Steps /\ tracker = NoTracker /\ phase = "down"
  BY DEF Init
<1>3. saved[Sft] = << >> /\ doomed[Sft] = {} /\ at[Sft][Leader] = "idle"
  BY DEF Init, ManagerInit
<1>4. SavedInv
  BY <1>2, <1>3 DEF SavedInv, Ordered, Room, InBody
<1>5. DoomedInv /\ TrackerInv /\ ManagerInv /\ TailInv /\ PosInv /\ OnlyDueInv /\ DueInv
  BY <1>2, <1>3
     DEF DoomedInv, TrackerInv, ManagerInv, TailInv, PosInv, OnlyDueInv, DueInv, InBody
<1>6. HeldInv
  BY DEF Init, ManagerInit, HeldInv
<1>7. QED
  BY <1>1, <1>4, <1>5, <1>6 DEF IInv

\* Every step, and stuttering, preserves it.
LEMMA NextInv ==
    ASSUME IInv, NoKeepOne, [Next]_vars
    PROVE  IInv'
<1>1. TypeInv'
  BY NextType DEF IInv
<1>2. CASE Next
  BY <1>1, <1>2, SavedStep, DoomedStep, TrackerStep, ManagerInvStep, TailStep, PosStep,
     HeldStep, OnlyDueStep, DueStep DEF IInv
<1>3. CASE UNCHANGED vars
  BY <1>1, <1>3
     DEF vars, mgrVars, IInv, SavedInv, Ordered, Room, EntryOK, Registered, Renamed,
         DoomedInv, TrackerInv, ManagerInv, Dumped, TailInv, ShardsWhole, PosInv, HeldInv,
         OnlyDueInv, DueInv, InBody
<1>4. QED
  BY <1>2, <1>3

-----------------------------------------------------------------------------
(***************************************************************************)
(* The theorems.                                                           *)
(***************************************************************************)

\* However many ranks, writers and crashes there are, the batch trained in step
\* s is the s-th one on the rank that writes the tracker; another rank has lost
\* at most the batches up to one tracked checkpoint, to a crash, and never has
\* any other position, as long as the manager does not keep exactly one
\* checkpoint.
THEOREM DataLostAtMostOnce ==
    ASSUME NoKeepOne
    PROVE  Spec => []DataLostOnce
<1>1. IInv /\ [Next]_vars => IInv'
  BY NextInv
<1>2. IInv => DataLostOnce
  <2>1. SUFFICES ASSUME IInv, phase = "step"
                 PROVE  /\ pos[Leader] = step - 1
                        /\ \A r \in writers : pos[r] # step - 1 =>
                              /\ crashes > 0
                              /\ \E s \in Steps : Tracked(s, tracker) /\ pos[r] = step - 1 - s
    BY DEF DataLostOnce
  <2>2. \A r \in writers : Behind(r, pos[r], step - 1, tracker, crashes)
    BY <2>1 DEF IInv, PosInv, InBody
  <2>3. Leader \in writers
    BY <2>1, Writers DEF IInv, TypeInv
  <2>4. QED
    BY <2>2, <2>3 DEF Behind
<1>3. QED
  BY <1>1, <1>2, InitInv, PTL DEF Spec

\* A job that is not killed, or that has one writer of data files, trains every
\* batch in its step on every rank.
THEOREM BatchesInSync ==
    ASSUME NoKeepOne
    PROVE  Spec => [](crashes = 0 \/ writers = {Leader} => DataInSync)
<1>1. IInv /\ [Next]_vars => IInv'
  BY NextInv
<1>2. IInv => (crashes = 0 \/ writers = {Leader} => DataInSync)
  <2>1. SUFFICES ASSUME IInv, phase = "step", crashes = 0 \/ writers = {Leader},
                        NEW r \in writers
                 PROVE  pos[r] = step - 1
    BY DEF DataInSync
  <2>2. Behind(r, pos[r], step - 1, tracker, crashes)
    BY <2>1 DEF IInv, PosInv, InBody
  <2>3. QED
    BY <2>1, <2>2 DEF Behind
<1>3. QED
  BY <1>1, <1>2, InitInv, PTL DEF Spec

-----------------------------------------------------------------------------
(***************************************************************************)
(* Refinement.  Restart is the start of the job, Commit the rename of the  *)
(* tracker, or the end of the last data file behind it; a data file that   *)
(* is being written then is a Lose.  Every other step of a save is a       *)
(* stutter.                                                                *)
(***************************************************************************)

\* The durable step is the tracked one, unless a data file of it is torn.
LEMMA DurableIs ==
    ASSUME IInv
    PROVE  /\ tracker = NoTracker => Durable = 0
           /\ tracker \in Steps =>
                 /\ Durable = IF \A r \in writers : DataFile[r] \notin torn[Sft][tracker]
                              THEN tracker ELSE NoTracker
                 /\ Durable # NoTracker <=> Loadable(tracker)
BY Constants DEF IInv, TrackerInv, Durable, Loadable

\* A step of the loop that leaves the step and what is durable is not seen.
LEMMA Unseen ==
    ASSUME UNCHANGED step, Durable' = Durable, phase \in InBody, phase' \in InBody
    PROVE  UNCHANGED Durably!vars
BY DEF InBody, Durably!vars

\* What is durable is kept by every step that keeps the tracked folder.
LEMMA DurableKept ==
    ASSUME IInv, IInv', UNCHANGED <<tracker, writers>>,
           tracker \in Steps => torn'[Sft][tracker] = torn[Sft][tracker]
    PROVE  Durable' = Durable
<1>1. tracker \in Steps \/ tracker = NoTracker
  BY DEF IInv, TypeInv, TypeOK
<1>2. CASE tracker = NoTracker
  BY <1>2 DEF Durable
<1>3. CASE tracker \in Steps
  <2>1. /\ tracker \in folders /\ ShardsWhole(Sft, tracker)
        /\ tracker \in folders' /\ ShardsWhole(Sft, tracker)'
    BY <1>3 DEF IInv, TrackerInv, ShardsWhole
  <2>2. Loadable(tracker)' = Loadable(tracker)
    BY <1>3, <2>1 DEF Loadable
  <2>3. QED
    BY <2>1, <2>2 DEF Durable
<1>4. QED
  BY <1>1, <1>2, <1>3

\* The first state is the first state of the abstract specification.
LEMMA InitDurable == Init => Durably!Init
BY DEF Init, Durably!Init, Durable

\* A job starts right after its durable step, and not if there is none.
LEMMA StartRefines ==
    ASSUME IInv, IInv', StartFromScratch \/ StartFromCheckpoint \/ StartFails
    PROVE  Durably!Next
<1> USE Constants
<1>t. tracker \in Steps \/ tracker = NoTracker
  BY DEF IInv, TypeInv, TypeOK
<1>1. UNCHANGED <<mgrVars, tracker, writers>> /\ UNCHANGED torn
  BY DEF StartFromScratch, StartFromCheckpoint, StartFails, mgrVars
<1>2. Durable' = Durable
  BY <1>1, DurableKept
<1>3. CASE StartFromScratch
  <2>1. Durable = 0
    BY <1>t, <1>3, DurableIs DEF StartFromScratch, FoundLatest, IInv, TrackerInv
  <2>2. Durably!Restart
    BY <1>2, <1>3, <2>1 DEF StartFromScratch, EnterLoop, Durably!Restart
  <2>3. QED
    BY <2>2 DEF Durably!Next
<1>4. CASE StartFromCheckpoint
  <2>1. tracker \in Steps
    BY <1>4 DEF StartFromCheckpoint, FoundLatest, IInv, TypeInv, TypeOK
  <2>2. Durable = tracker /\ tracker # NoTracker
    BY <1>4, <2>1, DurableIs DEF StartFromCheckpoint
  <2>3. Durably!Restart
    BY <1>2, <1>4, <2>2 DEF StartFromCheckpoint, EnterLoop, Durably!Restart
  <2>4. QED
    BY <2>3 DEF Durably!Next
<1>5. CASE StartFails
  <2>1. tracker \in Steps /\ Durable = NoTracker
    BY <1>5, DurableIs DEF StartFails, FoundLatest, IInv, TypeInv, TypeOK
  <2>2. Durably!Fail
    BY <1>2, <1>5, <2>1 DEF StartFails, Durably!Fail
  <2>3. QED
    BY <2>2 DEF Durably!Next
<1>6. QED
  BY <1>3, <1>4, <1>5

\* The body of a step ends as the abstract step does: durable if it was due.
LEMMA EndBodyRefines ==
    ASSUME IInv, IInv', EndBody
    PROVE  Durably!Next
<1> USE Constants, SftAssumption
<1>1. /\ phase = "bodyEnd" /\ step \in Steps /\ step \in Nat
      /\ UNCHANGED <<tracker, writers, torn>>
  BY DEF EndBody, IInv, TypeInv, InBody, mgrVars
<1>2. Durable' = Durable
  BY <1>1, DurableKept
<1>3. SaveDue(step) => Durable = step
  BY <1>1, DurableIs DEF IInv, DueInv
<1>4. CASE IsLastStep(step)
  <2>1. Durably!Finish
    BY <1>1, <1>2, <1>3, <1>4 DEF EndBody, IsLastStep, SaveDue, Durably!Finish
  <2>2. QED
    BY <2>1 DEF Durably!Next
<1>5. CASE ~ IsLastStep(step)
  <2>1. Durably!Advance
    BY <1>1, <1>2, <1>3, <1>5 DEF EndBody, EnterLoop, IsLastStep, SaveDue, Durably!Advance
  <2>2. QED
    BY <2>1 DEF Durably!Next
<1>6. QED
  BY <1>4, <1>5

\* Becoming durable is a commit, ceasing to be so the loss behind the tracker.
LEMMA TailRefines ==
    ASSUME IInv, IInv', UNCHANGED <<step, phase>>, phase = "tail",
           tracker' = step
    PROVE  [Durably!Next]_(Durably!vars)
<1>1. step \in Steps
  BY DEF IInv, TypeInv, InBody
<1>2. Durable' \in {step, NoTracker}
  BY <1>1, Constants DEF Durable
<1>3. CASE Durable' = step
  <2>1. Durably!Commit
    BY <1>3 DEF Durably!Commit
  <2>2. QED
    BY <2>1 DEF Durably!Next
<1>4. CASE Durable' = NoTracker
  <2>1. Durably!Lose
    BY <1>4 DEF Durably!Lose
  <2>2. QED
    BY <2>1 DEF Durably!Next
<1>5. QED
  BY <1>2, <1>3, <1>4

\* Every step of the trainer is a step of the abstract job or is not seen.
LEMMA NextDurable ==
    ASSUME IInv, IInv', [Next]_vars
    PROVE  [Durably!Next]_(Durably!vars)
<1> USE Constants DEF InBody
<1>1. CASE StartFromScratch \/ StartFromCheckpoint \/ StartFails
  BY <1>1, StartRefines
<1>2. CASE EndBody
  BY <1>2, EndBodyRefines
<1>3. CASE Train \/ EndManager \/ PassLastBarrier
  <2>1. /\ phase \in InBody /\ phase' \in InBody
        /\ UNCHANGED <<step, tracker, writers, torn>>
    BY <1>3 DEF Train, CallSave, EndManager, PassLastBarrier, mgrVars
  <2>2. QED
    BY <2>1, DurableKept, Unseen
<1>4. CASE ManagerSaves
  <2>1. phase = "manager" /\ step \in Steps /\ ManagerTypeOK
    BY <1>4 DEF ManagerSaves, IInv, TypeInv, TypeOK
  <2>2. SaveStep(Sft, step) /\ UNCHANGED <<writers, phase, step, tracker>>
    BY <1>4, <2>1, ManagerStep
  <2>3. tracker \in Steps => torn'[Sft][tracker] = torn[Sft][tracker]
    BY <2>1, <2>2, TrackedIsOlder, SaveStepKeepsTorn
  <2>4. QED
    BY <2>1, <2>2, <2>3, DurableKept, Unseen
<1>5. ASSUME NEW r \in writers, BeginSaveData(r) \/ EndSaveData(r)
      PROVE  [Durably!Next]_(Durably!vars)
  <2>1. phase = "tail" /\ UNCHANGED <<writers, phase, step, tracker>>
    BY <1>5, DataFileEffect DEF IInv
  <2>2. CASE tracker = step
    BY <2>1, <2>2, TailRefines
  <2>3. CASE tracker # step
    <3>1. tracker \in Steps => torn'[Sft][tracker] = torn[Sft][tracker]
      BY <1>5, <2>3, DataFileEffect DEF IInv
    <3>2. QED
      BY <2>1, <3>1, DurableKept, Unseen
  <2>4. QED
    BY <2>2, <2>3
<1>6. CASE RenameTracker
  BY <1>6, TailRefines DEF RenameTracker
<1>7. CASE Crash
  <2>1. /\ phase \in InBody /\ phase' = "down" /\ step' = 0
        /\ UNCHANGED <<tracker, writers, torn>>
    BY <1>7 DEF Crash, LoseWorkers, diskVars, IInv, TypeInv, TypeOK, Phases
  <2>2. Durable' = Durable
    BY <2>1, DurableKept
  <2>3. Durably!Crash
    BY <2>1, <2>2 DEF Durably!Crash
  <2>4. QED
    BY <2>3 DEF Durably!Next
<1>8. CASE UNCHANGED vars
  <2>1. UNCHANGED <<step, phase, tracker, writers, torn>>
    BY <1>8 DEF vars, mgrVars
  <2>2. Durable' = Durable
    BY <2>1, DurableKept
  <2>3. QED
    BY <2>1, <2>2 DEF Durably!vars
<1>9. QED
  BY <1>1, <1>2, <1>3, <1>4, <1>5, <1>6, <1>7, <1>8 DEF Next, Proceed

\* The files, barriers and rotations of an SFT save amount to one durable step
\* that a job resumes after, for any number of ranks, writers and crashes; it is
\* lost at most while a data file is written behind the tracker.
THEOREM CheckpointsAreDurable ==
    ASSUME NoKeepOne
    PROVE  Spec => ImplementsDurableProgress
<1>1. IInv /\ [Next]_vars => IInv'
  BY NextInv
<1>2. IInv /\ IInv' /\ [Next]_vars => [Durably!Next]_(Durably!vars)
  BY NextDurable
<1>3. QED
  BY <1>1, <1>2, InitInv, InitDurable, PTL
     DEF Spec, ImplementsDurableProgress, Durably!Spec
=============================================================================
