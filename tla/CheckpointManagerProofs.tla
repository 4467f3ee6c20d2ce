----------------------- MODULE CheckpointManagerProofs -----------------------
(***************************************************************************)
(* Facts about one save by the checkpoint manager, for every number of     *)
(* ranks, models and steps.  The proofs about the trainers cite them.      *)
(***************************************************************************)
EXTENDS CheckpointManager, SequenceTheorems, TLAPS

\* A step of rank 0 or of another rank while model m is being saved for step s.
SaveStep(m, s) ==
    \/ EnsureCapacity(m)
    \/ \E t \in Steps : RemoveFile(m, t) \/ RemoveDir(m, t)
    \/ \E r \in Ranks : \/ MakeDir(m, r)
                        \/ PassBarrier1(m, r)
                        \/ BeginDump(m, r, s)
                        \/ EndDump(m, r, s)
                        \/ PassBarrier2(m, r)
    \/ Register(m, s)
    \/ EndRetire(m)

\* Neither ensure_checkpoint_capacity nor register_checkpoint removes more
\* checkpoints than previous_saved_paths lists.
LEMMA ExcessRange ==
    ASSUME NEW n \in Nat, NEW k \in Nat
    PROVE  CapacityExcess(n, k) \in 0 .. n /\ RegisterExcess(n, k) \in 0 .. n
BY DEF CapacityExcess, RegisterExcess

\* previous_saved_paths[keep_start:] keeps the younger checkpoints, in order.
LEMMA DropOldestProperties ==
    ASSUME NEW paths \in Seq(Steps), NEW k \in 0 .. Len(paths)
    PROVE  /\ DropOldest(paths, k) \in Seq(Steps)
           /\ Len(DropOldest(paths, k)) = Len(paths) - k
           /\ \A i \in 1 .. Len(paths) - k : DropOldest(paths, k)[i] = paths[i + k]
           /\ Oldest(paths, k) \subseteq Steps
<1>1. \A i \in (k + 1) .. Len(paths) : paths[i] \in Steps
  OBVIOUS
<1>2. /\ SubSeq(paths, k + 1, Len(paths)) \in Seq(Steps)
      /\ Len(SubSeq(paths, k + 1, Len(paths))) =
            IF k + 1 <= Len(paths) THEN Len(paths) - (k + 1) + 1 ELSE 0
      /\ \A i \in 1 .. Len(paths) - (k + 1) + 1 :
            SubSeq(paths, k + 1, Len(paths))[i] = paths[(k + 1) + i - 1]
  <2>1. k + 1 \in Int /\ Len(paths) \in Int
    OBVIOUS
  <2>2. QED
    BY <1>1, <2>1, SubSeqProperties
<1>3. \A i \in 1 .. Len(paths) - k : (k + 1) + i - 1 = i + k
  OBVIOUS
<1>4. Len(paths) - (k + 1) + 1 = Len(paths) - k
  OBVIOUS
<1>5. Oldest(paths, k) \subseteq Steps
  BY DEF Oldest
<1>6. \A i \in 1 .. Len(paths) - k :
        SubSeq(paths, k + 1, Len(paths))[i] = paths[i + k]
  BY <1>2, <1>3, <1>4, Zenon
<1>7. Len(SubSeq(paths, k + 1, Len(paths))) = Len(paths) - k
  BY <1>2
<1>8. QED
  BY <1>2, <1>5, <1>6, <1>7, Zenon DEF DropOldest

\* Replacing the set of files of one directory keeps the disk well typed.
LEMMA DirectoryType ==
    ASSUME NEW d \in [Models -> [Steps -> SUBSET Files]],
           NEW m \in Models, NEW s \in Steps, NEW F \in SUBSET Files
    PROVE  [d EXCEPT ![m][s] = F] \in [Models -> [Steps -> SUBSET Files]]
OBVIOUS

\* The manager starts well typed.
LEMMA ManagerInitType == ManagerInit => ManagerTypeOK
BY DEF ManagerInit, ManagerTypeOK, Positions

\* A rank's move from one position to another keeps the positions well typed.
LEMMA MoveToType ==
    ASSUME at \in [Models -> [Ranks -> Positions]],
           NEW m \in Models, NEW r \in Ranks, NEW p \in Positions, MoveTo(m, r, p)
    PROVE  at' \in [Models -> [Ranks -> Positions]]
BY DEF MoveTo

\* Every step of a save keeps the manager's state well typed.
LEMMA SaveStepType ==
    ASSUME ManagerTypeOK, NEW m \in Models, NEW s \in Steps, SaveStep(m, s)
    PROVE  ManagerTypeOK'
<1> USE ManagerAssumption DEF ManagerTypeOK, diskVars
<1>p. {"evict", "barrier1", "dump", "dumping", "barrier2", "register", "retire",
       "saved"} \subseteq Positions
  BY DEF Positions
<1>1. CASE EnsureCapacity(m)
  <2>1. CapacityExcess(Len(saved[m]), Keep[m]) \in 0 .. Len(saved[m])
    BY ExcessRange
  <2>2. /\ DropOldest(saved[m], CapacityExcess(Len(saved[m]), Keep[m])) \in Seq(Steps)
        /\ Oldest(saved[m], CapacityExcess(Len(saved[m]), Keep[m])) \subseteq Steps
    BY <2>1, DropOldestProperties
  <2>3. at' \in [Models -> [Ranks -> Positions]]
    BY <1>1, <1>p, MoveToType DEF EnsureCapacity
  <2>4. QED
    BY <1>1, <2>2, <2>3 DEF EnsureCapacity
<1>2. ASSUME NEW t \in Steps, RemoveFile(m, t)
      PROVE  ManagerTypeOK'
  <2>1. PICK f : /\ whole' = [whole EXCEPT ![m][t] = @ \ {f}]
                 /\ torn' = [torn EXCEPT ![m][t] = @ \ {f}]
    BY <1>2 DEF RemoveFile
  <2>2. whole[m][t] \ {f} \in SUBSET Files /\ torn[m][t] \ {f} \in SUBSET Files
    OBVIOUS
  <2>3. /\ whole' \in [Models -> [Steps -> SUBSET Files]]
        /\ torn' \in [Models -> [Steps -> SUBSET Files]]
    BY <2>1, <2>2, DirectoryType
  <2>4. QED
    BY <1>2, <2>3 DEF RemoveFile
<1>3. ASSUME NEW t \in Steps, RemoveDir(m, t)
      PROVE  ManagerTypeOK'
  BY <1>3 DEF RemoveDir
<1>4. ASSUME NEW r \in Ranks, MakeDir(m, r) \/ PassBarrier1(m, r) \/ PassBarrier2(m, r)
      PROVE  ManagerTypeOK'
  <2>1. at' \in [Models -> [Ranks -> Positions]]
    BY <1>4, <1>p, MoveToType DEF MakeDir, PassBarrier1, PassBarrier2
  <2>2. QED
    BY <1>4, <2>1 DEF MakeDir, PassBarrier1, PassBarrier2
<1>5. ASSUME NEW r \in Ranks, BeginDump(m, r, s)
      PROVE  ManagerTypeOK'
  <2>1. /\ whole[m][s] \ {Shard[r]} \in SUBSET Files
        /\ torn[m][s] \cup {Shard[r]} \in SUBSET Files
    OBVIOUS
  <2>2. /\ whole' \in [Models -> [Steps -> SUBSET Files]]
        /\ torn' \in [Models -> [Steps -> SUBSET Files]]
    BY <1>5, <2>1, DirectoryType DEF BeginDump
  <2>3. at' \in [Models -> [Ranks -> Positions]]
    BY <1>5, <1>p, MoveToType DEF BeginDump
  <2>4. QED
    BY <1>5, <2>2, <2>3 DEF BeginDump
<1>6. ASSUME NEW r \in Ranks, EndDump(m, r, s)
      PROVE  ManagerTypeOK'
  <2>1. /\ whole[m][s] \cup {Shard[r]} \in SUBSET Files
        /\ torn[m][s] \ {Shard[r]} \in SUBSET Files
    OBVIOUS
  <2>2. /\ whole' \in [Models -> [Steps -> SUBSET Files]]
        /\ torn' \in [Models -> [Steps -> SUBSET Files]]
    BY <1>6, <2>1, DirectoryType DEF EndDump
  <2>3. at' \in [Models -> [Ranks -> Positions]]
    BY <1>6, <1>p, MoveToType DEF EndDump
  <2>4. QED
    BY <1>6, <2>2, <2>3 DEF EndDump
<1>7. CASE Register(m, s)
  <2> DEFINE paths == Append(saved[m], s)
             k == RegisterExcess(Len(paths), Keep[m])
  <2>1. paths \in Seq(Steps) /\ Len(paths) \in Nat
    OBVIOUS
  <2>2. k \in 0 .. Len(paths)
    BY <2>1, ExcessRange
  <2>3. DropOldest(paths, k) \in Seq(Steps) /\ Oldest(paths, k) \subseteq Steps
    BY <2>1, <2>2, DropOldestProperties
  <2>4. at' \in [Models -> [Ranks -> Positions]]
    BY <1>7, <1>p, MoveToType DEF Register
  <2>5. QED
    BY <1>7, <2>3, <2>4 DEF Register
<1>8. CASE EndRetire(m)
  <2>1. at' \in [Models -> [Ranks -> Positions]]
    BY <1>8, <1>p, MoveToType DEF EndRetire
  <2>2. QED
    BY <1>8, <2>1 DEF EndRetire
<1>9. QED
  BY <1>1, <1>2, <1>3, <1>4, <1>5, <1>6, <1>7, <1>8 DEF SaveStep

\* So do the call of save_checkpoint and the death of the workers.
LEMMA CallSaveType ==
    ASSUME ManagerTypeOK, NEW m \in Models, CallSave(m)
    PROVE  ManagerTypeOK'
BY DEF ManagerTypeOK, Positions, CallSave

LEMMA LoseWorkersType == ManagerTypeOK /\ LoseWorkers => ManagerTypeOK'
BY DEF ManagerTypeOK, Positions, LoseWorkers, diskVars

-----------------------------------------------------------------------------
(***************************************************************************)
(* What one step of a save can change.                                     *)
(***************************************************************************)

\* A save of one model does not touch the others.
LEMMA SaveStepFrame ==
    ASSUME ManagerTypeOK, NEW m \in Models, NEW s \in Steps, SaveStep(m, s),
           NEW n \in Models, n # m
    PROVE  /\ at'[n] = at[n] /\ saved'[n] = saved[n] /\ doomed'[n] = doomed[n]
           /\ whole'[n] = whole[n] /\ torn'[n] = torn[n]
<1> USE DEF ManagerTypeOK, MoveTo, diskVars
<1>1. CASE EnsureCapacity(m)
  BY <1>1 DEF EnsureCapacity
<1>2. ASSUME NEW t \in Steps, RemoveFile(m, t) \/ RemoveDir(m, t)
      PROVE  /\ at'[n] = at[n] /\ saved'[n] = saved[n] /\ doomed'[n] = doomed[n]
             /\ whole'[n] = whole[n] /\ torn'[n] = torn[n]
  BY <1>2 DEF RemoveFile, RemoveDir
<1>3. ASSUME NEW r \in Ranks, MakeDir(m, r) \/ PassBarrier1(m, r) \/ PassBarrier2(m, r)
      PROVE  /\ at'[n] = at[n] /\ saved'[n] = saved[n] /\ doomed'[n] = doomed[n]
             /\ whole'[n] = whole[n] /\ torn'[n] = torn[n]
  BY <1>3 DEF MakeDir, PassBarrier1, PassBarrier2
<1>4. ASSUME NEW r \in Ranks, BeginDump(m, r, s) \/ EndDump(m, r, s)
      PROVE  /\ at'[n] = at[n] /\ saved'[n] = saved[n] /\ doomed'[n] = doomed[n]
             /\ whole'[n] = whole[n] /\ torn'[n] = torn[n]
  BY <1>4 DEF BeginDump, EndDump
<1>5. CASE Register(m, s)
  BY <1>5 DEF Register
<1>6. CASE EndRetire(m)
  BY <1>6 DEF EndRetire
<1>7. QED
  BY <1>1, <1>2, <1>3, <1>4, <1>5, <1>6 DEF SaveStep

\* A save touches no directory but the ones it removes and the one it writes.
LEMMA SaveStepKeepsFiles ==
    ASSUME ManagerTypeOK, NEW m \in Models, NEW s \in Steps, SaveStep(m, s),
           NEW t \in Steps, t # s, t \notin doomed[m]
    PROVE  whole'[m][t] = whole[m][t]
<1> USE DEF ManagerTypeOK, diskVars
<1>1. CASE EnsureCapacity(m)
  BY <1>1 DEF EnsureCapacity
<1>2. ASSUME NEW d \in Steps, RemoveFile(m, d)
      PROVE  whole'[m][t] = whole[m][t]
  <2>1. d # t
    BY <1>2 DEF RemoveFile
  <2>2. PICK f : whole' = [whole EXCEPT ![m][d] = @ \ {f}]
    BY <1>2 DEF RemoveFile
  <2>3. QED
    BY <2>1, <2>2
<1>3. ASSUME NEW d \in Steps, RemoveDir(m, d)
      PROVE  whole'[m][t] = whole[m][t]
  BY <1>3 DEF RemoveDir
<1>4. ASSUME NEW r \in Ranks, MakeDir(m, r) \/ PassBarrier1(m, r) \/ PassBarrier2(m, r)
      PROVE  whole'[m][t] = whole[m][t]
  BY <1>4 DEF MakeDir, PassBarrier1, PassBarrier2
<1>5. ASSUME NEW r \in Ranks, BeginDump(m, r, s) \/ EndDump(m, r, s)
      PROVE  whole'[m][t] = whole[m][t]
  BY <1>5 DEF BeginDump, EndDump
<1>6. CASE Register(m, s)
  BY <1>6 DEF Register
<1>7. CASE EndRetire(m)
  BY <1>7 DEF EndRetire
<1>8. QED
  BY <1>1, <1>2, <1>3, <1>4, <1>5, <1>6, <1>7 DEF SaveStep

-----------------------------------------------------------------------------
(***************************************************************************)
(* What one step of a save preserves.                                      *)
(***************************************************************************)

\* A rank past its dump has its finished file in the directory of step s.
Dumped(m, s) ==
    \A r \in Ranks :
        at[m][r] \in {"barrier2", "register", "retire", "saved"}
            => Shard[r] \in whole[m][s]

\* previous_saved_paths is in the order of the steps.
Ordered(m) ==
    \A i, j \in 1 .. Len(saved[m]) : i < j => saved[m][i] < saved[m][j]

\* From the eviction to the registration there is room for one checkpoint.
Room(m) ==
    Keep[m] > 1
    /\ at[m][Leader] \in {"evict", "barrier1", "dump", "dumping", "barrier2",
                          "register"}
        => Len(saved[m]) < Keep[m]

\* No other rank and no removal takes a finished shard away again.
LEMMA SaveStepDumped ==
    ASSUME ManagerTypeOK, NEW m \in Models, NEW s \in Steps, SaveStep(m, s),
           s \notin doomed[m], Dumped(m, s)
    PROVE  Dumped(m, s)'
<1> USE DEF ManagerTypeOK, MoveTo, diskVars, Dumped
<1>1. CASE EnsureCapacity(m)
  BY <1>1 DEF EnsureCapacity
<1>2. ASSUME NEW d \in Steps, RemoveFile(m, d)
      PROVE  Dumped(m, s)'
  <2>1. d # s /\ UNCHANGED at
    BY <1>2 DEF RemoveFile
  <2>2. PICK f : whole' = [whole EXCEPT ![m][d] = @ \ {f}]
    BY <1>2 DEF RemoveFile
  <2>3. whole'[m][s] = whole[m][s]
    BY <2>1, <2>2
  <2>4. QED
    BY <2>1, <2>3
<1>3. ASSUME NEW d \in Steps, RemoveDir(m, d)
      PROVE  Dumped(m, s)'
  BY <1>3 DEF RemoveDir
<1>4. ASSUME NEW r \in Ranks, MakeDir(m, r) \/ PassBarrier1(m, r) \/ PassBarrier2(m, r)
      PROVE  Dumped(m, s)'
  <2>1. CASE MakeDir(m, r)
    BY <2>1 DEF MakeDir
  <2>2. CASE PassBarrier1(m, r)
    BY <2>2 DEF PassBarrier1
  <2>3. CASE PassBarrier2(m, r)
    BY <2>3 DEF PassBarrier2
  <2>4. QED
    BY <1>4, <2>1, <2>2, <2>3
<1>5. ASSUME NEW r \in Ranks, BeginDump(m, r, s)
      PROVE  Dumped(m, s)'
  <2>1. /\ whole'[m][s] = whole[m][s] \ {Shard[r]}
        /\ at'[m][r] = "dumping"
        /\ \A q \in Ranks : q # r => at'[m][q] = at[m][q]
    BY <1>5 DEF BeginDump
  <2>2. \A q \in Ranks : q # r => Shard[q] # Shard[r]
    BY ManagerAssumption
  <2>3. QED
    BY <2>1, <2>2
<1>6. ASSUME NEW r \in Ranks, EndDump(m, r, s)
      PROVE  Dumped(m, s)'
  <2>1. /\ whole'[m][s] = whole[m][s] \cup {Shard[r]}
        /\ \A q \in Ranks : q # r => at'[m][q] = at[m][q]
    BY <1>6 DEF EndDump
  <2>2. QED
    BY <2>1
<1>7. CASE Register(m, s)
  BY <1>7 DEF Register
<1>8. CASE EndRetire(m)
  BY <1>8 DEF EndRetire
<1>9. QED
  BY <1>1, <1>2, <1>3, <1>4, <1>5, <1>6, <1>7, <1>8 DEF SaveStep

\* ensure_checkpoint_capacity leaves room for the new checkpoint, and nothing
\* takes that room before register_checkpoint.
LEMMA SaveStepRoom ==
    ASSUME ManagerTypeOK, NEW m \in Models, NEW s \in Steps, SaveStep(m, s), Room(m)
    PROVE  Room(m)'
<1> USE ManagerAssumption DEF ManagerTypeOK, MoveTo, diskVars, Room
<1>1. CASE EnsureCapacity(m)
  <2> DEFINE n == Len(saved[m])
             k == CapacityExcess(n, Keep[m])
  <2>1. n \in Nat /\ Keep[m] \in Nat
    OBVIOUS
  <2>2. k \in 0 .. n
    BY <2>1, ExcessRange
  <2>3. saved'[m] = DropOldest(saved[m], k)
    BY <1>1 DEF EnsureCapacity
  <2>4. Len(saved'[m]) = n - k
    BY <2>2, <2>3, DropOldestProperties
  <2>5. Keep[m] > 1 => n - k < Keep[m]
    BY <2>1 DEF CapacityExcess
  <2>6. QED
    BY <2>4, <2>5
<1>2. ASSUME NEW t \in Steps, RemoveFile(m, t) \/ RemoveDir(m, t)
      PROVE  Room(m)'
  BY <1>2 DEF RemoveFile, RemoveDir
<1>3. ASSUME NEW r \in Ranks, MakeDir(m, r)
      PROVE  Room(m)'
  BY <1>3 DEF MakeDir
<1>4. ASSUME NEW r \in Ranks, PassBarrier1(m, r) \/ PassBarrier2(m, r)
      PROVE  Room(m)'
  BY <1>4 DEF PassBarrier1, PassBarrier2
<1>5. ASSUME NEW r \in Ranks, BeginDump(m, r, s)
      PROVE  Room(m)'
  BY <1>5 DEF BeginDump
<1>6. ASSUME NEW r \in Ranks, EndDump(m, r, s)
      PROVE  Room(m)'
  BY <1>6 DEF EndDump
<1>7. CASE Register(m, s)
  BY <1>7 DEF Register
<1>8. CASE EndRetire(m)
  BY <1>8 DEF EndRetire
<1>9. QED
  BY <1>1, <1>2, <1>3, <1>4, <1>5, <1>6, <1>7, <1>8 DEF SaveStep

\* When more than one checkpoint is kept, register_checkpoint removes nothing:
\* ensure_checkpoint_capacity has made room.
LEMMA RegisterRemovesNothing ==
    ASSUME ManagerTypeOK, NEW m \in Models, NEW s \in Steps, Register(m, s),
           Room(m), Keep[m] # 1
    PROVE  saved'[m] = Append(saved[m], s) /\ doomed'[m] = {}
<1> USE ManagerAssumption DEF ManagerTypeOK
<1> DEFINE paths == Append(saved[m], s)
           k == RegisterExcess(Len(paths), Keep[m])
<1>1. /\ paths \in Seq(Steps)
      /\ Len(paths) = Len(saved[m]) + 1
      /\ Len(saved[m]) \in Nat /\ Keep[m] \in Nat
  OBVIOUS
<1>2. Keep[m] > 1 => Len(saved[m]) < Keep[m]
  BY DEF Register, Room
<1>3. k = 0
  BY <1>1, <1>2 DEF RegisterExcess
<1>4. saved'[m] = DropOldest(paths, k) /\ doomed'[m] = Oldest(paths, k)
  BY DEF Register
<1>5. DropOldest(paths, 0) = paths
  BY <1>1, SubSeqFull DEF DropOldest
<1>6. Oldest(paths, 0) = {}
  BY DEF Oldest
<1>7. QED
  BY <1>3, <1>4, <1>5, <1>6

\* ensure_checkpoint_capacity removes only entries that are older than another
\* one, and keeps the others in their order.
LEMMA EvictionKeepsYoungest ==
    ASSUME ManagerTypeOK, NEW m \in Models, EnsureCapacity(m)
    PROVE  \E k \in 0 .. Len(saved[m]) :
              /\ k > 0 => k < Len(saved[m])
              /\ Len(saved'[m]) = Len(saved[m]) - k
              /\ \A i \in 1 .. Len(saved[m]) - k : saved'[m][i] = saved[m][i + k]
              /\ doomed'[m] = {saved[m][i] : i \in 1 .. k}
<1> USE ManagerAssumption DEF ManagerTypeOK
<1> DEFINE n == Len(saved[m])
           k == CapacityExcess(n, Keep[m])
<1>1. n \in Nat /\ Keep[m] \in Nat
  OBVIOUS
<1>2. k \in 0 .. n /\ (k > 0 => k < n)
  BY <1>1 DEF CapacityExcess
<1>3. saved'[m] = DropOldest(saved[m], k) /\ doomed'[m] = Oldest(saved[m], k)
  BY DEF EnsureCapacity
<1>4. saved[m] \in Seq(Steps)
  OBVIOUS
<1> HIDE DEF k
<1>5. /\ Len(saved'[m]) = n - k
      /\ \A i \in 1 .. n - k : saved'[m][i] = saved[m][i + k]
  BY <1>2, <1>3, <1>4, DropOldestProperties
<1>6. doomed'[m] = {saved[m][i] : i \in 1 .. k}
  BY <1>3 DEF Oldest
<1>7. QED
  BY <1>2, <1>5, <1>6

\* What previous_saved_paths lists after a step of a save was listed before,
\* but for the step rank 0 registers.
LEMMA SaveStepEntries ==
    ASSUME ManagerTypeOK, NEW m \in Models, NEW s \in Steps, SaveStep(m, s),
           Room(m), Keep[m] # 1, NEW i \in 1 .. Len(saved'[m])
    PROVE  \/ \E j \in 1 .. Len(saved[m]) : saved'[m][i] = saved[m][j]
           \/ /\ saved'[m][i] = s
              /\ at[m][Leader] = "register" /\ at'[m][Leader] = "retire"
<1> USE ManagerAssumption DEF ManagerTypeOK
<1> DEFINE Old == \E j \in 1 .. Len(saved[m]) : saved'[m][i] = saved[m][j]
<1>1. CASE EnsureCapacity(m)
  <2>1. PICK k \in 0 .. Len(saved[m]) :
            /\ Len(saved'[m]) = Len(saved[m]) - k
            /\ \A j \in 1 .. Len(saved[m]) - k : saved'[m][j] = saved[m][j + k]
    BY <1>1, EvictionKeepsYoungest
  <2>2. i + k \in 1 .. Len(saved[m]) /\ saved'[m][i] = saved[m][i + k]
    BY <2>1
  <2>3. QED
    BY <2>2
<1>2. CASE Register(m, s)
  <2>1. saved'[m] = Append(saved[m], s)
    BY <1>2, RegisterRemovesNothing
  <2>2. at[m][Leader] = "register" /\ at'[m][Leader] = "retire"
    BY <1>2 DEF Register, MoveTo
  <2>3. i \in 1 .. Len(saved[m]) \/ (i = Len(saved[m]) + 1 /\ saved'[m][i] = s)
    BY <2>1
  <2>4. i \in 1 .. Len(saved[m]) => saved'[m][i] = saved[m][i]
    BY <2>1
  <2>5. QED
    BY <2>2, <2>3, <2>4
<1>3. CASE UNCHANGED saved
  BY <1>3
<1>4. EnsureCapacity(m) \/ Register(m, s) \/ UNCHANGED saved
  BY DEF SaveStep, RemoveFile, RemoveDir, MakeDir, PassBarrier1, BeginDump, EndDump,
         PassBarrier2, EndRetire
<1>5. QED
  BY <1>1, <1>2, <1>3, <1>4

\* previous_saved_paths stays in the order of the steps.
LEMMA SaveStepOrdered ==
    ASSUME ManagerTypeOK, NEW m \in Models, NEW s \in Steps, SaveStep(m, s),
           Room(m), Keep[m] # 1, Ordered(m),
           at[m][Leader] = "register" => \A i \in 1 .. Len(saved[m]) : saved[m][i] < s
    PROVE  Ordered(m)'
<1> USE ManagerAssumption DEF ManagerTypeOK, Ordered
<1>1. CASE EnsureCapacity(m)
  <2>1. PICK k \in 0 .. Len(saved[m]) :
            /\ Len(saved'[m]) = Len(saved[m]) - k
            /\ \A j \in 1 .. Len(saved[m]) - k : saved'[m][j] = saved[m][j + k]
    BY <1>1, EvictionKeepsYoungest
  <2>2. ASSUME NEW i \in 1 .. Len(saved'[m]), NEW j \in 1 .. Len(saved'[m]), i < j
        PROVE  saved'[m][i] < saved'[m][j]
    <3>1. /\ i + k \in 1 .. Len(saved[m]) /\ j + k \in 1 .. Len(saved[m])
          /\ i + k < j + k
      BY <2>1, <2>2
    <3>2. saved'[m][i] = saved[m][i + k] /\ saved'[m][j] = saved[m][j + k]
      BY <2>1, <2>2
    <3>3. QED
      BY <3>1, <3>2
  <2>3. QED
    BY <2>2
<1>2. CASE Register(m, s)
  <2>1. saved'[m] = Append(saved[m], s)
    BY <1>2, RegisterRemovesNothing
  <2>2. \A i \in 1 .. Len(saved[m]) : saved[m][i] < s
    BY <1>2 DEF Register
  <2>3. /\ Len(saved'[m]) = Len(saved[m]) + 1 /\ saved'[m][Len(saved[m]) + 1] = s
        /\ \A i \in 1 .. Len(saved[m]) : saved'[m][i] = saved[m][i]
    BY <2>1
  <2>4. ASSUME NEW i \in 1 .. Len(saved'[m]), NEW j \in 1 .. Len(saved'[m]), i < j
        PROVE  saved'[m][i] < saved'[m][j]
    <3>1. i \in 1 .. Len(saved[m]) /\ saved'[m][i] = saved[m][i]
      BY <2>3, <2>4
    <3>2. CASE j \in 1 .. Len(saved[m])
      BY <2>3, <2>4, <3>1, <3>2
    <3>3. CASE j = Len(saved[m]) + 1
      BY <2>2, <2>3, <3>1, <3>3
    <3>4. QED
      BY <2>3, <3>2, <3>3
  <2>5. QED
    BY <2>4
<1>3. CASE UNCHANGED saved
  BY <1>3
<1>4. EnsureCapacity(m) \/ Register(m, s) \/ UNCHANGED saved
  BY DEF SaveStep, RemoveFile, RemoveDir, MakeDir, PassBarrier1, BeginDump, EndDump,
         PassBarrier2, EndRetire
<1>5. QED
  BY <1>1, <1>2, <1>3, <1>4

\* Directories are only removed in the eviction, and those are of steps that an
\* entry younger than them remains for.
LEMMA SaveStepDoomed ==
    ASSUME ManagerTypeOK, NEW m \in Models, NEW s \in Steps, SaveStep(m, s),
           Room(m), Keep[m] # 1, Ordered(m),
           doomed[m] # {} => at[m][Leader] = "evict"
    PROVE  /\ doomed'[m] # {} => at'[m][Leader] = "evict"
           /\ \A d \in doomed'[m] :
                 \/ d \in doomed[m]
                 \/ /\ at[m][Leader] = "enter"
                    /\ \E j \in 1 .. Len(saved[m]) : d < saved[m][j]
<1> USE ManagerAssumption DEF ManagerTypeOK, MoveTo
<1>1. CASE EnsureCapacity(m)
  <2>1. at[m][Leader] = "enter" /\ at'[m][Leader] = "evict"
    BY <1>1 DEF EnsureCapacity
  <2>2. PICK k \in 0 .. Len(saved[m]) :
            /\ k > 0 => k < Len(saved[m])
            /\ doomed'[m] = {saved[m][i] : i \in 1 .. k}
    BY <1>1, EvictionKeepsYoungest
  <2>3. ASSUME NEW d \in doomed'[m]
        PROVE  \E j \in 1 .. Len(saved[m]) : d < saved[m][j]
    <3>1. PICK i \in 1 .. k : d = saved[m][i]
      BY <2>2, <2>3
    <3>2. i \in 1 .. Len(saved[m]) /\ i + 1 \in 1 .. Len(saved[m]) /\ i < i + 1
      BY <2>2, <3>1
    <3>3. saved[m][i] < saved[m][i + 1]
      BY <3>2 DEF Ordered
    <3>4. QED
      BY <3>1, <3>2, <3>3
  <2>4. QED
    BY <2>1, <2>3
<1>2. CASE Register(m, s)
  BY <1>2, RegisterRemovesNothing
<1>3. ASSUME NEW t \in Steps, RemoveFile(m, t) \/ RemoveDir(m, t)
      PROVE  doomed'[m] \subseteq doomed[m] /\ UNCHANGED at
  BY <1>3 DEF RemoveFile, RemoveDir
<1>4. ASSUME NEW r \in Ranks, MakeDir(m, r)
      PROVE  /\ UNCHANGED doomed
             /\ at'[m][Leader] = at[m][Leader] \/ doomed[m] = {}
  BY <1>4 DEF MakeDir
<1>5. ASSUME NEW r \in Ranks, PassBarrier1(m, r) \/ BeginDump(m, r, s)
                              \/ EndDump(m, r, s) \/ PassBarrier2(m, r)
      PROVE  /\ UNCHANGED doomed
             /\ at'[m][Leader] = at[m][Leader] \/ at[m][Leader] # "evict"
  BY <1>5 DEF PassBarrier1, BeginDump, EndDump, PassBarrier2
<1>6. CASE EndRetire(m)
  BY <1>6 DEF EndRetire
<1>7. QED
  BY <1>1, <1>2, <1>3, <1>4, <1>5, <1>6 DEF SaveStep

\* Once rank 0 has registered the checkpoint it stays registered.
LEMMA SaveStepStaysRegistered ==
    ASSUME ManagerTypeOK, NEW m \in Models, NEW s \in Steps, SaveStep(m, s),
           at[m][Leader] \in {"retire", "saved"}
    PROVE  at'[m][Leader] \in {"retire", "saved"}
<1> USE ManagerAssumption DEF ManagerTypeOK, MoveTo
<1>1. ASSUME NEW t \in Steps, RemoveFile(m, t) \/ RemoveDir(m, t)
      PROVE  UNCHANGED at
  BY <1>1 DEF RemoveFile, RemoveDir
<1>2. ASSUME NEW r \in Ranks, MakeDir(m, r)
      PROVE  at'[m][Leader] = at[m][Leader]
  BY <1>2 DEF MakeDir
<1>3. ASSUME NEW r \in Ranks, PassBarrier1(m, r) \/ BeginDump(m, r, s)
                              \/ EndDump(m, r, s) \/ PassBarrier2(m, r)
      PROVE  at'[m][Leader] = at[m][Leader]
  BY <1>3 DEF PassBarrier1, BeginDump, EndDump, PassBarrier2
<1>4. ~ EnsureCapacity(m) /\ ~ Register(m, s)
  BY DEF EnsureCapacity, Register
<1>5. CASE EndRetire(m)
  BY <1>5 DEF EndRetire
<1>6. QED
  BY <1>1, <1>2, <1>3, <1>4, <1>5 DEF SaveStep
=============================================================================
