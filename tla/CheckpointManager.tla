-------------------------- MODULE CheckpointManager --------------------------
(***************************************************************************)
(* The checkpoint manager of verl: one save by all ranks of a worker group *)
(* (FSDPCheckpointManager.save_checkpoint) and the retention bookkeeping   *)
(* of rank 0 (BaseCheckpointManager).  Trainers extend this module: the    *)
(* PPO trainer runs one manager per model (actor, critic), the SFT         *)
(* trainers run a single one.                                              *)
(*                                                                         *)
(* What is abstracted.  The model, optimizer and extra-state files one     *)
(* rank writes are one file of that rank.  A file is absent, torn (its     *)
(* write has begun and not ended) or whole.  previous_saved_paths holds    *)
(* step numbers instead of paths.  It is trimmed when a removal begins,    *)
(* not when it ends: only rank 0 reads it, and only at the next save.      *)
(***************************************************************************)
EXTENDS Naturals, Sequences, FiniteSets

CONSTANTS
    Ranks,      \* the ranks of a worker group
    Leader,     \* rank 0
    Models,     \* the models that are saved, one manager each
    Steps,      \* the training steps that can be saved
    Files,      \* the files a step's directory can hold
    Shard,      \* Shard[r] is the file rank r writes
    Keep        \* Keep[m] is max_ckpt_to_keep of m, 0 when it is None

ASSUME ManagerAssumption ==
    /\ Leader \in Ranks
    /\ Steps \subseteq Nat \ {0}
    /\ Shard \in [Ranks -> Files]
    /\ \A q, r \in Ranks : q # r => Shard[q] # Shard[r]
    /\ Keep \in [Models -> Nat]

VARIABLES
    at,         \* at[m][r]: where rank r is in save_checkpoint of m
    saved,      \* saved[m]: previous_saved_paths, oldest first
    doomed,     \* doomed[m]: the directories rank 0 is removing now
    whole,      \* whole[m][s]: the finished files of m's directory of step s
    torn        \* torn[m][s]: the files of it whose write has not ended

mgrVars == <<at, saved, doomed, whole, torn>>
diskVars == <<whole, torn>>

Positions == {"idle", "enter", "evict", "barrier1", "dump", "dumping",
              "barrier2", "register", "retire", "saved"}

\* Before the barrier that follows the mkdir, and before the one that follows
\* the dump.
BeforeBarrier1 == {"idle", "enter", "evict"}
BeforeBarrier2 == BeforeBarrier1 \cup {"barrier1", "dump", "dumping"}

ManagerTypeOK ==
    /\ at \in [Models -> [Ranks -> Positions]]
    /\ saved \in [Models -> Seq(Steps)]
    /\ doomed \in [Models -> SUBSET Steps]
    /\ whole \in [Models -> [Steps -> SUBSET Files]]
    /\ torn \in [Models -> [Steps -> SUBSET Files]]

ManagerInit ==
    /\ at = [m \in Models |-> [r \in Ranks |-> "idle"]]
    /\ saved = [m \in Models |-> << >>]
    /\ doomed = [m \in Models |-> {}]
    /\ whole = [m \in Models |-> [s \in Steps |-> {}]]
    /\ torn = [m \in Models |-> [s \in Steps |-> {}]]

-----------------------------------------------------------------------------
\* How many of n saved checkpoints ensure_checkpoint_capacity removes before a
\* save, and how many register_checkpoint removes after it, when k are kept.
\* (A definition marked "mutant" is not part of the model: it is the plausible
\* mistake that a property of a run is shown to catch.)
CapacityTooMany(n, k) == IF k > 1 /\ n >= k THEN n - k + 2 ELSE 0     \* mutant
CapacityExcess(n, k) == IF k > 1 /\ n >= k THEN n - k + 1 ELSE 0
RegisterTooMany(n, k) == IF k > 0 /\ n >= k THEN n - k + 1 ELSE 0     \* mutant
RegisterExcess(n, k) == IF k > 0 /\ n > k THEN n - k ELSE 0

Oldest(paths, k) == {paths[i] : i \in 1 .. k}
DropOldest(paths, k) == SubSeq(paths, k + 1, Len(paths))

MoveTo(m, r, p) == at' = [at EXCEPT ![m][r] = p]

\* The trainer calls save_checkpoint on every rank of m's worker group.
CallSave(m) ==
    /\ \A r \in Ranks : at[m][r] = "idle"
    /\ at' = [at EXCEPT ![m] = [r \in Ranks |-> "enter"]]
    /\ UNCHANGED <<saved, doomed, whole, torn>>

\* Rank 0 makes room for the new checkpoint; the others wait at the barrier.
EnsureCapacity(m) ==
    /\ at[m][Leader] = "enter"
    /\ LET k == CapacityExcess(Len(saved[m]), Keep[m]) IN
          /\ doomed' = [doomed EXCEPT ![m] = Oldest(saved[m], k)]
          /\ saved' = [saved EXCEPT ![m] = DropOldest(saved[m], k)]
    /\ MoveTo(m, Leader, "evict")
    /\ UNCHANGED diskVars

\* shutil.rmtree removes the files of a directory one after the other, in no
\* order the code fixes, and then the directory.
RemoveFile(m, s) ==
    /\ at[m][Leader] \in {"evict", "retire"}
    /\ s \in doomed[m]
    /\ \E f \in whole[m][s] \cup torn[m][s] :
          /\ whole' = [whole EXCEPT ![m][s] = @ \ {f}]
          /\ torn' = [torn EXCEPT ![m][s] = @ \ {f}]
    /\ UNCHANGED <<at, saved, doomed>>

RemoveDir(m, s) ==
    /\ at[m][Leader] \in {"evict", "retire"}
    /\ s \in doomed[m]
    /\ whole[m][s] \cup torn[m][s] = {}
    /\ doomed' = [doomed EXCEPT ![m] = @ \ {s}]
    /\ UNCHANGED <<at, saved, whole, torn>>

\* A rank creates the directory of the step and waits for the others.
MakeDir(m, r) ==
    /\ IF r = Leader THEN at[m][r] = "evict" /\ doomed[m] = {}
                     ELSE at[m][r] = "enter"
    /\ MoveTo(m, r, "barrier1")
    /\ UNCHANGED <<saved, doomed, whole, torn>>

PassBarrier1(m, r) ==
    /\ at[m][r] = "barrier1"
    /\ \A q \in Ranks : at[m][q] \notin BeforeBarrier1
    /\ MoveTo(m, r, "dump")
    /\ UNCHANGED <<saved, doomed, whole, torn>>

\* torch.save truncates the rank's file of step s, if it exists, and writes it.
BeginDump(m, r, s) ==
    /\ at[m][r] = "dump"
    /\ whole' = [whole EXCEPT ![m][s] = @ \ {Shard[r]}]
    /\ torn' = [torn EXCEPT ![m][s] = @ \cup {Shard[r]}]
    /\ MoveTo(m, r, "dumping")
    /\ UNCHANGED <<saved, doomed>>

EndDump(m, r, s) ==
    /\ at[m][r] = "dumping"
    /\ whole' = [whole EXCEPT ![m][s] = @ \cup {Shard[r]}]
    /\ torn' = [torn EXCEPT ![m][s] = @ \ {Shard[r]}]
    /\ MoveTo(m, r, "barrier2")
    /\ UNCHANGED <<saved, doomed>>

PassBarrier2(m, r) ==
    /\ at[m][r] = "barrier2"
    /\ \A q \in Ranks : at[m][q] \notin BeforeBarrier2
    /\ MoveTo(m, r, IF r = Leader THEN "register" ELSE "saved")
    /\ UNCHANGED <<saved, doomed, whole, torn>>

\* Rank 0 records the new checkpoint and removes the ones beyond the limit.
Register(m, s) ==
    /\ at[m][Leader] = "register"
    /\ LET paths == Append(saved[m], s)
           k == RegisterExcess(Len(paths), Keep[m]) IN
          /\ doomed' = [doomed EXCEPT ![m] = Oldest(paths, k)]
          /\ saved' = [saved EXCEPT ![m] = DropOldest(paths, k)]
    /\ MoveTo(m, Leader, "retire")
    /\ UNCHANGED diskVars

EndRetire(m) ==
    /\ at[m][Leader] = "retire"
    /\ doomed[m] = {}
    /\ MoveTo(m, Leader, "saved")
    /\ UNCHANGED <<saved, doomed, whole, torn>>

\* Every rank has returned from save_checkpoint.
AllSaved(m) == \A r \in Ranks : at[m][r] = "saved"

\* The workers die: what is left is what is on disk.
LoseWorkers ==
    /\ at' = [m \in Models |-> [r \in Ranks |-> "idle"]]
    /\ saved' = [m \in Models |-> << >>]
    /\ doomed' = [m \in Models |-> {}]
    /\ UNCHANGED diskVars

\* m's directory of step s holds a finished file of every rank.
ShardsWhole(m, s) == \A r \in Ranks : Shard[r] \in whole[m][s]
=============================================================================
