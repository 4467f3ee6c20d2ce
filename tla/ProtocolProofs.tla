----------------------------- MODULE ProtocolProofs -----------------------------
(***************************************************************************)
(* The protocols of the processes around the actor.  HybridEngine, for any *)
(* number of workers, requests, updates and restarts; ActivationOffload,   *)
(* for any number of layers, groups and micro-batches; RewardPool, for any *)
(* number of rows, cases, processes, slots and batches; RolloutExecutor,   *)
(* for any number of workers and calls.                                    *)
(***************************************************************************)
EXTENDS HybridEngine, ActivationOffload, RewardPool, RolloutExecutor,
        FiniteSetTheorems, TLAPS


-----------------------------------------------------------------------------
(***************************************************************************)
(* HybridEngine.                                                           *)
(***************************************************************************)

(***************************************************************************)
(* Types.  What a finished request leaves in the prefix cache is typed     *)
(* because a request uses the adapter only if every engine has one, and    *)
(* because engines keep theirs while requests are under way.               *)
(***************************************************************************)
Pending == {"checked", "running"}

RequestInv ==
    \A r \in Requests : request[r].state \in Pending =>
        /\ phase = "serving"
        /\ request[r].lora => \A w \in Workers : engine[w].adapter # Missing

TypeInv == TypeOK /\ RequestInv

Engines == [Workers -> [base : Nat \cup {Garbage},
                        adapter : Nat \cup {Garbage, Missing}]]
Names == {"torch", "gen", "launch"}
Streams == [now : Names, torch : Names, gen : Names]
RequestStates == [state : {"none", "checked", "running", "done", "aborted"},
                  lora : BOOLEAN]

\* The part of TypeOK about the workers, and the part about the requests.
WorkersTyped ==
    /\ mode \in [Workers -> {"trainer", "rollout"}]
    /\ baseSyncDone \in [Workers -> BOOLEAN]
    /\ engine \in Engines
    /\ resident \in [Workers -> SUBSET All]
    /\ stream \in [Workers -> Streams]
RequestsTyped == request \in [Requests -> RequestStates]
RestTyped ==
    /\ config \in Configs
    /\ trained \in Weights /\ stored \in Weights
    /\ phase \in {"trainer", "waking", "serving", "draining", "sleeping"}
    /\ prefixCache \subseteq [base : Nat \cup {Garbage}, adapter : Nat \cup {Garbage}]
    /\ clearing \in BOOLEAN
    /\ restarts \in 0 .. MaxRestarts

LEMMA TypeOKParts == TypeOK <=> WorkersTyped /\ RequestsTyped /\ RestTyped
  BY DEF TypeOK, WorkersTyped, RequestsTyped, RestTyped, Engines, Streams, Names,
         RequestStates

LEMMA TypeOKPartsNext == TypeOK' <=> WorkersTyped' /\ RequestsTyped' /\ RestTyped'
  BY DEF TypeOK, WorkersTyped, RequestsTyped, RestTyped, Engines, Streams, Names,
         RequestStates

LEMMA LaunchedTyped ==
    /\ Launched.mode \in [Workers -> {"trainer", "rollout"}]
    /\ Launched.baseSyncDone \in [Workers -> BOOLEAN]
    /\ Launched.engine \in Engines
    /\ Launched.resident \in [Workers -> SUBSET All]
    /\ Launched.stream \in [Workers -> Streams]
  BY DEF Launched, All, Engines, Streams, Names

LEMMA NoRequestTyped == NoRequest \in RequestStates
  BY DEF NoRequest, RequestStates

LEMMA ForgetTyped ==
    ASSUME RequestsTyped, ForgetAnswers
    PROVE  /\ RequestsTyped'
           /\ \A r \in Requests : request'[r] = request[r] \/ request'[r] = NoRequest
  BY NoRequestTyped DEF RequestsTyped, ForgetAnswers

LEMMA InitTypeInv == Init => TypeInv
  <1>. SUFFICES ASSUME Init PROVE TypeInv
    OBVIOUS
  <1>1. WorkersTyped
    BY LaunchedTyped DEF Init, WorkersTyped
  <1>2. RequestsTyped
    BY NoRequestTyped DEF Init, RequestsTyped
  <1>3. RestTyped
    <2>1. trained \in Weights /\ stored \in Weights
      BY DEF Init, Weights
    <2>2. restarts \in 0 .. MaxRestarts
      BY EngineAssumption DEF EngineAssumption, Init
    <2>3. prefixCache = {} /\ clearing = FALSE /\ phase = "sleeping" /\ config \in Configs
      BY DEF Init
    <2>. QED BY <2>1, <2>2, <2>3 DEF RestTyped
  <1>4. RequestInv
    BY DEF Init, RequestInv, NoRequest, Pending
  <1>. QED BY <1>1, <1>2, <1>3, <1>4, TypeOKParts DEF TypeInv

LEMMA GeneratedTyped ==
    ASSUME TypeInv, NEW w \in Workers, NEW r \in Requests,
           request[r].state = "running"
    PROVE  Generated(w, r) \in [base : Nat \cup {Garbage}, adapter : Nat \cup {Garbage}]
  <1>1. request[r].lora => engine[w].adapter # Missing
    BY DEF TypeInv, RequestInv, Pending
  <1>2. engine[w] \in [base : Nat \cup {Garbage}, adapter : Nat \cup {Garbage, Missing}]
    BY DEF TypeInv, TypeOK
  <1>. QED BY <1>1, <1>2 DEF Generated

LEMMA RolloutTyped ==
    ASSUME WorkersTyped, trained \in Weights, NEW w \in Workers, RolloutMode(w)
    PROVE  WorkersTyped'
  <1>1. engine' \in Engines
    <2>. DEFINE b == IF SendsBase(w) THEN trained.base ELSE engine[w].base
                a == IF SendsAdapter(w) THEN trained.adapter ELSE engine[w].adapter
    <2>1. b \in Nat \cup {Garbage} /\ a \in Nat \cup {Garbage, Missing}
      BY DEF WorkersTyped, Engines, Weights
    <2>2. engine' = [engine EXCEPT ![w].base = b, ![w].adapter = a]
      BY DEF RolloutMode
    <2>3. engine \in Engines
      BY DEF WorkersTyped
    <2>. HIDE DEF b, a
    <2>. QED BY <2>1, <2>2, <2>3 DEF Engines
  <1>2. stream' \in [Workers -> Streams]
    BY DEF RolloutMode, ToRollout, WorkersTyped, Streams
  <1>3. mode' \in [Workers -> {"trainer", "rollout"}]
        /\ baseSyncDone' \in [Workers -> BOOLEAN]
        /\ resident' \in [Workers -> SUBSET All]
    BY DEF RolloutMode, WorkersTyped
  <1>. QED BY <1>1, <1>2, <1>3 DEF WorkersTyped

LEMMA TrainerTyped ==
    ASSUME WorkersTyped, NEW w \in Workers, TrainerMode(w)
    PROVE  WorkersTyped'
  <1>1. engine' \in Engines
    <2>. DEFINE b == Kept(engine[w].base)
                a == Kept(engine[w].adapter)
    <2>1. b \in Nat \cup {Garbage} /\ a \in Nat \cup {Garbage, Missing}
      BY DEF Kept, WorkersTyped, Engines
    <2>2. engine' = [engine EXCEPT ![w].base = b, ![w].adapter = a] \/ engine' = engine
      BY DEF TrainerMode
    <2>3. engine \in Engines
      BY DEF WorkersTyped
    <2>. HIDE DEF b, a
    <2>. QED BY <2>1, <2>2, <2>3 DEF Engines
  <1>2. stream' \in [Workers -> Streams]
    BY DEF TrainerMode, ToTrainer, WorkersTyped, Streams
  <1>3. mode' \in [Workers -> {"trainer", "rollout"}]
        /\ baseSyncDone' \in [Workers -> BOOLEAN]
        /\ resident' \in [Workers -> SUBSET All]
    BY DEF TrainerMode, WorkersTyped
  <1>. QED BY <1>1, <1>2, <1>3 DEF WorkersTyped

LEMMA TypeOKStep == TypeInv /\ [Next]_vars => TypeOK'
  <1>. SUFFICES ASSUME TypeInv, [Next]_vars PROVE TypeOK'
    OBVIOUS
  <1>0. WorkersTyped /\ RequestsTyped /\ RestTyped
    BY TypeOKParts DEF TypeInv
  <1>. SUFFICES WorkersTyped' /\ RequestsTyped' /\ RestTyped'
    BY TypeOKPartsNext
  <1>1. ASSUME NEW w \in Workers, RolloutMode(w)
        PROVE  WorkersTyped' /\ RequestsTyped' /\ RestTyped'
    <2>1. WorkersTyped'
      BY <1>0, <1>1, RolloutTyped DEF RestTyped
    <2>. QED BY <1>0, <1>1, <2>1
             DEF RolloutMode, RequestsTyped, RestTyped, jobVars, serverVars
  <1>2. ASSUME NEW w \in Workers, TrainerMode(w)
        PROVE  WorkersTyped' /\ RequestsTyped' /\ RestTyped'
    <2>1. WorkersTyped'
      BY <1>0, <1>2, TrainerTyped
    <2>. QED BY <1>0, <1>2, <2>1
             DEF TrainerMode, RequestsTyped, RestTyped, jobVars, serverVars
  <1>3. ASSUME NEW r \in Requests, CheckLora(r)
        PROVE  WorkersTyped' /\ RequestsTyped' /\ RestTyped'
    <2>1. UsesLora \in BOOLEAN
      BY DEF UsesLora
    <2>2. RequestsTyped'
      BY <1>0, <1>3, <2>1 DEF CheckLora, RequestsTyped, RequestStates
    <2>. QED BY <1>0, <1>3, <2>2 DEF CheckLora, WorkersTyped, RestTyped, workerVars, jobVars
  <1>4. ASSUME NEW r \in Requests, Run(r)
        PROVE  WorkersTyped' /\ RequestsTyped' /\ RestTyped'
    <2>1. RequestsTyped'
      BY <1>0, <1>4 DEF Run, RequestsTyped, RequestStates
    <2>. QED BY <1>0, <1>4, <2>1 DEF Run, WorkersTyped, RestTyped, workerVars, jobVars
  <1>5. ASSUME NEW r \in Requests, Finish(r)
        PROVE  WorkersTyped' /\ RequestsTyped' /\ RestTyped'
    <2>1. \A w \in Workers : Generated(w, r) \in
                [base : Nat \cup {Garbage}, adapter : Nat \cup {Garbage}]
      BY <1>5, GeneratedTyped DEF Finish
    <2>2. RequestsTyped'
      BY <1>0, <1>5 DEF Finish, RequestsTyped, RequestStates
    <2>. QED BY <1>0, <1>5, <2>1, <2>2 DEF Finish, WorkersTyped, RestTyped, workerVars, jobVars
  <1>6. CASE ClearAfterAbort
    BY <1>0, <1>6 DEF ClearAfterAbort, ResetPrefixCache, WorkersTyped, RequestsTyped,
       RestTyped, workerVars, jobVars
  <1>7. CASE Serve \/ BeginSleep \/ EndSleep
    BY <1>0, <1>7 DEF Serve, BeginSleep, EndSleep, WorkersTyped, RequestsTyped,
       RestTyped, workerVars, jobVars, serverVars
  <1>8. CASE Drain
    BY <1>0, <1>8 DEF Drain, ResetPrefixCache, WorkersTyped, RequestsTyped,
       RestTyped, workerVars, jobVars
  <1>9. CASE AbortAllRequests
    <2>1. RequestsTyped'
      BY <1>0, <1>9 DEF AbortAllRequests, Aborted, RequestsTyped, RequestStates
    <2>. QED BY <1>0, <1>9, <2>1
             DEF AbortAllRequests, WorkersTyped, RestTyped, workerVars, jobVars
  <1>10. CASE WakeUp
    <2>1. RequestsTyped'
      BY <1>0, <1>10, ForgetTyped DEF WakeUp
    <2>. QED BY <1>0, <1>10, <2>1 DEF WakeUp, WorkersTyped, RestTyped, workerVars, jobVars
  <1>11. CASE UpdateActor
    <2>1. RequestsTyped'
      BY <1>0, <1>11, ForgetTyped DEF UpdateActor
    <2>2. trained' \in Weights
      BY <1>0, <1>11 DEF RestTyped, Weights, UpdateActor
    <2>. QED BY <1>0, <1>11, <2>1, <2>2
             DEF UpdateActor, WorkersTyped, RestTyped, workerVars, jobVars
  <1>12. CASE SaveCheckpoint
    BY <1>0, <1>12 DEF SaveCheckpoint, WorkersTyped, RequestsTyped, RestTyped,
       workerVars, jobVars, serverVars
  <1>13. CASE Restart
    <2>1. WorkersTyped'
      BY <1>13, LaunchedTyped DEF Restart, WorkersTyped
    <2>2. RequestsTyped'
      BY <1>13, NoRequestTyped DEF Restart, RequestsTyped
    <2>3. restarts' \in 0 .. MaxRestarts
      BY <1>0, <1>13, EngineAssumption DEF Restart, RestTyped
    <2>. QED BY <1>0, <1>13, <2>1, <2>2, <2>3 DEF Restart, RestTyped
  <1>14. CASE UNCHANGED vars
    BY <1>0, <1>14 DEF vars, WorkersTyped, RequestsTyped, RestTyped, workerVars,
       jobVars, serverVars
  <1>. QED
    BY <1>1, <1>2, <1>3, <1>4, <1>5, <1>6, <1>7, <1>8, <1>9, <1>10, <1>11, <1>12,
       <1>13, <1>14 DEF Next, Proceed

\* Only requests in the hands of the server are pending, and the engines are
\* not touched meanwhile.
LEMMA RequestInvStep == TypeInv /\ [Next]_vars => RequestInv'
  <1>. SUFFICES ASSUME TypeInv, [Next]_vars PROVE RequestInv'
    OBVIOUS
  <1>0. RequestInv /\ RequestsTyped
    BY TypeOKParts DEF TypeInv
  <1>1. ASSUME NEW w \in Workers, RolloutMode(w) \/ TrainerMode(w) PROVE RequestInv'
    BY <1>0, <1>1 DEF RequestInv, RolloutMode, TrainerMode, serverVars
  <1>2. ASSUME NEW r \in Requests, CheckLora(r) PROVE RequestInv'
    <2>1. UsesLora => \A w \in Workers : engine[w].adapter # Missing
      BY DEF UsesLora
    <2>2. \A q \in Requests : request'[q] = IF q = r THEN [state |-> "checked", lora |-> UsesLora]
                                             ELSE request[q]
      BY <1>0, <1>2 DEF CheckLora, RequestsTyped
    <2>3. phase = "serving" /\ phase' = phase /\ engine' = engine
      BY <1>2 DEF CheckLora, workerVars
    <2>. QED BY <1>0, <2>1, <2>2, <2>3 DEF RequestInv
  <1>3. ASSUME NEW r \in Requests, Run(r) PROVE RequestInv'
    <2>1. \A q \in Requests : /\ request'[q].lora = request[q].lora
                              /\ request'[q].state \in Pending => request[q].state \in Pending
      BY <1>0, <1>3 DEF Run, RequestsTyped, RequestStates, Pending
    <2>2. phase' = phase /\ engine' = engine
      BY <1>3 DEF Run, workerVars
    <2>. QED BY <1>0, <2>1, <2>2 DEF RequestInv
  <1>4. ASSUME NEW r \in Requests, Finish(r) PROVE RequestInv'
    <2>1. \A q \in Requests : /\ request'[q].lora = request[q].lora
                              /\ request'[q].state \in Pending => request[q].state \in Pending
      BY <1>0, <1>4 DEF Finish, RequestsTyped, RequestStates, Pending
    <2>2. phase' = phase /\ engine' = engine
      BY <1>4 DEF Finish, workerVars
    <2>. QED BY <1>0, <2>1, <2>2 DEF RequestInv
  <1>5. CASE ClearAfterAbort \/ SaveCheckpoint
    BY <1>0, <1>5 DEF RequestInv, ClearAfterAbort, SaveCheckpoint, workerVars, serverVars
  <1>6. CASE Serve
    BY <1>0, <1>6 DEF RequestInv, Serve, workerVars, serverVars
  <1>7. CASE BeginSleep
    BY <1>0, <1>7 DEF RequestInv, BeginSleep, InState, Pending, workerVars, serverVars
  <1>8. CASE Drain \/ EndSleep
    BY <1>0, <1>8 DEF RequestInv, Drain, EndSleep, workerVars, serverVars
  <1>9. CASE AbortAllRequests
    <2>1. \A q \in Requests : /\ request'[q].lora = request[q].lora
                              /\ request'[q].state \in Pending => request[q].state \in Pending
      BY <1>0, <1>9 DEF AbortAllRequests, Aborted, RequestsTyped, RequestStates, Pending
    <2>2. phase' = phase /\ engine' = engine
      BY <1>9 DEF AbortAllRequests, workerVars
    <2>. QED BY <1>0, <2>1, <2>2 DEF RequestInv
  <1>10. CASE WakeUp \/ UpdateActor
    <2>1. \A q \in Requests : request'[q] = request[q] \/ request'[q] = NoRequest
      BY <1>0, <1>10, ForgetTyped DEF WakeUp, UpdateActor
    <2>2. phase = "trainer"
      BY <1>10 DEF WakeUp, UpdateActor
    <2>. QED BY <1>0, <2>1, <2>2 DEF RequestInv, NoRequest, Pending
  <1>11. CASE Restart
    BY <1>11 DEF Restart, RequestInv, NoRequest, Pending
  <1>12. CASE UNCHANGED vars
    BY <1>0, <1>12 DEF vars, RequestInv, workerVars, serverVars
  <1>. QED
    BY <1>1, <1>2, <1>3, <1>4, <1>5, <1>6, <1>7, <1>8, <1>9, <1>10, <1>11, <1>12
       DEF Next, Proceed

\* Every reachable state is well typed: in particular nothing that is not a
\* version of the weights or a known absence of them is ever in an engine or
\* in the prefix cache.
THEOREM TypeCorrect == Spec => []TypeOK
  <1>1. TypeInv /\ [Next]_vars => TypeInv'
    BY TypeOKStep, RequestInvStep DEF TypeInv
  <1>2. TypeInv => TypeOK
    BY DEF TypeInv
  <1>. QED BY InitTypeInv, <1>1, <1>2, PTL DEF Spec

\* For the theorems below.
LEMMA AlwaysTyped == Spec => []TypeInv
  <1>1. TypeInv /\ [Next]_vars => TypeInv'
    BY TypeOKStep, RequestInvStep DEF TypeInv
  <1>. QED BY InitTypeInv, <1>1, PTL DEF Spec

-----------------------------------------------------------------------------
(***************************************************************************)
(* Where the workers are in each phase, what of the engine is in memory,   *)
(* and which random stream a worker draws from.                            *)
(***************************************************************************)
ModeInv ==
    /\ phase = "trainer" => \A w \in Workers : mode[w] = "trainer"
    /\ phase \in {"serving", "draining"} => \A w \in Workers : mode[w] = "rollout"

ResidentInv ==
    \A w \in Workers : mode[w] = "rollout" \/ ~ config.freeCache => resident[w] = All

StreamInv ==
    \A w \in Workers :
        /\ mode[w] = "trainer" => stream[w].now = "torch" /\ stream[w].gen # "torch"
        /\ mode[w] = "rollout" => stream[w].now # "torch" /\ stream[w].torch = "torch"

WorkerInv == ModeInv /\ ResidentInv /\ StreamInv

LEMMA InitWorkerInv == Init => WorkerInv
  BY DEF Init, Launched, WorkerInv, ModeInv, ResidentInv, StreamInv

LEMMA WorkerInvStep == TypeInv /\ WorkerInv /\ [Next]_vars => WorkerInv'
  <1>. SUFFICES ASSUME TypeInv, WorkerInv, [Next]_vars PROVE WorkerInv'
    OBVIOUS
  <1>0. WorkersTyped /\ ModeInv /\ ResidentInv /\ StreamInv
    BY TypeOKParts DEF TypeInv, WorkerInv
  <1>. SUFFICES ModeInv' /\ ResidentInv' /\ StreamInv'
    BY DEF WorkerInv
  <1>1. ASSUME NEW w \in Workers, RolloutMode(w)
        PROVE  ModeInv' /\ ResidentInv' /\ StreamInv'
    <2>1. mode \in [Workers -> {"trainer", "rollout"}] /\ stream \in [Workers -> Streams]
          /\ resident \in [Workers -> SUBSET All]
      BY <1>0 DEF WorkersTyped
    <2>2. ModeInv'
      BY <1>0, <1>1 DEF ModeInv, RolloutMode
    <2>3. ResidentInv'
      BY <1>0, <1>1, <2>1 DEF ResidentInv, RolloutMode, jobVars
    <2>4. StreamInv'
      BY <1>0, <1>1, <2>1 DEF StreamInv, RolloutMode, ToRollout, Streams
    <2>. QED BY <2>2, <2>3, <2>4
  <1>2. ASSUME NEW w \in Workers, TrainerMode(w)
        PROVE  ModeInv' /\ ResidentInv' /\ StreamInv'
    <2>1. mode \in [Workers -> {"trainer", "rollout"}] /\ stream \in [Workers -> Streams]
          /\ resident \in [Workers -> SUBSET All]
      BY <1>0 DEF WorkersTyped
    <2>2. ModeInv'
      BY <1>0, <1>2 DEF ModeInv, TrainerMode
    <2>3. ResidentInv'
      BY <1>0, <1>2, <2>1 DEF ResidentInv, TrainerMode, jobVars
    <2>4. StreamInv'
      BY <1>0, <1>2, <2>1 DEF StreamInv, TrainerMode, ToTrainer, Streams
    <2>. QED BY <2>2, <2>3, <2>4
  <1>3. ASSUME NEW r \in Requests, CheckLora(r) \/ Run(r) \/ Finish(r)
        PROVE  ModeInv' /\ ResidentInv' /\ StreamInv'
    BY <1>0, <1>3 DEF CheckLora, Run, Finish, workerVars, jobVars,
       ModeInv, ResidentInv, StreamInv
  <1>4. CASE ClearAfterAbort \/ AbortAllRequests \/ SaveCheckpoint
    BY <1>0, <1>4 DEF ClearAfterAbort, AbortAllRequests, SaveCheckpoint, workerVars,
       jobVars, ModeInv, ResidentInv, StreamInv
  <1>5. CASE Serve \/ BeginSleep \/ Drain \/ EndSleep
    BY <1>0, <1>5 DEF Serve, AllAwake, BeginSleep, Drain, EndSleep, workerVars, jobVars,
       ModeInv, ResidentInv, StreamInv
  <1>6. CASE WakeUp \/ UpdateActor
    BY <1>0, <1>6 DEF WakeUp, UpdateActor, workerVars, jobVars,
       ModeInv, ResidentInv, StreamInv
  <1>7. CASE Restart
    BY <1>7 DEF Restart, Launched, ModeInv, ResidentInv, StreamInv
  <1>8. CASE UNCHANGED vars
    BY <1>0, <1>8 DEF vars, workerVars, jobVars, ModeInv, ResidentInv, StreamInv
  <1>. QED
    BY <1>1, <1>2, <1>3, <1>4, <1>5, <1>6, <1>7, <1>8 DEF Next, Proceed

LEMMA AlwaysWorkerInv == Spec => [](TypeInv /\ WorkerInv)
  <1>1. TypeInv /\ WorkerInv /\ [Next]_vars => (TypeInv /\ WorkerInv)'
    BY TypeOKStep, RequestInvStep, WorkerInvStep DEF TypeInv
  <1>. QED BY InitTypeInv, InitWorkerInv, <1>1, PTL DEF Spec

\* The engine only runs while its weights and its cache are in GPU memory, for
\* every configuration, also with requests that were prepared before an abort.
THEOREM EngineIsAwake == Spec => []RunsAwake
  <1>1. TypeInv /\ WorkerInv => RunsAwake
    BY DEF TypeInv, RequestInv, Pending, WorkerInv, ModeInv, ResidentInv, RunsAwake,
           Running, InState
  <1>. QED BY AlwaysWorkerInv, <1>1, PTL

\* Training and generation never draw from the same random stream.
THEOREM StreamsNeverMix == Spec => []StreamsApart
  <1>1. TypeInv /\ WorkerInv => StreamsApart
    BY TypeOKParts DEF TypeInv, WorkersTyped, WorkerInv, StreamInv, StreamsApart
  <1>. QED BY AlwaysWorkerInv, <1>1, PTL

-----------------------------------------------------------------------------
(***************************************************************************)
(* The weights.  A job trains the base or the adapter, never both; with    *)
(* LoRA the base is in the engine from the launch on, and is kept through  *)
(* sleep or sent again.  So every switch to the rollout leaves the trained *)
(* weights in the engine, and nothing changes them until it sleeps.        *)
(***************************************************************************)
OneTrained ==
    /\ config.lora => trained.base = 0 /\ stored.base = 0
    /\ ~ config.lora => trained.adapter = 0 /\ stored.adapter = 0

BaseThere ==
    config.lora =>
        /\ \A w \in Workers : baseSyncDone[w]
        /\ \/ config.legacy /\ config.sleepLevel = 2
           \/ \A w \in Workers : engine[w].base = 0

InSync(w) ==
    /\ engine[w].base = trained.base
    /\ config.lora => engine[w].adapter = trained.adapter

EngineInv ==
    phase \in {"waking", "serving", "draining"} =>
        \A w \in Workers : mode[w] = "rollout" => InSync(w)

LoraInv ==
    \A r \in Requests : request[r].state \in Pending => request[r].lora = config.lora

CacheInv ==
    /\ phase \in {"trainer", "waking", "sleeping"} => prefixCache = {}
    /\ phase \in {"serving", "draining"} => prefixCache \subseteq {trained}

Invs == TypeInv /\ WorkerInv /\ KeepsInSync(config)
SyncInv == OneTrained /\ BaseThere /\ EngineInv /\ LoraInv /\ CacheInv

LEMMA InitSyncInv == Init /\ KeepsInSync(config) => SyncInv
  <1>. SUFFICES ASSUME Init, KeepsInSync(config) PROVE SyncInv
    OBVIOUS
  <1>1. OneTrained
    BY DEF Init, OneTrained
  <1>2. BaseThere
    BY DEF Init, Launched, BaseThere, KeepsInSync
  <1>3. EngineInv /\ LoraInv /\ CacheInv
    BY DEF Init, NoRequest, Pending, EngineInv, LoraInv, CacheInv
  <1>. QED BY <1>1, <1>2, <1>3 DEF SyncInv

LEMMA OneTrainedStep == Invs /\ SyncInv /\ [Next]_vars => OneTrained'
  <1>. SUFFICES ASSUME Invs, SyncInv, [Next]_vars PROVE OneTrained'
    OBVIOUS
  <1>0. OneTrained /\ RestTyped
    BY TypeOKParts DEF SyncInv, Invs, TypeInv
  <1>1. CASE UpdateActor
    BY <1>0, <1>1 DEF UpdateActor, OneTrained, RestTyped, Weights, jobVars
  <1>2. CASE SaveCheckpoint \/ Restart
    BY <1>0, <1>2 DEF SaveCheckpoint, Restart, OneTrained, jobVars
  <1>3. ASSUME UNCHANGED <<config, trained, stored>> PROVE OneTrained'
    BY <1>0, <1>3 DEF OneTrained
  <1>. QED
    BY <1>1, <1>2, <1>3 DEF Next, Proceed, vars, jobVars, RolloutMode, TrainerMode,
       CheckLora, Run, Finish, ClearAfterAbort, Serve, BeginSleep, Drain, EndSleep,
       AbortAllRequests, WakeUp

LEMMA BaseThereStep == Invs /\ SyncInv /\ [Next]_vars => BaseThere'
  <1>. SUFFICES ASSUME Invs, SyncInv, [Next]_vars PROVE BaseThere'
    OBVIOUS
  <1>0. BaseThere /\ OneTrained /\ KeepsInSync(config) /\ WorkersTyped /\ RestTyped
    BY TypeOKParts DEF SyncInv, Invs, TypeInv
  <1>1. ASSUME NEW w \in Workers, RolloutMode(w) PROVE BaseThere'
    <2>1. \A v \in Workers : /\ baseSyncDone[v] => baseSyncDone'[v]
                             /\ engine'[v].base \in {engine[v].base, trained.base}
      BY <1>0, <1>1 DEF RolloutMode, WorkersTyped, Engines
    <2>2. config' = config
      BY <1>1 DEF RolloutMode, jobVars
    <2>. QED BY <1>0, <2>1, <2>2 DEF BaseThere, OneTrained
  <1>2. ASSUME NEW w \in Workers, TrainerMode(w) PROVE BaseThere'
    <2>1. baseSyncDone' = baseSyncDone /\ config' = config
      BY <1>2 DEF TrainerMode, jobVars
    <2>2. CASE ~ config.lora \/ (config.legacy /\ config.sleepLevel = 2)
      BY <1>0, <2>1, <2>2 DEF BaseThere
    <2>3. CASE ~ config.freeCache
      BY <1>0, <1>2, <2>1, <2>3 DEF BaseThere, TrainerMode
    <2>4. CASE config.sleepLevel = 1
      <3>1. \A v \in Workers : engine'[v].base = engine[v].base
        BY <1>0, <1>2, <2>4 DEF TrainerMode, Kept, WorkersTyped, Engines
      <3>. QED BY <1>0, <2>1, <2>4, <3>1 DEF BaseThere
    <2>5. config.sleepLevel \in {1, 2}
      BY <1>0, EngineAssumption DEF EngineAssumption, RestTyped
    <2>. QED BY <1>0, <2>2, <2>3, <2>4, <2>5 DEF KeepsInSync
  <1>3. CASE Restart
    BY <1>0, <1>3 DEF Restart, Launched, BaseThere, KeepsInSync
  <1>4. ASSUME UNCHANGED <<config, baseSyncDone, engine>> PROVE BaseThere'
    BY <1>0, <1>4 DEF BaseThere
  <1>. QED
    BY <1>1, <1>2, <1>3, <1>4 DEF Next, Proceed, vars, jobVars, workerVars, CheckLora,
       Run, Finish, ClearAfterAbort, Serve, BeginSleep, Drain, EndSleep,
       AbortAllRequests, WakeUp, UpdateActor, SaveCheckpoint

LEMMA EngineInvStep == Invs /\ SyncInv /\ [Next]_vars => EngineInv'
  <1>. SUFFICES ASSUME Invs, SyncInv, [Next]_vars PROVE EngineInv'
    OBVIOUS
  <1>0. EngineInv /\ BaseThere /\ OneTrained /\ ModeInv /\ WorkersTyped
    BY TypeOKParts DEF SyncInv, Invs, TypeInv, WorkerInv
  <1>1. ASSUME NEW w \in Workers, RolloutMode(w) PROVE EngineInv'
    <2>1. UNCHANGED <<config, trained, phase>> /\ phase = "waking"
      BY <1>1 DEF RolloutMode, jobVars
    <2>2. \A v \in Workers \ {w} : mode'[v] = mode[v] /\ engine'[v] = engine[v]
      BY <1>0, <1>1 DEF RolloutMode, WorkersTyped, Engines
    <2>3. engine'[w].base = (IF SendsBase(w) THEN trained.base ELSE engine[w].base)
          /\ engine'[w].adapter = (IF SendsAdapter(w) THEN trained.adapter
                                                     ELSE engine[w].adapter)
      BY <1>0, <1>1 DEF RolloutMode, WorkersTyped, Engines
    <2>4. engine'[w].base = trained.base
      BY <1>0, <2>3 DEF SendsBase, BaseThere, OneTrained
    <2>5. config.lora => engine'[w].adapter = trained.adapter
      BY <1>0, <2>3 DEF SendsAdapter, BaseThere
    <2>. QED BY <1>0, <2>1, <2>2, <2>4, <2>5 DEF EngineInv, InSync
  <1>2. ASSUME NEW w \in Workers, TrainerMode(w) PROVE EngineInv'
    BY <1>2 DEF TrainerMode, EngineInv
  <1>3. CASE WakeUp \/ UpdateActor
    BY <1>0, <1>3 DEF WakeUp, UpdateActor, ModeInv, EngineInv, workerVars
  <1>4. CASE Serve \/ BeginSleep \/ Drain \/ EndSleep
    BY <1>0, <1>4 DEF Serve, BeginSleep, Drain, EndSleep, workerVars, jobVars,
       EngineInv, InSync
  <1>5. CASE Restart
    BY <1>5 DEF Restart, EngineInv
  <1>6. ASSUME UNCHANGED <<config, trained, phase, workerVars>> PROVE EngineInv'
    BY <1>0, <1>6 DEF EngineInv, InSync, workerVars
  <1>. QED
    BY <1>1, <1>2, <1>3, <1>4, <1>5, <1>6 DEF Next, Proceed, vars, jobVars,
       CheckLora, Run, Finish, ClearAfterAbort, AbortAllRequests, SaveCheckpoint

LEMMA LoraInvStep == Invs /\ SyncInv /\ [Next]_vars => LoraInv'
  <1>. SUFFICES ASSUME Invs, SyncInv, [Next]_vars PROVE LoraInv'
    OBVIOUS
  <1>0. LoraInv /\ EngineInv /\ ModeInv /\ RequestInv /\ WorkersTyped /\ RequestsTyped
        /\ RestTyped
    BY TypeOKParts DEF SyncInv, Invs, TypeInv, WorkerInv
  <1>1. ASSUME NEW r \in Requests, CheckLora(r) PROVE LoraInv'
    <2>1. UsesLora = config.lora
      <3>1. \A w \in Workers : config.lora => engine[w].adapter = trained.adapter
        BY <1>0, <1>1 DEF CheckLora, EngineInv, ModeInv, InSync
      <3>2. trained.adapter # Missing
        BY <1>0, EngineAssumption DEF EngineAssumption, RestTyped, Weights
      <3>3. config.lora \in BOOLEAN
        BY <1>0, EngineAssumption DEF EngineAssumption, RestTyped
      <3>. QED BY <3>1, <3>2, <3>3 DEF UsesLora
    <2>2. \A q \in Requests : request'[q] = IF q = r THEN [state |-> "checked", lora |-> UsesLora]
                                             ELSE request[q]
      BY <1>0, <1>1 DEF CheckLora, RequestsTyped
    <2>3. config' = config
      BY <1>1 DEF CheckLora, jobVars
    <2>. QED BY <1>0, <2>1, <2>2, <2>3 DEF LoraInv
  <1>2. ASSUME NEW r \in Requests, Run(r) \/ Finish(r) PROVE LoraInv'
    <2>1. \A q \in Requests : /\ request'[q].lora = request[q].lora
                              /\ request'[q].state \in Pending => request[q].state \in Pending
      BY <1>0, <1>2 DEF Run, Finish, RequestsTyped, RequestStates, Pending
    <2>2. config' = config
      BY <1>2 DEF Run, Finish, jobVars
    <2>. QED BY <1>0, <2>1, <2>2 DEF LoraInv
  <1>3. CASE AbortAllRequests
    <2>1. \A q \in Requests : /\ request'[q].lora = request[q].lora
                              /\ request'[q].state \in Pending => request[q].state \in Pending
      BY <1>0, <1>3 DEF AbortAllRequests, Aborted, RequestsTyped, RequestStates, Pending
    <2>2. config' = config
      BY <1>3 DEF AbortAllRequests, jobVars
    <2>. QED BY <1>0, <2>1, <2>2 DEF LoraInv
  <1>4. CASE WakeUp \/ UpdateActor
    <2>1. \A q \in Requests : request'[q] = request[q] \/ request'[q] = NoRequest
      BY <1>0, <1>4, ForgetTyped DEF WakeUp, UpdateActor
    <2>2. config' = config
      BY <1>4 DEF WakeUp, UpdateActor, jobVars
    <2>. QED BY <1>0, <2>1, <2>2 DEF LoraInv, NoRequest, Pending
  <1>5. CASE Restart
    BY <1>5 DEF Restart, LoraInv, NoRequest, Pending
  <1>6. ASSUME UNCHANGED <<config, request>> PROVE LoraInv'
    BY <1>0, <1>6 DEF LoraInv
  <1>. QED
    BY <1>1, <1>2, <1>3, <1>4, <1>5, <1>6 DEF Next, Proceed, vars, jobVars, serverVars,
       RolloutMode, TrainerMode, ClearAfterAbort, Serve, BeginSleep, Drain, EndSleep,
       SaveCheckpoint

\* What a running request is generated with.
LEMMA GeneratesTrained ==
    ASSUME Invs, SyncInv, NEW w \in Workers, NEW r \in Requests,
           request[r].state = "running"
    PROVE  Generated(w, r) = trained
  <1>1. phase = "serving" /\ mode[w] = "rollout" /\ request[r].lora = config.lora
    BY DEF Invs, TypeInv, RequestInv, Pending, WorkerInv, ModeInv, SyncInv, LoraInv
  <1>2. InSync(w)
    BY <1>1 DEF SyncInv, EngineInv
  <1>3. trained \in Weights /\ config.lora \in BOOLEAN
    BY EngineAssumption, TypeOKParts DEF EngineAssumption, Invs, TypeInv, RestTyped
  <1>4. trained = [base |-> trained.base, adapter |-> trained.adapter]
    BY <1>3 DEF Weights
  <1>5. CASE config.lora
    BY <1>1, <1>2, <1>4, <1>5 DEF Generated, InSync
  <1>6. CASE ~ config.lora
    <2>1. trained.adapter = 0
      BY <1>6 DEF SyncInv, OneTrained
    <2>. QED BY <1>1, <1>2, <1>4, <1>6, <2>1 DEF Generated, InSync
  <1>. QED BY <1>5, <1>6

LEMMA CacheInvStep == Invs /\ SyncInv /\ [Next]_vars => CacheInv'
  <1>. SUFFICES ASSUME Invs, SyncInv, [Next]_vars PROVE CacheInv'
    OBVIOUS
  <1>0. CacheInv /\ RequestInv
    BY DEF SyncInv, Invs, TypeInv
  <1>1. ASSUME NEW r \in Requests, Finish(r) PROVE CacheInv'
    <2>1. \A w \in Workers : Generated(w, r) = trained
      BY <1>1, GeneratesTrained DEF Finish
    <2>2. phase = "serving"
      BY <1>0, <1>1 DEF Finish, RequestInv, Pending
    <2>3. prefixCache' \subseteq prefixCache \cup {trained}
      BY <1>1, <2>1 DEF Finish
    <2>. QED BY <1>0, <1>1, <2>2, <2>3 DEF CacheInv, Finish
  <1>2. CASE ClearAfterAbort
    <2>1. prefixCache' = {} \/ prefixCache' = prefixCache
      BY <1>2 DEF ClearAfterAbort, ResetPrefixCache
    <2>. QED BY <1>0, <1>2, <2>1 DEF ClearAfterAbort, CacheInv
  <1>3. CASE Drain
    <2>1. prefixCache' = {}
      BY <1>3 DEF Drain, ResetPrefixCache
    <2>. QED BY <2>1 DEF CacheInv
  <1>4. CASE Serve \/ BeginSleep \/ EndSleep
    BY <1>0, <1>4 DEF Serve, BeginSleep, EndSleep, serverVars, CacheInv
  <1>5. CASE WakeUp \/ UpdateActor
    BY <1>0, <1>5 DEF WakeUp, UpdateActor, CacheInv
  <1>6. CASE Restart
    BY <1>6 DEF Restart, CacheInv
  <1>7. ASSUME UNCHANGED <<trained, phase, prefixCache>> PROVE CacheInv'
    BY <1>0, <1>7 DEF CacheInv
  <1>. QED
    BY <1>1, <1>2, <1>3, <1>4, <1>5, <1>6, <1>7 DEF Next, Proceed, vars, serverVars,
       RolloutMode, TrainerMode, CheckLora, Run, AbortAllRequests, SaveCheckpoint

LEMMA ConfigStays == [Next]_vars => config' = config
  BY DEF Next, Proceed, vars, jobVars, RolloutMode, TrainerMode, CheckLora, Run, Finish,
     ClearAfterAbort, Serve, BeginSleep, Drain, EndSleep, AbortAllRequests, WakeUp,
     UpdateActor, SaveCheckpoint, Restart

LEMMA InvsStep == Invs /\ [Next]_vars => Invs'
  <1>. SUFFICES ASSUME Invs, [Next]_vars PROVE Invs'
    OBVIOUS
  <1>1. TypeInv' /\ WorkerInv'
    BY TypeOKStep, RequestInvStep, WorkerInvStep DEF Invs, TypeInv
  <1>2. KeepsInSync(config')
    BY ConfigStays DEF Invs
  <1>. QED BY <1>1, <1>2 DEF Invs

LEMMA AlwaysInSync ==
    ASSUME \A c \in Configs : KeepsInSync(c)
    PROVE  Spec => [](Invs /\ SyncInv)
  <1>1. Init => Invs /\ SyncInv
    <2>. SUFFICES ASSUME Init PROVE Invs /\ SyncInv
      OBVIOUS
    <2>1. KeepsInSync(config)
      BY DEF Init
    <2>. QED BY <2>1, InitTypeInv, InitWorkerInv, InitSyncInv DEF Invs
  <1>2. Invs /\ SyncInv /\ [Next]_vars => (Invs /\ SyncInv)'
    BY InvsStep, OneTrainedStep, BaseThereStep, EngineInvStep, LoraInvStep, CacheInvStep
       DEF SyncInv
  <1>. QED BY <1>1, <1>2, PTL DEF Spec

\* The engine generates with exactly the weights that are trained, on every
\* worker, if the configuration is one in which every switch brings back what
\* the engine lacks.
THEOREM EngineIsOnPolicy ==
    ASSUME \A c \in Configs : KeepsInSync(c)
    PROVE  Spec => []OnPolicy
  <1>1. Invs /\ SyncInv => OnPolicy
    <2>. SUFFICES ASSUME Invs, SyncInv PROVE OnPolicy
      OBVIOUS
    <2>. QED BY GeneratesTrained DEF OnPolicy, Running, InState
  <1>. QED BY AlwaysInSync, <1>1, PTL

\* No request reuses the blocks that older weights left in the prefix cache.
THEOREM CacheStaysFresh ==
    ASSUME \A c \in Configs : KeepsInSync(c)
    PROVE  Spec => []CacheIsFresh
  <1>1. Invs /\ SyncInv => CacheIsFresh
    <2>. SUFFICES ASSUME Invs, SyncInv, Running # {} PROVE prefixCache \subseteq {trained}
      BY DEF CacheIsFresh
    <2>1. phase = "serving"
      BY DEF Running, InState, Invs, TypeInv, RequestInv, Pending
    <2>. QED BY <2>1 DEF SyncInv, CacheInv
  <1>. QED BY AlwaysInSync, <1>1, PTL

-----------------------------------------------------------------------------
(***************************************************************************)
(* ActivationOffload.                                                      *)
(***************************************************************************)

(***************************************************************************)
(* layer_window_map.                                                       *)
(***************************************************************************)

\* A division of layers into fewer groups has full groups, and a rest if each
\* group has one layer.
LEMMA Division ==
    ASSUME NEW n \in Nat, NEW k \in Nat, k >= 1, k < n
    PROVE  /\ n \div k \in Nat /\ n % k \in 0 .. k - 1
           /\ n = (n \div k) * k + (n % k)
           /\ n \div k >= 1
           /\ n \div k = 1 => n % k >= 1
<1>1. n \div k \in Nat /\ n % k \in 0 .. k - 1
  OBVIOUS
<1>2. n = (n \div k) * k + (n % k)
  OBVIOUS
<1>3. n \div k >= 1
  BY <1>1, <1>2
<1>4. n \div k = 1 => n % k >= 1
  BY <1>1, <1>2
<1>5. QED
  BY <1>1, <1>2, <1>3, <1>4

\* Each group of tensors leaves in a window of its own, after the layer behind
\* it; the last window is the last layer.
LEMMA Windows ==
    ASSUME setup \in OffloadConfigs
    PROVE  /\ setup.layers \in Nat /\ setup.groups \in 1 .. setup.layers - 1
           /\ \A g \in Groups : Window(g) \in Nat /\ Window(g) >= g + 1
           /\ \A g \in Groups : g + 1 \in Groups => Window(g) < Window(g + 1)
           /\ \A g \in Groups : Window(g) + (setup.groups - 1 - g) <= setup.layers - 1
           /\ Window(setup.groups - 1) = setup.layers - 1
<1> DEFINE n == setup.layers
           k == setup.groups
           q == n \div k
           r == n % k
<1>1. n \in Nat /\ k \in Nat /\ k >= 1 /\ k < n
  BY OffloadAssumption
<1>2. q \in Nat /\ r \in 0 .. k - 1 /\ n = q * k + r /\ q >= 1 /\ (q = 1 => r >= 1)
  BY <1>1, Division
<1>3. \A g \in Groups : g \in Nat /\ g < k
  BY <1>1 DEF Groups
<1>4. \A g \in Nat : Window(g) = q * (g + 1) - 1 + (IF g < r THEN g + 1 ELSE r)
  BY DEF Window
<1> HIDE DEF n, k, q, r
<1>5. ASSUME NEW g \in Nat
      PROVE  /\ Window(g) \in Nat /\ Window(g) >= g + 1
             /\ Window(g) < Window(g + 1)
  <2>1. q * (g + 1) \in Nat /\ (q = 1 => q * (g + 1) = g + 1)
    BY <1>2
  <2>2. q > 1 => q * (g + 1) >= (g + 1) + (g + 1)
    <3>1. q > 1 => q - 2 \in Nat /\ (q - 2) * (g + 1) \in Nat
      BY <1>2
    <3>2. q * (g + 1) = (q - 2) * (g + 1) + (g + 1) + (g + 1)
      BY <1>2
    <3>3. QED
      BY <2>1, <3>1, <3>2
  <2>3. q * ((g + 1) + 1) = q * (g + 1) + q
    BY <1>2
  <2>4. Window(g) = q * (g + 1) - 1 + (IF g < r THEN g + 1 ELSE r)
    BY <1>4
  <2>5. Window(g + 1) = q * ((g + 1) + 1) - 1 + (IF g + 1 < r THEN (g + 1) + 1 ELSE r)
    BY <1>4
  <2>6. QED
    BY <1>1, <1>2, <2>1, <2>2, <2>3, <2>4, <2>5
<1>6. Window(k - 1) = n - 1
  <2>1. Window(k - 1) = q * ((k - 1) + 1) - 1 + (IF k - 1 < r THEN (k - 1) + 1 ELSE r)
    BY <1>1, <1>4
  <2>2. (k - 1) + 1 = k /\ ~ (k - 1 < r)
    BY <1>1, <1>2
  <2>3. q * k \in Nat
    BY <1>1, <1>2
  <2>4. QED
    BY <1>1, <1>2, <2>1, <2>2, <2>3
<1>7. ASSUME NEW g \in Groups
      PROVE  Window(g) + (k - 1 - g) <= n - 1
  <2>1. g \in Nat /\ g < k /\ k - 1 - g \in Nat
    BY <1>1, <1>3
  <2>2. q * k = q * (g + 1) + q * (k - 1 - g) /\ q * (g + 1) \in Nat
    BY <1>1, <1>2, <2>1
  <2>3. q * (k - 1 - g) = (q - 1) * (k - 1 - g) + (k - 1 - g)
    BY <1>1, <1>2, <2>1
  <2>4. (q - 1) * (k - 1 - g) \in Nat
    BY <1>1, <1>2, <2>1
  <2>5. Window(g) = q * (g + 1) - 1 + (IF g < r THEN g + 1 ELSE r)
    BY <1>4, <2>1
  <2>6. QED
    BY <1>1, <1>2, <2>1, <2>2, <2>3, <2>4, <2>5
<1>8. setup.layers \in Nat /\ setup.groups \in 1 .. setup.layers - 1
  BY OffloadAssumption
<1>9. /\ Window(setup.groups - 1) = setup.layers - 1
      /\ \A g \in Groups : Window(g) + (setup.groups - 1 - g) <= setup.layers - 1
  BY <1>6, <1>7 DEF n, k
<1>10. QED
  BY <1>3, <1>5, <1>8, <1>9

-----------------------------------------------------------------------------
(***************************************************************************)
(* The inductive invariant.                                                *)
(***************************************************************************)

\* What holds of the state all along: a layer's tensors were saved in the group
\* of its number.
BaseInv ==
    /\ setup \in OffloadConfigs
    /\ layer \in Layers /\ passes \in Nat
    /\ tag \in [Layers -> Nat]
    /\ current \in Nat /\ offloaded \in 0 .. setup.groups
    /\ state = [g \in DOMAIN state |-> state[g]]
    /\ \A g \in DOMAIN state : state[g] = IF g \in mapping THEN "cpu" ELSE "tensor"
    /\ buffered \subseteq DOMAIN state

\* Going forward, the commits are counted with the layers, and the groups up to
\* the present window have been issued; only the present one may be under way,
\* and its buffer is there.
ForwardInv ==
    doing \in {"forward", "commit"} =>
        /\ current = layer
        /\ DOMAIN state = IF doing = "forward" THEN 0 .. layer - 1 ELSE 0 .. layer
        /\ \A k \in DOMAIN state : tag[k] = k
        /\ offloaded > 0 => Window(offloaded - 1) < current
        /\ offloaded \in Groups => Window(offloaded) >= current
        /\ mapping = IF current = 0 THEN {} ELSE {g \in Groups : g <= offloaded}
        /\ coming = {} /\ leaving \subseteq {offloaded} /\ (current = 0 => leaving = {})
        /\ \A g \in Groups \cap DOMAIN state : g >= offloaded => g \in buffered

\* A teacher commits when every group has left.
TeacherInv ==
    doing \in {"teacher", "failed"} =>
        /\ setup.teacher
        /\ offloaded = setup.groups /\ coming = {} /\ leaving = {}

\* Going backward, the groups before the present window are still to be
\* reloaded, and one reload may be under way: that of the window passed last.
Unloaded == Window(offloaded - 1) < current

BackwardInv ==
    doing = "backward" \/ (doing = "use" /\ current > 0) =>
        /\ offloaded >= 1
        /\ mapping = IF Unloaded THEN 0 .. offloaded - 1 ELSE {}
        /\ Unloaded \/ offloaded = 1
        /\ offloaded \in Groups => Window(offloaded) >= current
        /\ coming \subseteq (IF Unloaded THEN {offloaded} ELSE {0})

LayerInv ==
    doing \in {"backward", "use"} =>
        /\ current = IF doing = "use" THEN layer ELSE layer + 1
        /\ DOMAIN state = 0 .. layer
        /\ \A k \in Layers : tag[k] = k
        /\ leaving = {}

\* The first layer uses its tensors when everything is back.
FirstLayerInv ==
    doing = "use" /\ current = 0 => offloaded = 0 /\ mapping = {} /\ coming = {}

IInv ==
    /\ doing \in {"forward", "commit", "teacher", "backward", "use", "failed"}
    /\ BaseInv /\ ForwardInv /\ TeacherInv /\ BackwardInv /\ LayerInv /\ FirstLayerInv
-----------------------------------------------------------------------------
(***************************************************************************)
(* Every step preserves the inductive invariant.                           *)
(***************************************************************************)

\* Nothing is saved or issued before the first layer runs.
LEMMA InitInvariant == OffloadInit => IInv
<1> SUFFICES ASSUME OffloadInit PROVE IInv
  OBVIOUS
<1>1. setup \in OffloadConfigs /\ setup.layers \in Nat /\ setup.layers >= 2
      /\ setup.groups \in 1 .. setup.layers - 1
  BY OffloadAssumption DEF OffloadInit
<1>2. DOMAIN state = {} /\ state = [g \in DOMAIN state |-> state[g]]
  BY DEF OffloadInit, NoGroups
<1>3. layer \in Layers /\ tag \in [Layers -> Nat] /\ 0 .. 0 - 1 = {}
  BY <1>1 DEF OffloadInit, Layers
<1>4. BaseInv
  BY <1>1, <1>2, <1>3, OffloadAssumption DEF OffloadInit, BaseInv
<1>5. ForwardInv
  BY <1>1, <1>2, <1>3, Windows DEF OffloadInit, ForwardInv
<1>6. QED
  BY <1>4, <1>5 DEF OffloadInit, IInv, TeacherInv, BackwardInv, LayerInv, FirstLayerInv

\* The tensors of a layer are saved in the group of its number.
LEMMA PushKeeps ==
    ASSUME IInv, Push
    PROVE  IInv'
<1> USE DEF IInv, BaseInv, ForwardInv
<1>w. /\ setup.layers \in Nat /\ setup.groups \in 1 .. setup.layers - 1
      /\ \A g \in Groups : Window(g) \in Nat /\ Window(g) >= g + 1
  BY Windows
<1>1. /\ doing = "forward" /\ doing' = "commit" /\ current = layer
      /\ tag' = [tag EXCEPT ![layer] = current] /\ state' = Saved(current)
      /\ buffered' = IF current \in Groups THEN buffered \cup {current} ELSE buffered
      /\ UNCHANGED <<setup, layer, passes, current, offloaded, mapping, leaving, coming>>
  BY DEF Push
<1>2. layer \in 0 .. setup.layers - 1 /\ Layers' = Layers /\ Groups' = Groups
  BY <1>1 DEF Layers, Groups
<1>3. /\ DOMAIN state = 0 .. layer - 1 /\ DOMAIN state' = 0 .. layer
      /\ \A h \in 0 .. layer : state'[h] = IF h = layer THEN "tensor" ELSE state[h]
  BY <1>1, <1>2, <1>w DEF Saved
<1>4. current \notin mapping
  <2>1. SUFFICES ASSUME current > 0, current \in Groups, current <= offloaded
                 PROVE  FALSE
    BY <1>1
  <2>2. offloaded >= 1 /\ offloaded - 1 \in Groups /\ Window(offloaded - 1) < current
    BY <1>1, <1>w, <2>1 DEF Groups
  <2>3. QED
    BY <1>w, <2>1, <2>2
<1>5. BaseInv'
  <2>1. state' = [g \in DOMAIN state' |-> state'[g]]
    BY <1>1 DEF Saved
  <2>2. \A g \in DOMAIN state' : state'[g] = IF g \in mapping THEN "cpu" ELSE "tensor"
    BY <1>1, <1>3, <1>4, <1>2
  <2>3. tag' \in [Layers -> Nat] /\ buffered' \subseteq DOMAIN state'
    BY <1>1, <1>2, <1>3
  <2>4. QED
    BY <1>1, <1>2, <2>1, <2>2, <2>3
<1>6. ForwardInv'
  <2>1. \A k \in DOMAIN state' : tag'[k] = k
    BY <1>1, <1>2, <1>3 DEF Layers
  <2>2. \A g \in Groups \cap DOMAIN state' : g >= offloaded => g \in buffered'
    BY <1>1, <1>2, <1>3
  <2>3. /\ offloaded > 0 => (Window(offloaded - 1) < current)'
        /\ offloaded \in Groups => (Window(offloaded) >= current)'
    BY <1>1 DEF Window
  <2>4. QED
    BY <1>1, <1>2, <1>3, <2>1, <2>2, <2>3
<1>7. QED
  BY <1>1, <1>5, <1>6 DEF TeacherInv, BackwardInv, LayerInv, FirstLayerInv

\* A commit issues the copy of the next group at the end of a window and waits
\* for that of the present one; at the last layer every group has left.
LEMMA CommitKeeps ==
    ASSUME IInv, Commit
    PROVE  IInv'
<1> USE DEF IInv, BaseInv, ForwardInv
<1>w. /\ setup.layers \in Nat /\ setup.groups \in 1 .. setup.layers - 1
      /\ \A g \in Groups : Window(g) \in Nat /\ Window(g) >= g + 1
      /\ \A g \in Groups : g + 1 \in Groups => Window(g) < Window(g + 1)
      /\ \A g \in Groups : Window(g) + (setup.groups - 1 - g) <= setup.layers - 1
      /\ Window(setup.groups - 1) = setup.layers - 1
  BY Windows
<1>g. /\ \A g : g \in Groups <=> g \in 0 .. setup.groups - 1
      /\ layer \in 0 .. setup.layers - 1
      /\ layer \in Nat /\ setup.layers \in Nat /\ offloaded \in Nat /\ setup.groups \in Nat
  BY <1>w DEF Groups, Layers
<1>1. /\ doing \in {"commit", "teacher"} /\ offloaded \in Groups
      /\ state' = Offloaded(KickOff \cup (IF AtWindow THEN NextOffload ELSE {}))
      /\ mapping' = mapping \cup KickOff \cup (IF AtWindow THEN NextOffload ELSE {})
      /\ leaving' = IF AtWindow THEN NextOffload
                                ELSE leaving \cup KickOff
      /\ buffered' = Freed
      /\ offloaded' = IF AtWindow THEN offloaded + 1 ELSE offloaded
      /\ current' = current + 1
      /\ UNCHANGED <<setup, passes, tag, coming>>
  BY DEF Commit, CommitForward
<1>2. doing = "commit" /\ current = layer
  BY <1>1, <1>g, <1>w DEF TeacherInv
<1>3. /\ Layers' = Layers /\ Groups' = Groups
      /\ \A g : Window(g)' = Window(g)
  BY <1>1 DEF Layers, Groups, Window
<1>4. DOMAIN state = 0 .. layer /\ DOMAIN state' = 0 .. layer
  BY <1>1, <1>2 DEF Offloaded
<1>5. AtWindow <=> Window(offloaded) = current
  BY <1>1 DEF AtWindow
<1>6. mapping' = {g \in Groups : g <= offloaded'}
  <2>1. mapping \cup KickOff = {g \in Groups : g <= offloaded}
    <3>1. CASE current = 0
      <4>1. offloaded = 0
        BY <1>2, <1>g, <1>w, <3>1
      <4>2. QED
        BY <1>2, <1>g, <1>w, <3>1, <4>1 DEF KickOff
    <3>2. CASE current # 0
      BY <1>2, <3>2 DEF KickOff
    <3>3. QED
      BY <3>1, <3>2
  <2>2. CASE AtWindow
    <3>1. NextOffload = {g \in Groups : g = offloaded + 1}
      BY <1>1, <1>g DEF NextOffload
    <3>2. mapping' = {g \in Groups : g <= offloaded} \cup {g \in Groups : g = offloaded + 1}
      BY <1>1, <2>1, <2>2, <3>1
    <3>3. \A g \in Groups : g <= offloaded \/ g = offloaded + 1 <=> g <= offloaded + 1
      BY <1>g
    <3>4. offloaded' = offloaded + 1
      BY <1>1, <2>2
    <3>5. QED
      BY <3>2, <3>3, <3>4
  <2>3. CASE ~ AtWindow
    BY <1>1, <2>1, <2>3
  <2>4. QED
    BY <2>2, <2>3
<1>7. \A g \in DOMAIN state' : state'[g] = IF g \in mapping' THEN "cpu" ELSE "tensor"
  BY <1>1, <1>4 DEF Offloaded
<1>8. leaving' \subseteq {offloaded'}
  <2>1. CASE AtWindow
    BY <1>1, <2>1 DEF NextOffload
  <2>2. CASE ~ AtWindow
    <3>1. current = 0 => offloaded = 0
      BY <1>2, <1>g, <1>w
    <3>2. QED
      BY <1>1, <1>2, <2>2, <3>1 DEF KickOff
  <2>3. QED
    BY <2>1, <2>2
<1>9. \A g \in Groups \cap DOMAIN state' : g >= offloaded' => g \in buffered'
  BY <1>1, <1>2, <1>4, <1>g DEF Freed
<1>10. /\ offloaded' > 0 => Window(offloaded' - 1) < current'
       /\ offloaded' \in Groups => Window(offloaded') >= current'
  <2>1. CASE AtWindow
    <3>1. offloaded' = offloaded + 1 /\ Window(offloaded) = current /\ offloaded' - 1 = offloaded
      BY <1>1, <1>5, <1>g, <1>w, <2>1
    <3>2. offloaded' \in Groups => Window(offloaded) < Window(offloaded')
      BY <1>1, <1>w, <3>1
    <3>3. QED
      BY <1>1, <1>w, <3>1, <3>2
  <2>2. CASE ~ AtWindow
    <3>1. offloaded' = offloaded /\ Window(offloaded) >= current /\ Window(offloaded) # current
      BY <1>1, <1>2, <1>5, <2>2
    <3>2. offloaded > 0 => Window(offloaded - 1) < current
      BY <1>2
    <3>3. offloaded > 0 => offloaded - 1 \in Groups
      BY <1>1, <1>g
    <3>4. offloaded > 0 => Window(offloaded - 1) \in Nat
      BY <1>w, <3>3
    <3>5. Window(offloaded) \in Nat /\ current \in Nat
      BY <1>1, <1>w
    <3>6. QED
      BY <1>1, <3>1, <3>2, <3>4, <3>5
  <2>3. QED
    BY <2>1, <2>2
<1>11. state' = [g \in DOMAIN state' |-> state'[g]] /\ buffered' \subseteq DOMAIN state'
  BY <1>1, <1>4 DEF Offloaded, Freed
<1>12. offloaded' \in 0 .. setup.groups /\ current' \in Nat /\ current' = layer + 1
  BY <1>1, <1>2, <1>g, <1>w
<1>13. CASE layer < setup.layers - 1
  <2>1. layer' = layer + 1 /\ doing' = "forward"
    BY <1>2, <1>13 DEF Commit
  <2>2. layer' \in Layers /\ layer' - 1 = layer
    <3>1. layer + 1 \in 0 .. setup.layers - 1 /\ (layer + 1) - 1 = layer
      BY <1>g, <1>13
    <3>2. QED
      BY <2>1, <3>1 DEF Layers
  <2>3. BaseInv'
    BY <1>1, <1>3, <1>7, <1>11, <1>12, <2>2
  <2>4. ForwardInv'
    <3>1. current' # 0 /\ current' = layer'
      BY <1>12, <1>g, <2>1
    <3>2. QED
      BY <1>1, <1>2, <1>3, <1>4, <1>6, <1>8, <1>9, <1>10, <2>1, <2>2, <3>1
  <2>5. QED
    BY <2>1, <2>3, <2>4 DEF TeacherInv, BackwardInv, LayerInv, FirstLayerInv
<1>14. CASE ~ (layer < setup.layers - 1)
  <2>1. layer = setup.layers - 1 /\ current' = setup.layers
    <3>1. layer = setup.layers - 1
      BY <1>14, <1>g
    <3>2. QED
      BY <1>12, <1>g, <3>1
  <2>2. offloaded' = setup.groups
    <3>1. Window(offloaded) >= setup.layers - 1
      BY <1>1, <1>2, <2>1
    <3>2. offloaded = setup.groups - 1
      <4>1. /\ offloaded \in 0 .. setup.groups - 1 /\ Window(offloaded) \in Nat
            /\ Window(offloaded) + (setup.groups - 1 - offloaded) <= setup.layers - 1
        BY <1>1, <1>g, <1>w
      <4>2. QED
        BY <1>g, <3>1, <4>1
    <3>3. QED
      BY <1>1, <1>2, <1>5, <1>w, <2>1, <3>2
  <2>3. mapping' = 0 .. setup.groups - 1
    BY <1>6, <1>g, <1>w, <2>2
  <2>4. leaving' = {}
    <3>1. AtWindow
      BY <1>1, <1>g, <1>w, <2>2
    <3>2. offloaded' = offloaded + 1
      BY <1>1, <3>1
    <3>3. ~ (offloaded < setup.groups - 1)
      BY <1>g, <2>2, <3>2
    <3>4. QED
      BY <1>1, <3>1, <3>3 DEF NextOffload
  <2>5. /\ doing' = IF setup.teacher THEN "teacher" ELSE "backward"
        /\ layer' = IF setup.teacher THEN 0 ELSE layer
    BY <1>2, <1>14 DEF Commit, AfterForward
  <2>6. layer' \in Layers
    BY <1>g, <1>w, <2>5 DEF Layers
  <2>7. BaseInv'
    BY <1>1, <1>3, <1>7, <1>11, <1>12, <2>6
  <2>8. TeacherInv'
    BY <1>1, <1>2, <2>2, <2>4, <2>5 DEF TeacherInv
  <2>9. LayerInv'
    BY <1>1, <1>2, <1>3, <1>4, <2>1, <2>4, <2>5, <1>12 DEF LayerInv, Layers
  <2>10. BackwardInv'
    <3>1. Unloaded' <=> Window(offloaded' - 1) < current'
      BY <1>1 DEF Unloaded, Window
    <3>2. Unloaded' /\ offloaded' \notin Groups' /\ offloaded' >= 1
      BY <1>3, <1>g, <1>w, <2>1, <2>2, <3>1
    <3>3. coming' = {} /\ mapping' = 0 .. offloaded' - 1
      BY <1>1, <1>2, <2>2, <2>3
    <3>4. QED
      BY <3>2, <3>3 DEF BackwardInv
  <2>11. QED
    BY <2>5, <2>7, <2>8, <2>9, <2>10 DEF FirstLayerInv
<1>15. QED
  BY <1>13, <1>14

\* A window is only missing for a teacher, which commits after the last one.
LEMMA WindowMissingKeeps ==
    ASSUME IInv, WindowMissing
    PROVE  IInv'
<1> USE DEF IInv, BaseInv, ForwardInv
<1>w. /\ setup.layers \in Nat /\ setup.groups \in 1 .. setup.layers - 1
      /\ \A g \in Groups : Window(g) \in Nat /\ Window(g) >= g + 1
      /\ Window(setup.groups - 1) = setup.layers - 1
  BY Windows
<1>1. /\ doing \in {"commit", "teacher"} /\ offloaded \notin Groups /\ doing' = "failed"
      /\ UNCHANGED <<setup, layer, passes, tag, current, offloaded, state, buffered,
                     mapping, leaving, coming>>
  BY DEF WindowMissing, handler
<1>2. doing = "teacher"
  <2>1. SUFFICES ASSUME doing = "commit" PROVE FALSE
    BY <1>1
  <2>2. offloaded = setup.groups /\ offloaded > 0
    BY <1>1, <1>w DEF Groups
  <2>3. Window(setup.groups - 1) < layer
    BY <2>1, <2>2
  <2>4. layer \in 0 .. setup.layers - 1
    BY DEF Layers
  <2>5. QED
    BY <1>w, <2>3, <2>4
<1>3. BaseInv'
  BY <1>1 DEF Layers
<1>4. TeacherInv'
  BY <1>1, <1>2 DEF TeacherInv
<1>5. QED
  BY <1>1, <1>3, <1>4 DEF BackwardInv, LayerInv, FirstLayerInv

\* A reload is issued a window ahead of its group, and the last one issued has
\* been waited for by the time its group is used.
LEMMA CommitBackwardKeeps ==
    ASSUME IInv, CommitBackward
    PROVE  IInv'
<1> USE DEF IInv
<1>w. /\ setup.layers \in Nat /\ setup.groups \in 1 .. setup.layers - 1
      /\ \A g \in Groups : Window(g) \in Nat /\ Window(g) >= g + 1
      /\ \A g \in Groups : g + 1 \in Groups => Window(g) < Window(g + 1)
  BY Windows DEF BaseInv
<1> DEFINE now == current - 1
           reloads == Window(offloaded - 1) = now
<1>1. /\ doing = "backward" /\ doing' = "use" /\ current > 0 /\ offloaded > 0
      /\ current' = now
      /\ state' = IF reloads THEN Reloaded(offloaded - 1) ELSE state
      /\ mapping' = IF reloads THEN mapping \ {offloaded - 1} ELSE mapping
      /\ coming' = StillComing(reloads, now) /\ offloaded' = CountAfter(reloads, now)
      /\ UNCHANGED <<setup, layer, passes, tag, buffered, leaving>>
  BY DEF CommitBackward
<1>2. /\ current = layer + 1 /\ DOMAIN state = 0 .. layer
      /\ \A k \in Layers : tag[k] = k
      /\ leaving = {}
  BY <1>1 DEF LayerInv
<1>3. /\ offloaded >= 1
      /\ mapping = IF Unloaded THEN 0 .. offloaded - 1 ELSE {}
      /\ Unloaded \/ offloaded = 1
      /\ offloaded \in Groups => Window(offloaded) >= current
      /\ coming \subseteq (IF Unloaded THEN {offloaded} ELSE {0})
  BY <1>1 DEF BackwardInv
<1>4. /\ layer \in Nat /\ offloaded \in Nat /\ now \in Nat /\ now = layer
      /\ offloaded \in 0 .. setup.groups /\ setup.groups \in Nat
      /\ \A g : g \in Groups <=> g \in 0 .. setup.groups - 1
  BY <1>2, <1>w DEF BaseInv, Layers, Groups
<1>5. /\ offloaded - 1 \in Groups /\ Window(offloaded - 1) \in Nat /\ Window(offloaded - 1) >= offloaded
  <2>1. offloaded - 1 \in Groups
    BY <1>3, <1>4
  <2>2. QED
    BY <1>4, <1>w, <2>1
<1>6. /\ Layers' = Layers /\ Groups' = Groups
      /\ \A g : Window(g)' = Window(g)
  BY <1>1 DEF Layers, Groups, Window
<1>7. /\ DOMAIN state' = 0 .. layer
      /\ state' = [g \in DOMAIN state' |-> state'[g]]
      /\ \A g \in DOMAIN state' : state'[g] = IF g \in mapping' THEN "cpu" ELSE "tensor"
  <2>1. /\ \A g \in DOMAIN state : state[g] = IF g \in mapping THEN "cpu" ELSE "tensor"
        /\ state = [g \in DOMAIN state |-> state[g]]
    BY DEF BaseInv
  <2>2. CASE reloads
    <3>1. state' = [h \in 0 .. layer |->
                       IF h = offloaded - 1 /\ state[h] = "cpu" THEN "tensor" ELSE state[h]]
      BY <1>1, <1>2, <2>2 DEF Reloaded
    <3>2. mapping' = mapping \ {offloaded - 1}
      BY <1>1, <2>2
    <3>3. QED
      BY <1>2, <2>1, <3>1, <3>2
  <2>3. CASE ~ reloads
    BY <1>1, <1>2, <2>1, <2>3
  <2>4. QED
    BY <2>2, <2>3
<1>8. now = 0 => offloaded' = 0 /\ mapping' = {} /\ coming' = {}
  <2>1. SUFFICES ASSUME now = 0 PROVE offloaded' = 0 /\ mapping' = {} /\ coming' = {}
    OBVIOUS
  <2>2. current = 1 /\ ~ Unloaded /\ mapping = {}
    BY <1>3, <1>4, <1>5, <2>1 DEF Unloaded
  <2>3. QED
    BY <1>1, <2>1, <2>2 DEF CountAfter, StillComing
<1>9. now > 0 => BackwardInv'
  <2>1. SUFFICES ASSUME now > 0 PROVE BackwardInv'
    OBVIOUS
  <2>u. Unloaded' <=> Window(offloaded' - 1) < now
    BY <1>1 DEF Unloaded, Window
  <2>2. CASE reloads /\ offloaded > 1
    <3>1. offloaded' = offloaded - 1 /\ coming' = {offloaded - 1} /\ offloaded' >= 1 /\ offloaded' \in Nat
      BY <1>1, <1>4, <2>1, <2>2 DEF CountAfter, StillComing
    <3>2. offloaded - 2 \in Groups /\ (offloaded - 2) + 1 = offloaded - 1
      BY <1>4, <2>2
    <3>3. Window(offloaded - 2) < Window(offloaded - 1)
      BY <1>5, <1>w, <3>2
    <3>4. Unloaded
      BY <1>3, <2>2, <1>4
    <3>5. mapping' = 0 .. offloaded' - 1
      <4>1. mapping' = (0 .. offloaded - 1) \ {offloaded - 1}
        BY <1>1, <1>3, <2>2, <3>4
      <4>2. (0 .. offloaded - 1) \ {offloaded - 1} = 0 .. (offloaded - 1) - 1
        BY <1>4, <2>2
      <4>3. QED
        BY <3>1, <4>1, <4>2
    <3>6. offloaded' - 1 = offloaded - 2
      BY <1>4, <3>1
    <3>7. Unloaded'
      BY <2>2, <2>u, <3>3, <3>6
    <3>8. Window(offloaded') = now
      BY <2>2, <3>1
    <3>9. (Window(offloaded') >= current') /\ now >= now
      BY <1>1, <1>4, <3>8
    <3>10. QED
      BY <1>6, <3>1, <3>5, <3>7, <3>9 DEF BackwardInv
  <2>3. CASE reloads /\ ~ (offloaded > 1)
    <3>1. offloaded = 1 /\ offloaded' = 1 /\ coming' = {0}
      BY <1>1, <1>3, <1>4, <2>1, <2>3 DEF CountAfter, StillComing
    <3>2. mapping' = {}
      <4>1. mapping \subseteq {0}
        BY <1>3, <3>1
      <4>2. QED
        BY <1>1, <2>3, <3>1, <4>1
    <3>3. ~ Unloaded'
      BY <1>4, <2>3, <2>u, <3>1
    <3>4. offloaded' \in Groups => (Window(offloaded') >= current')
      <4>1. 1 \in Groups => Window(0) < Window(1)
        BY <1>5, <1>w, <3>1
      <4>2. 1 \in Groups => Window(1) \in Nat /\ Window(0) = now
        BY <1>w, <2>3, <3>1
      <4>3. QED
        BY <1>1, <1>4, <3>1, <4>1, <4>2
    <3>5. QED
      BY <1>6, <3>1, <3>2, <3>3, <3>4 DEF BackwardInv
  <2>4. CASE ~ reloads
    <3>1. offloaded' = offloaded /\ coming' = coming /\ mapping' = mapping
      BY <1>1, <2>1, <2>4 DEF CountAfter, StillComing
    <3>2. Unloaded' <=> Unloaded
      <4>1. Unloaded <=> Window(offloaded - 1) < now + 1
        BY <1>2, <1>4 DEF Unloaded
      <4>2. QED
        BY <1>4, <1>5, <2>4, <2>u, <3>1, <4>1
    <3>3. offloaded \in Groups => Window(offloaded) >= now
      <4>1. offloaded \in Groups => Window(offloaded) \in Nat /\ Window(offloaded) >= now + 1
        BY <1>2, <1>3, <1>4, <1>w
      <4>2. QED
        BY <1>4, <4>1
    <3>4. QED
      BY <1>1, <1>3, <1>6, <3>1, <3>2, <3>3 DEF BackwardInv
  <2>5. QED
    BY <2>2, <2>3, <2>4
<1>10. offloaded' \in 0 .. setup.groups
  BY <1>1, <1>3, <1>4 DEF CountAfter
<1>11. BaseInv'
  BY <1>1, <1>2, <1>4, <1>6, <1>7, <1>10 DEF BaseInv
<1>12. LayerInv'
  BY <1>1, <1>2, <1>4, <1>6, <1>7 DEF LayerInv
<1>13. BackwardInv' /\ FirstLayerInv'
  BY <1>1, <1>4, <1>8, <1>9 DEF BackwardInv, FirstLayerInv
<1>14. QED
  BY <1>1, <1>11, <1>12, <1>13 DEF ForwardInv, TeacherInv

\* After its tensors are used a layer leaves nothing, and the first one nothing
\* of the pass.
LEMMA PopKeeps ==
    ASSUME IInv, Pop
    PROVE  IInv'
<1> USE DEF IInv
<1>w. /\ setup.layers \in Nat /\ setup.groups \in 1 .. setup.layers - 1
      /\ \A g \in Groups : Window(g) \in Nat /\ Window(g) >= g + 1
  BY Windows DEF BaseInv
<1>1. /\ doing = "use" /\ current = layer /\ DOMAIN state = 0 .. layer /\ leaving = {}
      /\ \A k \in Layers : tag[k] = k
      /\ layer \in Layers /\ layer \in Nat /\ passes \in Nat
  BY <1>w DEF Pop, LayerInv, BaseInv, Layers
<1>2. /\ state' = [g \in (0 .. layer) \ {layer} |-> state[g]]
      /\ buffered' = buffered \ {layer}
      /\ UNCHANGED <<setup, tag, current, offloaded, mapping, leaving, coming>>
      /\ IF layer > 0
         THEN layer' = layer - 1 /\ doing' = "backward" /\ UNCHANGED passes
         ELSE layer' = 0 /\ doing' = "forward" /\ passes' = passes + 1
  BY <1>1 DEF Pop
<1>3. /\ Layers' = Layers /\ Groups' = Groups
      /\ \A g : Window(g)' = Window(g)
  BY <1>2 DEF Layers, Groups, Window
<1>4. DOMAIN state' = 0 .. layer - 1
  BY <1>1, <1>2
<1>5. BaseInv'
  <2>1. layer' \in Layers /\ passes' \in Nat
    <3>1. layer <= setup.layers - 1 /\ layer' \in 0 .. layer
      BY <1>1, <1>2, <1>w DEF Layers
    <3>2. passes' \in {passes, passes + 1}
      BY <1>2
    <3>3. QED
      BY <1>1, <1>w, <3>1, <3>2 DEF Layers
  <2>2. state' = [g \in DOMAIN state' |-> state'[g]]
    BY <1>2
  <2>3. \A g \in DOMAIN state' : state'[g] = IF g \in mapping' THEN "cpu" ELSE "tensor"
    BY <1>1, <1>2 DEF BaseInv
  <2>4. buffered' \subseteq DOMAIN state'
    BY <1>1, <1>2 DEF BaseInv
  <2>5. QED
    BY <1>2, <1>3, <2>1, <2>2, <2>3, <2>4 DEF BaseInv
<1>6. CASE layer > 0
  <2>1. layer' = layer - 1 /\ doing' = "backward" /\ current' = layer' + 1
    BY <1>1, <1>2, <1>6
  <2>2. LayerInv'
    BY <1>1, <1>2, <1>3, <1>4, <2>1 DEF LayerInv
  <2>3. BackwardInv
    OBVIOUS
  <2>4. BackwardInv'
    BY <1>1, <1>2, <1>3, <1>6, <2>1, <2>3 DEF BackwardInv, Unloaded, Window
  <2>5. QED
    BY <1>5, <2>1, <2>2, <2>4 DEF ForwardInv, TeacherInv, FirstLayerInv
<1>7. CASE ~ (layer > 0)
  <2>1. layer = 0 /\ layer' = 0 /\ doing' = "forward" /\ current = 0
    BY <1>1, <1>2, <1>7
  <2>2. offloaded = 0 /\ mapping = {} /\ coming = {}
    BY <1>1, <2>1 DEF FirstLayerInv
  <2>3. 0 \in Groups => Window(0) >= 0
    BY <1>w
  <2>4. DOMAIN state' = {} /\ 0 .. layer' - 1 = {}
    BY <1>4, <2>1
  <2>5. ForwardInv'
    BY <1>1, <1>2, <1>3, <2>1, <2>2, <2>3, <2>4 DEF ForwardInv
  <2>6. QED
    BY <1>5, <2>1, <2>5 DEF TeacherInv, BackwardInv, LayerInv, FirstLayerInv
<1>8. QED
  BY <1>6, <1>7

\* Every step, and stuttering, preserves the invariant.
LEMMA NextInvariant == IInv /\ [OffloadNext]_offloadVars => IInv'
<1> SUFFICES ASSUME IInv, [OffloadNext]_offloadVars PROVE IInv'
  OBVIOUS
<1>1. CASE UNCHANGED offloadVars
  BY <1>1 DEF offloadVars, handler, IInv, BaseInv, ForwardInv, TeacherInv, BackwardInv, LayerInv,
              FirstLayerInv, Unloaded, Window, Layers, Groups
<1>2. CASE OffloadEnds
  BY <1>1, <1>2 DEF OffloadEnds
<1>3. QED
  BY <1>1, <1>2, PushKeeps, CommitKeeps, WindowMissingKeeps, CommitBackwardKeeps, PopKeeps
     DEF OffloadNext

-----------------------------------------------------------------------------
(***************************************************************************)
(* The theorem.                                                            *)
(***************************************************************************)

\* What a layer uses is there, and no buffer is freed under a copy.
LEMMA IsUsedWhenThere == IInv => UsedWhenThere
<1> SUFFICES ASSUME IInv PROVE UsedWhenThere
  OBVIOUS
<1> USE DEF IInv
<1>w. /\ setup.layers \in Nat /\ setup.groups \in 1 .. setup.layers - 1
      /\ \A g \in Groups : Window(g) \in Nat /\ Window(g) >= g + 1
  BY Windows DEF BaseInv
<1>1. ASSUME doing = "use"
      PROVE  /\ tag[layer] \in DOMAIN state /\ state[tag[layer]] = "tensor"
             /\ tag[layer] \notin coming
             /\ \A k \in Layers : tag[k] = tag[layer] => k = layer
  <2>1. /\ current = layer /\ DOMAIN state = 0 .. layer
        /\ \A k \in Layers : tag[k] = k
        /\ layer \in Layers /\ layer \in Nat
    BY <1>1, <1>w DEF LayerInv, BaseInv, Layers
  <2>2. tag[layer] = layer /\ layer \in DOMAIN state
    BY <2>1
  <2>3. layer \notin mapping /\ layer \notin coming
    <3>1. CASE current = 0
      BY <1>1, <3>1 DEF FirstLayerInv
    <3>2. CASE current # 0
      <4>1. /\ offloaded >= 1 /\ offloaded \in Nat /\ offloaded - 1 \in Groups
            /\ mapping = IF Unloaded THEN 0 .. offloaded - 1 ELSE {}
            /\ coming \subseteq (IF Unloaded THEN {offloaded} ELSE {0})
        BY <1>1, <1>w, <2>1, <3>2 DEF BackwardInv, BaseInv, Groups
      <4>2. Unloaded => offloaded < layer
        <5>1. Window(offloaded - 1) \in Nat /\ Window(offloaded - 1) >= (offloaded - 1) + 1
          BY <1>w, <4>1
        <5>2. QED
          BY <2>1, <4>1, <5>1 DEF Unloaded
      <4>3. CASE Unloaded
        BY <2>1, <4>1, <4>2, <4>3
      <4>4. CASE ~ Unloaded
        BY <2>1, <3>2, <4>1, <4>4
      <4>5. QED
        BY <4>3, <4>4
    <3>3. QED
      BY <3>1, <3>2
  <2>4. state[layer] = "tensor"
    BY <2>2, <2>3 DEF BaseInv
  <2>5. QED
    BY <2>1, <2>2, <2>3, <2>4
<1>2. ASSUME NEW g \in DOMAIN state, state[g] = "cpu", g \notin buffered
      PROVE  g \notin leaving
  <2>1. CASE doing \in {"forward", "commit"}
    <3>1. g \in mapping
      BY <1>2 DEF BaseInv
    <3>2. g \in Groups /\ g <= offloaded
      BY <2>1, <3>1 DEF ForwardInv
    <3>3. leaving \subseteq {offloaded} /\ ~ (g >= offloaded)
      BY <1>2, <2>1, <3>2 DEF ForwardInv
    <3>4. g # offloaded
      BY <3>3, <1>w DEF BaseInv
    <3>5. QED
      BY <3>3, <3>4
  <2>2. CASE doing \notin {"forward", "commit"}
    BY <2>2 DEF TeacherInv, LayerInv
  <2>3. QED
    BY <2>1, <2>2
<1>3. QED
  BY <1>1, <1>2 DEF UsedWhenThere

\* A micro-batch leaves nothing behind.
LEMMA IsClean == IInv => CleanBetweenPasses
<1> SUFFICES ASSUME IInv PROVE CleanBetweenPasses
  OBVIOUS
<1> USE DEF IInv
<1>1. ASSUME doing = "forward", layer = 0
      PROVE  current = 0 /\ offloaded = 0 /\ state = NoGroups /\ buffered = {} /\ mapping = {}
  <2>1. /\ current = 0 /\ mapping = {} /\ DOMAIN state = {}
        /\ offloaded > 0 => Window(offloaded - 1) < 0
    BY <1>1 DEF ForwardInv
  <2>2. offloaded = 0
    <3>1. SUFFICES ASSUME offloaded > 0 PROVE FALSE
      BY Windows DEF BaseInv
    <3>2. offloaded - 1 \in Groups
      BY <3>1, Windows DEF BaseInv, Groups
    <3>3. Window(offloaded - 1) \in Nat
      BY <3>2, Windows DEF BaseInv
    <3>4. QED
      BY <2>1, <3>1, <3>3
  <2>3. state = NoGroups /\ buffered = {}
    BY <2>1 DEF BaseInv, NoGroups
  <2>4. QED
    BY <2>1, <2>2, <2>3
<1>2. doing = "failed" => setup.teacher
  BY DEF TeacherInv
<1>3. QED
  BY <1>1, <1>2 DEF CleanBetweenPasses

\* For every number of layers and groups and any number of micro-batches, a
\* layer's backward pass finds its own tensors on the GPU behind every copy, no
\* buffer is freed under a copy, the passes leave nothing behind, and no window
\* is missing unless a teacher runs between them.
THEOREM OffloadingIsUnseen == OffloadSpec => []OffloadUnseen
<1>1. IInv => OffloadUnseen
  BY IsUsedWhenThere, IsClean DEF OffloadUnseen
<1> QED
  BY <1>1, InitInvariant, NextInvariant, PTL DEF OffloadSpec


-----------------------------------------------------------------------------
(***************************************************************************)
(* RewardPool: the score of a row is its own.                              *)
(***************************************************************************)
(***************************************************************************)
(* The inductive invariant.                                                *)
(***************************************************************************)

\* The types of what the scores depend on.
RowTypes ==
    /\ calls \in Nat /\ calling \in BOOLEAN /\ late \in BOOLEAN
    /\ batch \in Batches
    /\ run \in [Rows -> {"queued", "running", "returned", "cancelled", "killed"}]
    /\ at \in [Rows -> [Cases -> {"waiting", "posting", "done"}]]
    /\ seen \in [Rows -> SUBSET Cases]
    /\ firstCompileError \in [Rows -> Cases \cup {0}]
    /\ answer \in [Rows -> Nat \cup {None, Dict}]
    /\ result \in [Rows -> [Cases -> Verdicts \cup {None}]]
    /\ scores \in [Rows -> Nat \cup {None}]

\* A call that runs is counted; between two calls no row runs, and the scores
\* are those of the last call.
IdleInv ==
    /\ calling => calls > 0
    /\ ~ calling =>
          /\ \A r \in Rows : run[r] # "running"
          /\ calls = 0 => ~ late
          /\ calls > 0 => scores = Verified /\ \A r \in Rows : answer[r] # None

\* Where a row is, and what may have been answered for it by then.
AnswerInv ==
    \A r \in Rows :
        /\ run[r] = "queued" => answer[r] = None
        /\ run[r] = "running" => answer[r] = None \/ (late /\ answer[r] = 0)
        /\ run[r] \in {"cancelled", "killed"} => answer[r] = 0

\* A case has a result only when its thread is done.
ResultInv ==
    \A r \in Rows, c \in Cases : at[r][c] # "done" => result[r][c] = None

\* firstCompileError is the first of the cases whose result was a compile error,
\* in whatever order the results came in.
IsFirstCompileError(k, results) ==
    /\ k = 0 => \A c \in Cases : results[c] # "compile_error"
    /\ k # 0 => /\ results[k] = "compile_error"
                /\ \A b \in Cases : b < k => results[b] # "compile_error"
FirstErrorInv ==
    \A r \in Rows : IsFirstCompileError(firstCompileError[r], result[r])

\* A program that ran to its end has the score of its own results, unless it
\* had been given up before.
ReturnedInv ==
    \A r \in Rows : (run[r] = "returned" /\ batch[r] = "sandbox") =>
        answer[r] = PassedBeforeCompileError(r) \/ (late /\ answer[r] = 0)

\* A score function that does not return a score gives none.
NoScoreInv ==
    \A r \in Rows : batch[r] \in {"loop", "raises"} => answer[r] \in {None, 0}

PoolInv ==
    /\ RowTypes
    /\ IdleInv /\ AnswerInv /\ ResultInv /\ FirstErrorInv /\ ReturnedInv /\ NoScoreInv
-----------------------------------------------------------------------------
(***************************************************************************)
(* Scores.                                                                 *)
(***************************************************************************)

\* The score of a row only depends on its own results.
LEMMA ScoreOfResults ==
    ASSUME NEW r \in Rows, result'[r] = result[r]
    PROVE  PassedBeforeCompileError(r)' = PassedBeforeCompileError(r)
BY DEF PassedBeforeCompileError

\* Counting what is passed after the results behind the first compile error
\* were overwritten is counting what is passed before it.
LEMMA ScoreIsPassed ==
    ASSUME RowTypes, FirstErrorInv, NEW r \in Rows
    PROVE  Score(r) = PassedBeforeCompileError(r) /\ Score(r) \in Nat
<1> DEFINE n == Cardinality(Cases)
           k == firstCompileError[r]
<1> USE PoolAssumption
<1>1. Cases = 1 .. n /\ n \in Nat
  BY FS_CardinalityType
<1>2. k \in Cases \cup {0} /\ IsFirstCompileError(k, result[r])
  BY DEF RowTypes, FirstErrorInv
<1>3. ASSUME NEW c \in Cases
      PROVE  Final(r)[c] = "passed" <=>
                result[r][c] = "passed" /\ \A b \in 1 .. c : result[r][b] # "compile_error"
  <2>1. c \in Int /\ k \in Int /\ \A b \in 1 .. c : b \in Cases /\ b \in Int
    BY <1>1, <1>2
  <2>2. Final(r)[c] = IF k # 0 /\ c > k THEN "compile_error" ELSE result[r][c]
    BY DEF Final
  <2>3. CASE k = 0
    BY <1>2, <2>1, <2>2, <2>3 DEF IsFirstCompileError
  <2>4. CASE k # 0
    <3>1. k \in 1 .. n /\ result[r][k] = "compile_error"
      BY <1>1, <1>2, <2>4 DEF IsFirstCompileError
    <3>2. CASE c < k
      <4>1. \A b \in 1 .. c : result[r][b] # "compile_error"
        BY <1>2, <2>1, <2>4, <3>2 DEF IsFirstCompileError
      <4>2. QED
        BY <2>1, <2>2, <3>2, <4>1
    <3>3. CASE c = k
      BY <2>1, <2>2, <3>1, <3>3
    <3>4. CASE c > k
      <4>1. k \in 1 .. c
        BY <2>1, <3>1, <3>4
      <4>2. QED
        BY <2>2, <2>4, <3>1, <3>4, <4>1
    <3>5. QED
      BY <2>1, <3>2, <3>3, <3>4
  <2>5. QED
    BY <2>3, <2>4
<1>4. {c \in Cases : Final(r)[c] = "passed"} =
        {c \in Cases : /\ result[r][c] = "passed"
                       /\ \A b \in 1 .. c : result[r][b] # "compile_error"}
  BY <1>3
<1>5. Score(r) = PassedBeforeCompileError(r)
  BY <1>4 DEF Score, PassedBeforeCompileError
<1>6. Score(r) \in Nat
  BY FS_Subset, FS_CardinalityType DEF Score
<1>7. QED
  BY <1>5, <1>6

-----------------------------------------------------------------------------
(***************************************************************************)
(* Every step preserves the inductive invariant.                           *)
(***************************************************************************)

\* Nothing is known of any row at first, and again after a call.
LEMMA PoolInitInvariant == PoolInit => PoolInv
<1> SUFFICES ASSUME PoolInit PROVE PoolInv
  OBVIOUS
<1> USE PoolAssumption DEF Verdicts, PoolInit, NoRows, Each, EachCase
<1>1. RowTypes
  BY DEF RowTypes
<1>2. IdleInv /\ AnswerInv /\ ResultInv /\ ReturnedInv /\ NoScoreInv
  BY DEF IdleInv, AnswerInv, ResultInv, ReturnedInv, NoScoreInv
<1>3. FirstErrorInv
  <2>1. \A r \in Rows, c \in Cases : result[r][c] = None /\ firstCompileError[r] = 0
    OBVIOUS
  <2>2. None # "compile_error"
    OBVIOUS
  <2>3. QED
    BY <2>1, <2>2 DEF FirstErrorInv, IsFirstCompileError
<1>4. QED
  BY <1>1, <1>2, <1>3 DEF PoolInv

\* What a step that touches no result keeps.
LEMMA ResultsKept ==
    ASSUME ResultInv, FirstErrorInv, UNCHANGED <<at, firstCompileError, result>>
    PROVE  ResultInv' /\ FirstErrorInv'
BY DEF ResultInv, FirstErrorInv, IsFirstCompileError

\* A step of the pool: no result is touched, and no row is given up for a
\* second time or in a queue.
LEMMA PoolStep ==
    ASSUME PoolInv, NEW r \in Rows, StartRow(r) \/ ReturnScore(r) \/ FinishRow(r) \/ TimeOut(r)
    PROVE  PoolInv'
<1> USE PoolAssumption DEF PoolInv
<1>1. ResultInv' /\ FirstErrorInv' /\ UNCHANGED <<at, firstCompileError, result, batch, late, calling, seen, scores>>
  BY ResultsKept DEF StartRow, ReturnScore, FinishRow, TimeOut
<1>2. \A q \in Rows : PassedBeforeCompileError(q)' = PassedBeforeCompileError(q)
  BY <1>1, ScoreOfResults
<1>3. \A q \in Rows \ {r} : run'[q] = run[q] /\ answer'[q] = answer[q]
  BY DEF StartRow, ReturnScore, FinishRow, TimeOut, FirstAnswer, RowTypes
<1>4. calling /\ UNCHANGED calls
  BY DEF StartRow, ReturnScore, FinishRow, TimeOut, IdleInv, RowTypes
<1>5. IdleInv'
  BY <1>1, <1>4 DEF IdleInv
<1>6. CASE StartRow(r)
  <2>1. run[r] = "queued" /\ run'[r] = "running" /\ answer' = answer /\ answer[r] = None
    BY <1>6 DEF StartRow, RowTypes, AnswerInv
  <2>2. RowTypes'
    BY <1>6, <1>1 DEF StartRow, RowTypes
  <2>3. AnswerInv' /\ ReturnedInv' /\ NoScoreInv'
    BY <1>1, <1>2, <1>3, <2>1 DEF AnswerInv, ReturnedInv, NoScoreInv
  <2>4. QED
    BY <1>1, <1>5, <2>2, <2>3
<1>7. CASE ReturnScore(r)
  <2>1. run[r] = "running" /\ run'[r] = "returned"
    BY <1>7 DEF ReturnScore, RowTypes
  <2>2. PICK s \in ScoresOf(batch[r]) : answer' = FirstAnswer(r, s)
    BY <1>7 DEF ReturnScore
  <2>3. /\ s \in Nat \cup {Dict} /\ batch[r] # "sandbox"
        /\ batch[r] \in {"loop", "raises"} => s = 0
    BY <2>2 DEF ScoresOf
  <2>4. RowTypes'
    BY <1>7, <1>1, <1>4, <2>2, <2>3 DEF ReturnScore, FirstAnswer, RowTypes
  <2>5. AnswerInv' /\ ReturnedInv'
    BY <1>1, <1>2, <1>3, <2>1, <2>3 DEF AnswerInv, ReturnedInv
  <2>6. NoScoreInv'
    <3>1. answer'[r] \in {s, answer[r]} /\ (answer[r] = None => answer'[r] = s)
      BY <2>2 DEF FirstAnswer, RowTypes
    <3>2. QED
      BY <1>1, <1>3, <2>3, <3>1 DEF NoScoreInv
  <2>7. QED
    BY <1>1, <1>5, <2>4, <2>5, <2>6
<1>8. CASE FinishRow(r)
  <2>1. run[r] = "running" /\ run'[r] = "returned" /\ batch[r] = "sandbox"
    BY <1>8 DEF FinishRow, RowTypes
  <2>2. Score(r) = PassedBeforeCompileError(r) /\ Score(r) \in Nat
    BY ScoreIsPassed
  <2>3. answer'[r] = Score(r) \/ (late /\ answer'[r] = 0)
    <3>1. answer' = FirstAnswer(r, Score(r)) /\ (answer[r] = None \/ (late /\ answer[r] = 0))
      BY <1>8, <2>1 DEF FinishRow, AnswerInv
    <3>2. QED
      BY <3>1 DEF FirstAnswer, RowTypes
  <2>4. RowTypes'
    BY <1>8, <1>1, <1>4, <2>2 DEF FinishRow, FirstAnswer, RowTypes
  <2>5. AnswerInv' /\ ReturnedInv' /\ NoScoreInv'
    BY <1>1, <1>2, <1>3, <2>1, <2>2, <2>3 DEF AnswerInv, ReturnedInv, NoScoreInv
  <2>6. QED
    BY <1>1, <1>5, <2>4, <2>5
<1>9. CASE TimeOut(r)
  <2>1. late /\ answer[r] = None /\ answer'[r] = 0
        /\ run'[r] = IF run[r] = "queued" THEN "cancelled" ELSE run[r]
    BY <1>9 DEF TimeOut, RowTypes
  <2>2. RowTypes'
    BY <1>9, <1>1, <1>4 DEF TimeOut, RowTypes
  <2>3. AnswerInv' /\ NoScoreInv'
    BY <1>1, <1>3, <2>1 DEF AnswerInv, NoScoreInv
  <2>4. ~ (run[r] = "returned" /\ batch[r] = "sandbox")
    BY <2>1, ScoreIsPassed DEF ReturnedInv
  <2>5. ReturnedInv'
    BY <1>1, <1>2, <1>3, <2>1, <2>4 DEF ReturnedInv
  <2>6. QED
    BY <1>1, <1>5, <2>2, <2>3, <2>5
<1>10. QED
  BY <1>6, <1>7, <1>8, <1>9

\* A step of a case: only the last answer for a case that is posting is a
\* result, and the first compile error stays the first.
LEMMA CaseStepKeeps ==
    ASSUME PoolInv, NEW r \in Rows, NEW c \in Cases, Acquire(r, c) \/ Retry(r, c) \/ Release(r, c)
    PROVE  PoolInv'
<1> USE PoolAssumption DEF PoolInv
<1>1. run[r] = "running" /\ UNCHANGED <<calls, calling, batch, late, run, answer, scores>>
  BY DEF Acquire, Retry, Release
<1>2. calling
  BY <1>1 DEF IdleInv, RowTypes
<1>3. \A q \in Rows \ {r} : result'[q] = result[q] /\ firstCompileError'[q] = firstCompileError[q]
  BY DEF Acquire, Retry, Release, RowTypes
<1>4. IdleInv' /\ AnswerInv' /\ NoScoreInv'
  BY <1>1, <1>2 DEF IdleInv, AnswerInv, NoScoreInv
<1>5. ReturnedInv'
  <2>1. \A q \in Rows \ {r} : PassedBeforeCompileError(q)' = PassedBeforeCompileError(q)
    BY <1>3, ScoreOfResults
  <2>2. QED
    BY <1>1, <2>1 DEF ReturnedInv
<1>6. CASE Acquire(r, c)
  <2>1. RowTypes'
    BY <1>6 DEF Acquire, SetAt, RowTypes
  <2>2. ResultInv'
    BY <1>6 DEF Acquire, SetAt, RowTypes, ResultInv
  <2>3. FirstErrorInv'
    BY <1>6 DEF Acquire, FirstErrorInv, IsFirstCompileError
  <2>4. QED
    BY <1>4, <1>5, <2>1, <2>2, <2>3
<1>7. CASE Retry(r, c)
  <2>1. UNCHANGED <<at, seen, firstCompileError, result>>
    BY <1>7 DEF Retry
  <2>2. RowTypes'
    BY <1>1, <2>1 DEF RowTypes
  <2>3. QED
    BY <1>4, <1>5, <2>1, <2>2, ResultsKept
<1>8. CASE Release(r, c)
  <2>1. PICK v \in Verdicts :
            /\ result' = [result EXCEPT ![r][c] = v]
            /\ firstCompileError' = [firstCompileError EXCEPT ![r] = FirstCompileError(r, c, v)]
    BY <1>8 DEF Release
  <2>2. FirstCompileError(r, c, v) \in Cases \cup {0}
    BY DEF FirstCompileError, RowTypes
  <2>3. RowTypes'
    <3>1. at' \in [Rows -> [Cases -> {"waiting", "posting", "done"}]]
      BY <1>8 DEF Release, SetAt, RowTypes
    <3>2. seen' \in [Rows -> SUBSET Cases]
      BY <1>8 DEF Release, RowTypes
    <3>3. result' \in [Rows -> [Cases -> Verdicts \cup {None}]]
      BY <2>1 DEF RowTypes
    <3>4. firstCompileError' \in [Rows -> Cases \cup {0}]
      BY <2>1, <2>2 DEF RowTypes
    <3>5. QED
      BY <1>1, <3>1, <3>2, <3>3, <3>4 DEF RowTypes
  <2>4. ResultInv'
    BY <1>8, <2>1 DEF Release, SetAt, RowTypes, ResultInv
  <2>5. result[r][c] = None
    BY <1>8 DEF Release, ResultInv, RowTypes
  <2>6. /\ result'[r][c] = v
        /\ \A b \in Cases \ {c} : result'[r][b] = result[r][b]
        /\ firstCompileError'[r] = FirstCompileError(r, c, v)
    BY <2>1 DEF RowTypes
  <2>7. IsFirstCompileError(firstCompileError[r], result[r])
    BY DEF FirstErrorInv
  <2>8. Cases \subseteq Nat \ {0} /\ firstCompileError[r] \in Cases \cup {0}
    BY FS_CardinalityType DEF RowTypes
  <2>9. IsFirstCompileError(firstCompileError'[r], result'[r])
    <3> DEFINE k == firstCompileError[r]
    <3>1. CASE v = "compile_error" /\ (k = 0 \/ c < k)
      <4>1. firstCompileError'[r] = c /\ c # 0
        BY <2>6, <2>8, <3>1 DEF FirstCompileError
      <4>2. ASSUME NEW b \in Cases, b < c PROVE result'[r][b] # "compile_error"
        <5>1. b # c /\ (k = 0 \/ b < k)
          <6>1. b \in Nat /\ c \in Nat /\ k \in Nat
            <7>1. \A x \in Cases \cup {0} : x \in Nat
              BY <2>8
            <7>2. k \in Cases \cup {0}
              BY <2>8
            <7>3. QED
              BY <4>2, <7>1, <7>2
          <6>2. QED
            BY <3>1, <4>2, <6>1
        <5>2. result[r][b] # "compile_error"
          BY <2>7, <5>1 DEF IsFirstCompileError
        <5>3. QED
          BY <2>6, <5>1, <5>2
      <4>3. QED
        BY <2>6, <3>1, <4>1, <4>2 DEF IsFirstCompileError
    <3>2. CASE ~ (v = "compile_error" /\ (k = 0 \/ c < k))
      <4>1. firstCompileError'[r] = k
        BY <2>6, <3>2 DEF FirstCompileError
      <4>2. k # 0 => k # c
        BY <2>5, <2>7, <2>8 DEF IsFirstCompileError, Verdicts
      <4>3. QED
        BY <2>6, <2>7, <2>8, <3>2, <4>1, <4>2 DEF IsFirstCompileError
    <3>3. QED
      BY <3>1, <3>2
  <2>10. FirstErrorInv'
    BY <1>3, <2>9 DEF FirstErrorInv, IsFirstCompileError
  <2>11. QED
    BY <1>4, <1>5, <2>3, <2>4, <2>10
<1>9. QED
  BY <1>6, <1>7, <1>8

\* The steps of a whole call.
LEMMA CallStep ==
    ASSUME PoolInv, Submit \/ Deadline \/ Break \/ EndCall
    PROVE  PoolInv'
<1> USE PoolAssumption DEF PoolInv
<1>1. CASE Submit
  <2>1. /\ calling' = TRUE /\ late' = FALSE /\ batch' \in Batches /\ calls' = calls + 1
        /\ scores' = [r \in Rows |-> None]
        /\ run' = [r \in Rows |-> "queued"] /\ answer' = [r \in Rows |-> None]
        /\ seen' = [r \in Rows |-> {}] /\ firstCompileError' = [r \in Rows |-> 0]
        /\ at' = [r \in Rows |-> [c \in Cases |-> "waiting"]]
        /\ result' = [r \in Rows |-> [c \in Cases |-> None]]
    BY <1>1, Zenon DEF Submit, ForgetRows, Each, EachCase
  <2>2. RowTypes'
    <3>1. /\ run' \in [Rows -> {"queued", "running", "returned", "cancelled", "killed"}]
          /\ answer' \in [Rows -> Nat \cup {None, Dict}]
          /\ scores' \in [Rows -> Nat \cup {None}]
          /\ firstCompileError' \in [Rows -> Cases \cup {0}]
      BY <2>1
    <3>2. at' \in [Rows -> [Cases -> {"waiting", "posting", "done"}]]
      BY <2>1
    <3>3. result' \in [Rows -> [Cases -> Verdicts \cup {None}]]
      BY <2>1
    <3>4. seen' \in [Rows -> SUBSET Cases]
      BY <2>1
    <3>5. calls' \in Nat /\ calls' > 0
      BY <2>1 DEF RowTypes
    <3>6. QED
      BY <2>1, <3>1, <3>2, <3>3, <3>4, <3>5 DEF RowTypes
  <2>3. IdleInv'
    BY <2>1 DEF IdleInv, RowTypes
  <2>4. AnswerInv' /\ ReturnedInv' /\ ResultInv' /\ NoScoreInv'
    BY <2>1 DEF AnswerInv, ReturnedInv, ResultInv, NoScoreInv
  <2>5. FirstErrorInv'
    <3>1. \A r \in Rows : firstCompileError'[r] = 0 /\ \A c \in Cases : result'[r][c] = None
      BY <2>1
    <3>2. None # "compile_error"
      BY DEF Verdicts
    <3>3. QED
      BY <3>1, <3>2 DEF FirstErrorInv, IsFirstCompileError
  <2>6. QED
    BY <2>2, <2>3, <2>4, <2>5
<1>2. CASE Deadline
  <2>1. UNCHANGED <<rowVars, batch, calls, calling, scores>> /\ calling /\ late'
    BY <1>2 DEF Deadline
  <2>2. RowTypes' /\ IdleInv' /\ AnswerInv' /\ NoScoreInv'
    BY <1>2, <2>1 DEF Deadline, rowVars, RowTypes, IdleInv, AnswerInv, NoScoreInv
  <2>3. ReturnedInv'
    BY <2>1, ScoreOfResults DEF rowVars, ReturnedInv
  <2>4. QED
    BY <2>1, <2>2, <2>3, ResultsKept DEF rowVars
<1>3. CASE Break
  <2>1. /\ UNCHANGED <<batch, calls, calling, late, scores, at, seen, firstCompileError, result>>
        /\ calling
        /\ \A r \in Rows :
            /\ run'[r] = IF run[r] \in {"queued", "running"} THEN "killed" ELSE run[r]
            /\ answer'[r] = IF answer[r] = None THEN 0 ELSE answer[r]
    BY <1>3 DEF Break, Killed
  <2>2. RowTypes'
    BY <1>3 DEF Break, Killed, RowTypes
  <2>3. IdleInv' /\ AnswerInv' /\ NoScoreInv'
    BY <2>1 DEF IdleInv, AnswerInv, NoScoreInv, RowTypes
  <2>4. ReturnedInv'
    <3> SUFFICES ASSUME NEW r \in Rows, run'[r] = "returned", batch'[r] = "sandbox"
                 PROVE  \/ answer'[r] = PassedBeforeCompileError(r)'
                        \/ late' /\ answer'[r] = 0
      BY DEF ReturnedInv
    <3>1. run[r] = "returned" /\ batch[r] = "sandbox"
      BY <2>1
    <3>2. answer'[r] = answer[r]
      BY <2>1, <3>1, ScoreIsPassed DEF ReturnedInv
    <3>3. QED
      BY <2>1, <3>1, <3>2, ScoreOfResults DEF ReturnedInv
  <2>5. QED
    BY <2>1, <2>2, <2>3, <2>4, ResultsKept
<1>4. CASE EndCall
  <2>1. /\ UNCHANGED <<batch, calls, late, at, seen, firstCompileError, answer, result>>
        /\ calling' = FALSE /\ scores' = Verified
        /\ \A r \in Rows :
            /\ answer[r] # None
            /\ run'[r] = IF run[r] \in {"queued", "running"} THEN "killed" ELSE run[r]
    BY <1>4 DEF EndCall, Gathered, Killed
  <2>2. Verified \in [Rows -> Nat \cup {None}]
    <3>1. CASE \E r \in Rows : answer[r] = Dict
      BY <3>1 DEF Verified, Each
    <3>2. CASE ~ \E r \in Rows : answer[r] = Dict
      BY <3>2 DEF Verified, RowTypes
    <3>3. QED
      BY <3>1, <3>2
  <2>3. RowTypes'
    BY <1>4, <2>1, <2>2 DEF EndCall, Killed, RowTypes
  <2>4. IdleInv'
    <3>1. Verified' = Verified
      BY <2>1 DEF Verified
    <3>2. calls > 0
      BY <1>4 DEF EndCall, Gathered, IdleInv, RowTypes
    <3>3. QED
      BY <2>1, <3>1, <3>2 DEF IdleInv
  <2>5. AnswerInv' /\ NoScoreInv'
    BY <2>1 DEF AnswerInv, NoScoreInv, RowTypes
  <2>6. ReturnedInv'
    BY <2>1, ScoreOfResults DEF ReturnedInv
  <2>7. QED
    BY <2>1, <2>3, <2>4, <2>5, <2>6, ResultsKept
<1>5. QED
  BY <1>1, <1>2, <1>3, <1>4

LEMMA PoolNextInvariant == PoolInv /\ [PoolNext]_poolVars => PoolInv'
<1> SUFFICES ASSUME PoolInv, [PoolNext]_poolVars PROVE PoolInv'
  OBVIOUS
<1>1. CASE UNCHANGED poolVars
  <2>1. UNCHANGED <<calls, calling, batch, late, run, at, seen, firstCompileError, answer,
                    result, scores>>
    BY <1>1 DEF poolVars, rowVars
  <2>2. QED
    BY <2>1, ResultsKept, ScoreOfResults
    DEF PoolInv, RowTypes, IdleInv, Verified, AnswerInv, ReturnedInv, NoScoreInv
<1>2. CASE Submit \/ PoolRuns \/ CaseStep \/ Break
  BY <1>2, CallStep, PoolStep, CaseStepKeeps DEF PoolRuns, CaseStep
<1>3. QED
  BY <1>1, <1>2 DEF PoolNext, PoolAtRest

-----------------------------------------------------------------------------
(***************************************************************************)
(* The theorems.                                                           *)
(***************************************************************************)

\* In every reachable state the invariant holds.
THEOREM PoolInvariantHolds == PoolSpec => []PoolInv
<1> QED
  BY PoolInitInvariant, PoolNextInvariant, PTL DEF PoolSpec

\* However many threads answer in whatever order, the first compile error of a
\* row is the one of its smallest case, for any number of cases.
THEOREM FirstErrorIsFirst == PoolSpec => []FirstErrorInv
<1>1. PoolInv => FirstErrorInv
  BY DEF PoolInv
<1> QED
  BY <1>1, PoolInvariantHolds, PTL

\* The score of a row is the one its own cases give it, whatever the order of
\* their answers, the timeouts and the processes that die, and every score is 0 if
\* one was a dictionary, for any number of rows, cases, processes, slots, retries
\* and calls.
THEOREM ScoresAreTheirOwn == PoolSpec => []ScoreIsItsOwn
<1>1. PoolInv => ScoreIsItsOwn
  <2> SUFFICES ASSUME PoolInv, Scored, NEW r \in Rows
               PROVE  IF \E q \in Rows : answer[q] = Dict
                      THEN scores[r] = 0
                      ELSE OwnScore(r, scores[r])
    BY DEF ScoreIsItsOwn
  <2>1. scores = Verified /\ answer[r] # None /\ run[r] # "running" /\ calls > 0
    BY DEF PoolInv, IdleInv, Scored
  <2>2. run[r] \in {"returned", "cancelled", "killed"}
    BY <2>1 DEF PoolInv, RowTypes, AnswerInv
  <2>3. CASE \E q \in Rows : answer[q] = Dict
    BY <2>1, <2>3 DEF Verified, Each
  <2>4. CASE ~ \E q \in Rows : answer[q] = Dict
    <3>1. scores[r] = answer[r]
      BY <2>1, <2>4 DEF Verified
    <3>2. OwnScore(r, answer[r])
      BY <2>1, <2>2 DEF PoolInv, AnswerInv, ReturnedInv, NoScoreInv, OwnScore
    <3>3. QED
      BY <2>4, <3>1, <3>2
  <2>5. QED
    BY <2>3, <2>4
<1> QED
  BY <1>1, PoolInvariantHolds, PTL

-----------------------------------------------------------------------------
(***************************************************************************)
(* RolloutExecutor: no reply is left for a later call, and collective_rpc  *)
(* implements CollectiveCall.                                              *)
(***************************************************************************)
(***************************************************************************)
(* The inductive invariant.  NoStaleReply alone is not inductive: it does  *)
(* not say which sockets wait for a reply during a call, nor that the call *)
(* on its way to a worker is the one the caller waits for.                 *)
(***************************************************************************)

\* The sockets that wait for a reply are those sent to and not yet read.
CallerInv ==
    /\ caller # "idle" => call # 0
    /\ caller = "idle" => awaiting = {}
    /\ caller = "send" => awaiting = 1 .. next - 1 /\ outputs = <<>>
    /\ caller = "receive" => awaiting = next .. TP /\ Len(outputs) = next - 1
    /\ caller = "check" => awaiting = {} /\ Len(outputs) = TP

\* A message under way belongs to the call of a caller that waits for it.
MessageOf(w) ==
    /\ sent[w] # NoMessage =>
          /\ w \in awaiting /\ reply[w] = NoMessage
          /\ sent[w].call = call /\ did[w] < call
    /\ reply[w] # NoMessage => w \in awaiting /\ reply[w].call = call
    /\ worker[w] = "executes" => sent[w] # NoMessage
MessageInv == \A w \in Sockets : MessageOf(w)

\* The calls a worker has carried out; one that is not sent to yet waits.
DidOf(w) ==
    /\ did[w] <= call
    /\ (caller = "send" /\ next <= w) => did[w] < call
DidInv == \A w \in Sockets : DidOf(w)

\* What a reply says of the worker that sent it.
Tells(m, w) ==
    /\ m.call = call
    /\ m.ok => did[w] = call
    /\ ~ m.ok => failedIn # 0
ReplyInv ==
    /\ \A w \in Sockets : reply[w] # NoMessage => Tells(reply[w], w)
    /\ caller # "idle" => \A w \in 1 .. Len(outputs) : Tells(outputs[w], w)

RpcInv == RpcTypeOK /\ CallerInv /\ MessageInv /\ DidInv /\ ReplyInv

USE ExecutorAssumption DEF Sockets

\* Only None is equal to NoMessage: every message is sent in a call.
LEMMA MessageFacts ==
    /\ NoMessage \in Message
    /\ \A c \in 0 .. MaxCalls, ok \in BOOLEAN :
          /\ [call |-> c, ok |-> ok] \in Message
          /\ [call |-> c, ok |-> ok].call = c /\ [call |-> c, ok |-> ok].ok = ok
          /\ c # 0 => [call |-> c, ok |-> ok] # NoMessage
    /\ \A m \in Message : m.call \in 0 .. MaxCalls /\ m.ok \in BOOLEAN
  BY DEF Message, NoMessage

LEMMA InitRpcInvariant == InitZeromq => RpcInv
  <1> SUFFICES ASSUME InitZeromq PROVE RpcInv
    OBVIOUS
  <1>1. RpcTypeOK
    <2>1. Len(outputs) = 0 /\ outputs \in Seq(Message)
      BY DEF InitZeromq
    <2>2. /\ sent \in [Sockets -> Message] /\ reply \in [Sockets -> Message]
      BY MessageFacts, Zenon DEF InitZeromq
    <2>3. did \in [Sockets -> 0 .. MaxCalls]
      BY DEF InitZeromq
    <2>4. worker \in [Sockets -> {"receives", "executes", "ended"}]
      BY DEF InitZeromq
    <2>5. /\ call \in 0 .. MaxCalls /\ failedIn \in 0 .. MaxCalls
          /\ next \in 1 .. TP + 1 /\ Len(outputs) <= TP
      BY <2>1 DEF InitZeromq
    <2>6. /\ caller \in {"idle", "send", "receive", "check"} /\ collective \in BOOLEAN
          /\ last \in {"returned", "raised", "unsent"} /\ awaiting \subseteq Sockets
      BY DEF InitZeromq
    <2> QED
      BY <2>1, <2>2, <2>3, <2>4, <2>5, <2>6 DEF RpcTypeOK
  <1>2. CallerInv /\ MessageInv /\ DidInv /\ ReplyInv
    BY DEF InitZeromq, CallerInv, MessageInv, MessageOf, DidInv, DidOf, ReplyInv
  <1> QED
    BY <1>1, <1>2 DEF RpcInv

\* A worker sends a reply m to its request and is left idle or at its end.
LEMMA ReplySent ==
    ASSUME RpcInv, NEW w \in Sockets, worker[w] = "executes",
           NEW m \in Message, m # NoMessage, m.call = call,
           sent' = [sent EXCEPT ![w] = NoMessage],
           reply' = [reply EXCEPT ![w] = m],
           worker' \in [Sockets -> {"receives", "executes", "ended"}],
           \A v \in Sockets : worker'[v] = "executes" => v # w /\ worker[v] = "executes",
           did' \in [Sockets -> 0 .. MaxCalls],
           \A v \in Sockets : v # w => did'[v] = did[v],
           did'[w] <= call,
           m.ok => did'[w] = call,
           failedIn' \in 0 .. MaxCalls,
           failedIn # 0 => failedIn' # 0,
           ~ m.ok => failedIn' # 0,
           UNCHANGED callerVars
    PROVE  RpcInv'
  <1> USE MessageFacts DEF RpcInv, RpcTypeOK, CallerInv, MessageInv, MessageOf, DidInv, DidOf,
              ReplyInv, Tells
  <1>1. /\ w \in awaiting /\ sent[w] # NoMessage
        /\ caller \in {"send", "receive"}
        /\ caller = "send" => w < next /\ Len(outputs) = 0
        /\ caller = "receive" => Len(outputs) < w
    <2>1. w \in awaiting /\ sent[w] # NoMessage /\ caller \in {"send", "receive"}
      OBVIOUS
    <2>2. CASE caller = "send"
      BY <2>1, <2>2
    <2>3. CASE caller = "receive"
      BY <2>1, <2>3
    <2> QED
      BY <2>1, <2>2, <2>3
  <1>2. RpcTypeOK' /\ CallerInv'
    BY DEF callerVars
  <1>3. ASSUME NEW v \in Sockets PROVE MessageOf(v)'
    <2>1. CASE v = w
      BY <1>1, <2>1 DEF callerVars
    <2>2. CASE v # w
      BY <2>2 DEF callerVars
    <2> QED
      BY <2>1, <2>2
  <1>4. ASSUME NEW v \in Sockets PROVE DidOf(v)'
    <2>1. CASE v = w
      BY <1>1, <2>1 DEF callerVars
    <2>2. CASE v # w
      BY <2>2 DEF callerVars
    <2> QED
      BY <2>1, <2>2
  <1>5. ASSUME NEW v \in Sockets, reply'[v] # NoMessage PROVE Tells(reply[v], v)'
    <2>1. CASE v = w
      BY <2>1 DEF callerVars
    <2>2. CASE v # w
      <3>1. reply'[v] = reply[v] /\ did'[v] = did[v]
        BY <2>2
      <3>2. Tells(reply[v], v)
        BY <1>5, <3>1
      <3> QED
        BY <3>1, <3>2 DEF callerVars
    <2> QED
      BY <2>1, <2>2
  <1>6. ASSUME NEW v \in 1 .. Len(outputs) PROVE Tells(outputs[v], v)'
    <2>1. v \in Sockets /\ v # w
      BY <1>1
    <2>2. Tells(outputs[v], v)
      BY <1>1
    <2> QED
      BY <2>1, <2>2 DEF callerVars
  <1>7. ReplyInv'
    BY <1>5, <1>6 DEF callerVars
  <1> QED
    BY <1>2, <1>3, <1>4, <1>7

LEMMA NextRpcInvariant == RpcInv /\ [RpcNext]_rpcVars => RpcInv'
  <1> SUFFICES ASSUME RpcInv, [RpcNext]_rpcVars PROVE RpcInv'
    OBVIOUS
  <1> USE MessageFacts DEF RpcInv, RpcTypeOK, CallerInv, MessageInv, MessageOf, DidInv, DidOf,
              ReplyInv, Tells
  <1>1. CASE Call
    BY <1>1 DEF Call, loopVars
  <1>2. CASE Send
    <2> DEFINE m == [call |-> call, ok |-> TRUE]
    <2>1. next \notin awaiting /\ next \in Sockets
      BY <1>2 DEF Send
    <2>2. m \in Message /\ m.call = call /\ m # NoMessage
      BY <1>2 DEF Send
    <2>3. /\ sent' = [sent EXCEPT ![next] = m]
          /\ awaiting' = awaiting \cup {next} /\ next' = next + 1
          /\ caller = "send" /\ outputs' = outputs
          /\ UNCHANGED <<caller, last, call, collective, reply, loopVars>>
      BY <1>2, <2>1 DEF Send
    <2> HIDE DEF m
    <2>4. RpcTypeOK' /\ CallerInv'
      BY <2>1, <2>2, <2>3 DEF loopVars
    <2>5. MessageInv' /\ DidInv'
      <3> SUFFICES ASSUME NEW v \in Sockets
                   PROVE MessageOf(v)' /\ DidOf(v)'
        BY DEF MessageOf, DidOf
      <3>1. CASE v = next
        BY <2>1, <2>2, <2>3, <3>1 DEF loopVars, MessageOf, DidOf
      <3>2. CASE v # next
        BY <2>1, <2>2, <2>3, <3>2 DEF loopVars, MessageOf, DidOf
      <3> QED
        BY <3>1, <3>2
    <2>6. ReplyInv'
      BY <2>1, <2>2, <2>3 DEF loopVars
    <2> QED
      BY <2>4, <2>5, <2>6
  <1>3. CASE SentAll
    BY <1>3 DEF SentAll, loopVars
  <1>4. CASE Receive
    <2>1. /\ outputs' \in Seq(Message) /\ Len(outputs') = next
          /\ \A k \in 1 .. Len(outputs) : outputs'[k] = outputs[k]
          /\ outputs'[next] = reply[next]
      BY <1>4 DEF Receive
    <2>2. /\ reply' = [reply EXCEPT ![next] = NoMessage]
          /\ reply[next] # NoMessage
          /\ awaiting' = awaiting \ {next} /\ next' = next + 1
          /\ caller = "receive" /\ next \in Sockets
          /\ UNCHANGED <<call, caller, collective, last, sent, loopVars>>
      BY <1>4 DEF Receive
    <2>3. RpcTypeOK' /\ CallerInv'
      BY <2>1, <2>2 DEF loopVars
    <2>4. MessageInv' /\ DidInv'
      BY <2>2 DEF loopVars
    <2>5. ASSUME NEW v \in Sockets, reply'[v] # NoMessage PROVE Tells(reply[v], v)'
      BY <2>2, <2>5 DEF loopVars
    <2>6. ASSUME NEW v \in 1 .. Len(outputs') PROVE Tells(outputs[v], v)'
      <3>1. CASE v = next
        BY <2>1, <2>2, <3>1 DEF loopVars
      <3>2. CASE v # next
        <4>1. v \in 1 .. Len(outputs) /\ outputs'[v] = outputs[v]
          BY <2>1, <2>2, <3>2
        <4>2. Tells(outputs[v], v)
          BY <2>2, <4>1
        <4> QED
          BY <2>2, <4>1, <4>2 DEF loopVars
      <3> QED
        BY <3>1, <3>2
    <2>7. ReplyInv'
      BY <2>5, <2>6
    <2> QED
      BY <2>3, <2>4, <2>7
  <1>5. CASE ReceivedAll
    BY <1>5 DEF ReceivedAll, loopVars
  <1>6. CASE End
    BY <1>6 DEF End, loopVars
  <1>7. ASSUME NEW w \in Sockets, Take(w) PROVE RpcInv'
    BY <1>7 DEF Take, callerVars
  <1>8. ASSUME NEW w \in Sockets, Succeed(w) PROVE RpcInv'
    <2> DEFINE m == [call |-> call, ok |-> TRUE]
    <2>1. sent[w] # NoMessage /\ sent[w].call = call /\ call # 0
      BY <1>8 DEF Succeed
    <2>2. m \in Message /\ m # NoMessage /\ m.call = call /\ m.ok
      BY <2>1
    <2>3. /\ worker[w] = "executes" /\ UNCHANGED <<callerVars, failedIn>>
          /\ sent' = [sent EXCEPT ![w] = NoMessage]
          /\ reply' = [reply EXCEPT ![w] = m]
          /\ worker' = [worker EXCEPT ![w] = "receives"]
          /\ did' = [did EXCEPT ![w] = call]
      BY <1>8, <2>1 DEF Succeed, Answer
    <2> HIDE DEF m
    <2>4. /\ did' \in [Sockets -> 0 .. MaxCalls] /\ did'[w] = call /\ did'[w] <= call
          /\ \A v \in Sockets : v # w => did'[v] = did[v]
      <3>1. call \in 0 .. MaxCalls /\ did \in [Sockets -> 0 .. MaxCalls]
        OBVIOUS
      <3> HIDE DEF RpcInv
      <3> QED
        BY <2>3, <3>1
    <2>5. /\ worker' \in [Sockets -> {"receives", "executes", "ended"}]
          /\ \A v \in Sockets : worker'[v] = "executes" => v # w /\ worker[v] = "executes"
      BY <2>3
    <2>6. failedIn' \in 0 .. MaxCalls /\ (failedIn # 0 => failedIn' # 0)
      BY <2>3
    <2> QED
      BY <2>2, <2>3, <2>4, <2>5, <2>6, ReplySent
  <1>9. ASSUME NEW w \in Sockets, Fail(w) PROVE RpcInv'
    <2> DEFINE m == [call |-> call, ok |-> FALSE]
    <2>1. sent[w] # NoMessage /\ sent[w].call = call /\ call # 0
      BY <1>9 DEF Fail
    <2>2. m \in Message /\ m # NoMessage /\ m.call = call /\ ~ m.ok
      BY <2>1
    <2>3. /\ worker[w] = "executes" /\ UNCHANGED <<callerVars, did>>
          /\ sent' = [sent EXCEPT ![w] = NoMessage]
          /\ reply' = [reply EXCEPT ![w] = m]
          /\ worker' = [worker EXCEPT ![w] = "ended"]
          /\ failedIn' = IF failedIn = 0 THEN call ELSE failedIn
      BY <1>9, <2>1 DEF Fail, Answer
    <2>4. did[w] <= call
      OBVIOUS
    <2> HIDE DEF m
    <2> QED
      BY <2>1, <2>2, <2>3, <2>4, ReplySent
  <1>10. CASE UNCHANGED rpcVars
    BY <1>10 DEF rpcVars, callerVars, loopVars
  <1> QED
    BY <1>1, <1>2, <1>3, <1>4, <1>5, <1>6, <1>7, <1>8, <1>9, <1>10
    DEF RpcNext, Caller, Work

\* In every reachable state the invariant holds.
THEOREM RpcInvariantHolds == RpcSpec => []RpcInv
  <1> QED
    BY InitRpcInvariant, NextRpcInvariant, PTL DEF RpcSpec

\* Every reachable state is well typed, for any number of workers and calls.
THEOREM CallTypeCorrect == RpcSpec => []RpcTypeOK
  <1>1. RpcInv => RpcTypeOK
    BY DEF RpcInv
  <1> QED
    BY <1>1, RpcInvariantHolds, PTL

\* Between two calls of collective_rpc every socket is ready and empty, also
\* after an exception, and a call only reads replies to itself.
THEOREM RepliesAreFresh == RpcSpec => []NoStaleReply
  <1>1. RpcInv => NoStaleReply
    BY DEF RpcInv, RpcTypeOK, CallerInv, MessageInv, MessageOf, ReplyInv, Tells, NoStaleReply
  <1> QED
    BY <1>1, RpcInvariantHolds, PTL

-----------------------------------------------------------------------------
(***************************************************************************)
(* Refinement.  A call starts with Call and ends with End; a worker breaks *)
(* with its first failure; every other step is a stutter.                  *)
(***************************************************************************)
LEMMA InitRefines == InitZeromq => Abstract!Init
  BY DEF InitZeromq, Abstract!Init

LEMMA StepRefines == RpcInv /\ [RpcNext]_rpcVars => [Abstract!Next]_(Abstract!vars)
  <1> SUFFICES ASSUME RpcInv, [RpcNext]_rpcVars
               PROVE Abstract!Next \/ UNCHANGED Abstract!vars
    OBVIOUS
  <1> USE DEF RpcInv, RpcTypeOK, CallerInv, MessageInv, MessageOf, DidInv, DidOf,
              ReplyInv, Tells
  <1> USE MessageFacts
  <1>1. CASE Call
    <2>1. Abstract!Start
      BY <1>1 DEF Call, loopVars, Abstract!Start
    <2> QED
      BY <2>1 DEF Abstract!Next
  <1>2. CASE Send
    <2>1. next \notin awaiting
      BY <1>2 DEF Send
    <2> QED
      BY <1>2, <2>1 DEF Send, loopVars, Abstract!vars
  <1>3. CASE SentAll
    BY <1>3 DEF SentAll, loopVars, Abstract!vars
  <1>4. CASE Receive
    BY <1>4 DEF Receive, loopVars, Abstract!vars
  <1>5. CASE ReceivedAll
    BY <1>5 DEF ReceivedAll, loopVars, Abstract!vars
  <1>6. CASE End
    <2>1. CASE \A w \in Sockets : outputs[w].ok
      <3>1. Abstract!Return
        BY <1>6, <2>1 DEF End, loopVars, Abstract!Return
      <3> QED
        BY <3>1 DEF Abstract!Next
    <2>2. CASE ~ \A w \in Sockets : outputs[w].ok
      <3>1. Abstract!Raise
        BY <1>6, <2>2 DEF End, loopVars, Abstract!Raise
      <3> QED
        BY <3>1 DEF Abstract!Next
    <2> QED
      BY <2>1, <2>2
  <1>7. ASSUME NEW w \in Sockets, Take(w) PROVE UNCHANGED Abstract!vars
    BY <1>7 DEF Take, callerVars, Abstract!vars
  <1>8. ASSUME NEW w \in Sockets, Succeed(w) PROVE Abstract!Next
    <2>1. Abstract!CarryOut(w)
      BY <1>8 DEF Succeed, callerVars, Abstract!CarryOut
    <2> QED
      BY <2>1 DEF Abstract!Next
  <1>9. ASSUME NEW w \in Sockets, Fail(w) PROVE Abstract!Next
    <2>1. Abstract!Break
      BY <1>9 DEF Fail, callerVars, Abstract!Break
    <2> QED
      BY <2>1 DEF Abstract!Next
  <1>10. CASE UNCHANGED rpcVars
    BY <1>10 DEF rpcVars, callerVars, loopVars, Abstract!vars
  <1> QED
    BY <1>1, <1>2, <1>3, <1>4, <1>5, <1>6, <1>7, <1>8, <1>9, <1>10
    DEF RpcNext, Caller, Work

\* Seen from outside, collective_rpc over its sockets is a collective call: one
\* that returns was carried out by every worker, one that raises has had a worker
\* fail, and no worker carries a call out twice or out of turn.
THEOREM ExecutorImplementsCall == RpcSpec => ImplementsCollectiveCall
  <1> QED
    BY InitRefines, StepRefines, RpcInvariantHolds, PTL
    DEF RpcSpec, ImplementsCollectiveCall, Abstract!Spec
=============================================================================
