----------------------------- MODULE HybridEngine -----------------------------
(***************************************************************************)
(* The hybrid engine: the workers of a replica hold the weights that are   *)
(* trained and a vLLM engine that generates with a copy of them, and       *)
(* switch between the two (rollout_mode and trainer_mode of                *)
(* ActorRolloutRefWorker, wake_up and sleep of the engine-based worker,    *)
(* vLLMHttpServer and vLLMReplica).                                        *)
(*                                                                         *)
(* Weights are version numbers.  A LoRA run trains the adapter and leaves  *)
(* the base alone; adapter 0 is the fresh one, which changes nothing.      *)
(* Random states are the names of their streams.  The moves of parameters  *)
(* between CPU and GPU are left out.                                       *)
(*                                                                         *)
(* The agent loop manager, which wakes the replica, sends it requests and  *)
(* puts it to sleep, is not in this repository: it is modelled from the    *)
(* calls and comments here (Manager actions).  The driver waits for it.    *)
(***************************************************************************)
EXTENDS Naturals, FiniteSets

CONSTANTS
    Workers,        \* the workers of the replica
    Requests,       \* the requests of a batch
    Configs,        \* the configurations a job may run with
    MaxUpdates,     \* bound: updates of the actor
    MaxRestarts,    \* bound: restarts of the job from a checkpoint
    Garbage,        \* the content of weights that were never loaded or dropped
    Missing         \* no adapter is loaded

ASSUME EngineAssumption ==
    /\ Workers # {}
    /\ Configs \subseteq
         [lora : BOOLEAN,           \* model.lora_rank > 0
          dummyLoad : BOOLEAN,      \* "dummy" in rollout.load_format
          sleepLevel : {1, 2},      \* vLLMAsyncRollout.sleep_level
          freeCache : BOOLEAN,      \* rollout.free_cache_engine
          legacy : BOOLEAN]         \* fsdp_workers.py, else engine_workers.py
    /\ MaxUpdates \in Nat /\ MaxRestarts \in Nat
    /\ Garbage \notin Nat /\ Missing \notin Nat /\ Garbage # Missing

VARIABLES
    config,         \* the configuration, the same at every restart
    trained,        \* the weights of the actor
    stored,         \* the weights in the last checkpoint
    mode,           \* mode[w]: "trainer" or "rollout"
    baseSyncDone,   \* baseSyncDone[w]: the engine of w has the base weights
    engine,         \* engine[w]: the weights in the engine of w
    resident,       \* resident[w]: what of the engine of w is in GPU memory
    stream,         \* stream[w]: the random states of w
    phase,          \* what the manager does
    request,        \* request[r]: where it is, and whether it uses the adapter
    prefixCache,    \* the weights the blocks of the prefix cache come from
    clearing,       \* abort_all_requests has yet to clear the prefix cache
    restarts

workerVars == <<mode, baseSyncDone, engine, resident, stream>>
serverVars == <<request, prefixCache, clearing>>
jobVars == <<config, restarts>>
vars == <<jobVars, trained, stored, workerVars, phase, serverVars>>

Weights == [base : Nat, adapter : Nat]
All == {"weights", "kv_cache"}
NoRequest == [state |-> "none", lora |-> FALSE]
InState(S) == {r \in Requests : request[r].state \in S}

TypeOK ==
    /\ config \in Configs
    /\ trained \in Weights /\ stored \in Weights
    /\ mode \in [Workers -> {"trainer", "rollout"}]
    /\ baseSyncDone \in [Workers -> BOOLEAN]
    /\ engine \in [Workers -> [base : Nat \cup {Garbage},
                               adapter : Nat \cup {Garbage, Missing}]]
    /\ resident \in [Workers -> SUBSET All]
    /\ stream \in [Workers -> [now : {"torch", "gen", "launch"},
                               torch : {"torch", "gen", "launch"},
                               gen : {"torch", "gen", "launch"}]]
    /\ phase \in {"trainer", "waking", "serving", "draining", "sleeping"}
    /\ request \in [Requests ->
            [state : {"none", "checked", "running", "done", "aborted"},
             lora : BOOLEAN]]
    /\ prefixCache \subseteq [base : Nat \cup {Garbage},
                              adapter : Nat \cup {Garbage}]
    /\ clearing \in BOOLEAN
    /\ restarts \in 0 .. MaxRestarts

-----------------------------------------------------------------------------
\* What _build_rollout and the launch of the server leave: an engine in GPU
\* memory, with the weights of the model path or with dummy ones.
Launched ==
    [mode |-> [w \in Workers |-> "rollout"],
     baseSyncDone |-> [w \in Workers |-> ~ config.dummyLoad],
     engine |-> [w \in Workers |->
        [base |-> IF config.dummyLoad THEN Garbage ELSE 0,
         adapter |-> Missing]],
     resident |-> [w \in Workers |-> All],
     stream |-> [w \in Workers |->
        [now |-> "launch", torch |-> "torch", gen |-> "gen"]]]

Init ==
    /\ config \in Configs
    /\ trained = [base |-> 0, adapter |-> 0]
    /\ stored = trained
    /\ mode = Launched.mode
    /\ baseSyncDone = Launched.baseSyncDone
    /\ engine = Launched.engine
    /\ resident = Launched.resident
    /\ stream = Launched.stream
    /\ phase = "sleeping"   \* "switch to trainer mode in AgentLoopManager"
    /\ request = [r \in Requests |-> NoRequest]
    /\ prefixCache = {}
    /\ clearing = FALSE
    /\ restarts = 0

-----------------------------------------------------------------------------
(***************************************************************************)
(* The workers.                                                            *)
(***************************************************************************)

\* The base weights are sent to the engine: at every switch without LoRA; with
\* it at the first switch, when they were not there, and, in fsdp_workers.py
\* only, at every switch when sleeping has destroyed them.
SendsBaseOnce(w) == ~ baseSyncDone[w]                            \* mutant
SendsBase(w) ==
    \/ ~ config.lora
    \/ ~ baseSyncDone[w]
    \/ config.legacy /\ config.sleepLevel = 2

\* The adapter replaces the one in the engine, once the base is there.
SendsAdapter(w) == config.lora /\ baseSyncDone[w]

\* rollout_mode keeps the training stream aside and takes up the other one.
SwitchStreamLate(s) == [s EXCEPT !.torch = s.gen, !.now = s.gen] \* mutant
ToRollout(s) == [s EXCEPT !.torch = s.now, !.now = s.gen]
ToTrainer(s) == [s EXCEPT !.gen = s.now, !.now = s.torch]

RolloutMode(w) ==
    /\ phase = "waking" /\ mode[w] = "trainer"
    /\ engine' = [engine EXCEPT
            ![w].base = IF SendsBase(w) THEN trained.base ELSE @,
            ![w].adapter = IF SendsAdapter(w) THEN trained.adapter ELSE @]
    /\ resident' = [resident EXCEPT ![w] = IF config.freeCache THEN All ELSE @]
    /\ baseSyncDone' = [baseSyncDone EXCEPT ![w] = TRUE]
    /\ stream' = [stream EXCEPT ![w] = ToRollout(@)]
    /\ mode' = [mode EXCEPT ![w] = "rollout"]
    /\ UNCHANGED <<jobVars, trained, stored, phase, serverVars>>

\* Level 2 discards the weights, level 1 keeps a copy of them.
Kept(content) ==
    IF config.sleepLevel = 2 /\ content # Missing THEN Garbage ELSE content

TrainerMode(w) ==
    /\ phase = "sleeping" /\ mode[w] = "rollout"
    /\ IF config.freeCache
       THEN /\ resident' = [resident EXCEPT ![w] = {}]
            /\ engine' = [engine EXCEPT ![w].base = Kept(@),
                                        ![w].adapter = Kept(@)]
       ELSE UNCHANGED <<resident, engine>>
    /\ stream' = [stream EXCEPT ![w] = ToTrainer(@)]
    /\ mode' = [mode EXCEPT ![w] = "trainer"]
    /\ UNCHANGED <<jobVars, trained, stored, baseSyncDone, phase, serverVars>>

-----------------------------------------------------------------------------
(***************************************************************************)
(* The server.                                                             *)
(***************************************************************************)
Generated(w, r) ==
    [base |-> engine[w].base,
     adapter |-> IF request[r].lora THEN engine[w].adapter ELSE 0]

UsesLora == config.lora /\ \A w \in Workers : engine[w].adapter # Missing

\* generate() asks which adapters are loaded and awaits the answer ...
CheckLora(r) ==
    /\ phase = "serving" /\ request[r].state = "none"
    /\ request' = [request EXCEPT ![r] = [state |-> "checked", lora |-> UsesLora]]
    /\ UNCHANGED <<jobVars, trained, stored, workerVars, phase, prefixCache, clearing>>

\* ... and then gives the request to the engine, which knows of it from then on.
Run(r) ==
    /\ request[r].state = "checked"
    /\ request' = [request EXCEPT ![r].state = "running"]
    /\ UNCHANGED <<jobVars, trained, stored, workerVars, phase, prefixCache, clearing>>

\* The blocks of a finished request stay in the prefix cache.
Finish(r) ==
    /\ request[r].state = "running"
    /\ request' = [request EXCEPT ![r].state = "done"]
    /\ prefixCache' = prefixCache \cup {Generated(w, r) : w \in Workers}
    /\ UNCHANGED <<jobVars, trained, stored, workerVars, phase, clearing>>

\* The engine refuses to reset the prefix cache while a request uses it.
KeepCache == UNCHANGED prefixCache                               \* mutant
ResetPrefixCache ==
    prefixCache' = IF InState({"running"}) = {} THEN {} ELSE prefixCache

Requeued(q) == [q EXCEPT !.state = "checked"]                    \* mutant
Aborted(q) == [q EXCEPT !.state = "aborted"]

\* abort_all_requests: every request the engine knows of; then the cache.
AbortAllRequests ==
    /\ phase = "serving" /\ ~ clearing
    /\ InState({"running"}) # {}
    /\ request' = [r \in Requests |->
            IF r \in InState({"running"}) THEN Aborted(request[r]) ELSE request[r]]
    /\ clearing' = TRUE
    /\ UNCHANGED <<jobVars, trained, stored, workerVars, phase, prefixCache>>

ClearAfterAbort ==
    /\ clearing
    /\ ResetPrefixCache
    /\ clearing' = FALSE
    /\ UNCHANGED <<jobVars, trained, stored, workerVars, phase, request>>

-----------------------------------------------------------------------------
(***************************************************************************)
(* The manager and the driver.                                             *)
(***************************************************************************)
Answered == InState({"done", "aborted"})
ForgetAnswers ==
    request' = [r \in Requests |-> IF r \in Answered THEN NoRequest ELSE request[r]]

WakeUp ==
    /\ phase = "trainer"
    /\ phase' = "waking"
    /\ ForgetAnswers
    /\ UNCHANGED <<jobVars, trained, stored, workerVars, prefixCache, clearing>>

SomeAwake == \E w \in Workers : mode[w] = "rollout"              \* mutant
AllAwake == \A w \in Workers : mode[w] = "rollout"

Serve ==
    /\ phase = "waking"
    /\ AllAwake
    /\ phase' = "serving"
    /\ UNCHANGED <<jobVars, trained, stored, workerVars, serverVars>>

\* generate_sequences has all its answers, and only then puts the replica to
\* sleep.
BeginSleep ==
    /\ phase = "serving" /\ ~ clearing
    /\ InState({"none", "checked", "running"}) = {}
    /\ phase' = "draining"
    /\ UNCHANGED <<jobVars, trained, stored, workerVars, serverVars>>

\* vLLMReplica.sleep: the engine drains, and each server goes to sleep, which
\* resets the prefix cache first.
Drain ==
    /\ phase = "draining"
    /\ InState({"running"}) = {}
    /\ ResetPrefixCache
    /\ phase' = "sleeping"
    /\ UNCHANGED <<jobVars, trained, stored, workerVars, request, clearing>>

EndSleep ==
    /\ phase = "sleeping"
    /\ \A w \in Workers : mode[w] = "trainer"
    /\ phase' = "trainer"
    /\ UNCHANGED <<jobVars, trained, stored, workerVars, serverVars>>

\* The driver trains on the batch that was generated.
UpdateActor ==
    /\ phase = "trainer"
    /\ Answered # {}
    /\ trained.base + trained.adapter < MaxUpdates
    /\ trained' = IF config.lora THEN [trained EXCEPT !.adapter = @ + 1]
                          ELSE [trained EXCEPT !.base = @ + 1]
    /\ ForgetAnswers
    /\ UNCHANGED <<jobVars, stored, workerVars, phase, prefixCache, clearing>>

SaveCheckpoint ==
    /\ phase = "trainer"
    /\ stored' = trained
    /\ UNCHANGED <<jobVars, trained, workerVars, phase, serverVars>>

\* The job is killed and started again from its checkpoint.
Restart ==
    /\ restarts < MaxRestarts
    /\ restarts' = restarts + 1
    /\ trained' = stored
    /\ mode' = Launched.mode
    /\ baseSyncDone' = Launched.baseSyncDone
    /\ engine' = Launched.engine
    /\ resident' = Launched.resident
    /\ stream' = Launched.stream
    /\ phase' = "sleeping"
    /\ request' = [r \in Requests |-> NoRequest]
    /\ prefixCache' = {}
    /\ clearing' = FALSE
    /\ UNCHANGED <<config, stored>>

Proceed ==
    \/ \E w \in Workers : RolloutMode(w) \/ TrainerMode(w)
    \/ \E r \in Requests : CheckLora(r) \/ Run(r) \/ Finish(r)
    \/ ClearAfterAbort
    \/ Serve \/ BeginSleep \/ Drain \/ EndSleep

Next == Proceed \/ AbortAllRequests \/ WakeUp \/ UpdateActor \/ SaveCheckpoint \/ Restart

Spec == Init /\ [][Next]_vars

\* Workers and engine make progress, and so does the manager in a call.
FairSpec == Spec /\ WF_vars(Proceed)

-----------------------------------------------------------------------------
\* The configurations in which every switch brings back whatever the engine
\* lacks.  The other ones do not: with a dummy load the first switch sends no
\* adapter, and the engine-based worker sends the base weights only once.
KeepsInSync(c) ==
    \/ ~ c.lora
    \/ ~ c.dummyLoad /\ (c.legacy \/ c.sleepLevel = 1 \/ ~ c.freeCache)

Running == InState({"running"})

\* The engine generates with exactly the weights that are trained, on every
\* worker, whatever was dropped by sleeping, loaded at launch or restored from
\* a checkpoint.
OnPolicy ==
    \A r \in Running, w \in Workers : Generated(w, r) = trained

\* No request reuses the blocks that older weights left in the prefix cache.
CacheIsFresh == Running # {} => prefixCache \subseteq {trained}

\* The engine only runs while its weights and its cache are in GPU memory.
RunsAwake == Running # {} => \A w \in Workers : resident[w] = All

\* Training and generation never draw from the same random stream: what one
\* side consumes does not change what the other will see.
StreamsApart ==
    \A w \in Workers : (stream[w].now = "torch") <=> (mode[w] = "trainer")

\* A call of the manager ends: the replica gets back to training.
BackToTraining == (phase # "trainer") ~> (phase = "trainer")
=============================================================================
