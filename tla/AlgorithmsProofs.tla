---------------------------- MODULE AlgorithmsProofs ----------------------------
(***************************************************************************)
(* Invariants of Algorithms for inputs of any size: where a worker has its *)
(* weights and its optimizer, for any sequence of calls; the batch sizes a *)
(* worker computes from its configuration; and what is learned of a        *)
(* conversation, for any messages, replies and limits.                     *)
(***************************************************************************)
EXTENDS Algorithms, SequenceProofs

-----------------------------------------------------------------------------
(***************************************************************************)
(* Placement in the workers (Workers, as Algorithms leads it through its   *)
(* calls).                                                                 *)
(***************************************************************************)
WorkerStates ==
    [stack : {"fsdp", "engine"}, offload : SUBSET {"param", "optimizer"},
     policy : BOOLEAN, lora : BOOLEAN, model : {"gpu", "cpu", "managed"},
     optimizer : {"empty", "gpu", "cpu", "managed"},
     used : SUBSET {"empty", "gpu", "cpu", "managed"}, alive : BOOLEAN]

\* Where the parts of a worker are between two calls.  What wake_up has moved off
\* the GPU stays off it until the next call that computes, and only a worker that
\* has not computed loads a checkpoint.
RestingFsdp(w) ==
    IF w.policy
    THEN w.offload = {} /\ w.model = "managed" /\ w.optimizer \in {"empty", "managed"}
    ELSE /\ w.model = IF "param" \in w.offload THEN "cpu" ELSE "gpu"
         /\ w.optimizer \in {"empty", IF "optimizer" \in w.offload THEN "cpu" ELSE "gpu"}
RestingEngine(w) ==
    /\ w.offload # {"optimizer"}
    /\ w.model \in {"gpu", "cpu"} /\ w.optimizer \in {"empty", "gpu", "cpu"}
    /\ "param" \in w.offload => w.model = "cpu"
    /\ "optimizer" \in w.offload => w.optimizer # "gpu"
Placed(w) == IF w.stack = "fsdp" THEN RestingFsdp(w) ELSE RestingEngine(w)
Resting(w) ==
    /\ w \in WorkerStates
    /\ "cpu" \notin w.used
    /\ IF w.alive
       THEN /\ Placed(w)
            /\ w.stack = "engine" /\ w.used = {} /\ "param" \notin w.offload => w.model = "gpu"
       ELSE w.stack = "engine" /\ w.offload = {"optimizer"}

PlacementInv == work = "worker" => Resting(input)

\* Two states of one worker.
SameWorker(v, w) ==
    /\ v \in WorkerStates
    /\ v.stack = w.stack /\ v.offload = w.offload /\ v.policy = w.policy /\ v.lora = w.lora
    /\ v.alive = w.alive

LEMMA ModelMoved ==
    ASSUME NEW w \in WorkerStates, NEW p \in {"gpu", "cpu"}
    PROVE  /\ SameWorker(W!MoveModel(w, p), w)
           /\ W!MoveModel(w, p).model = IF w.model = "managed" THEN "managed" ELSE p
           /\ W!MoveModel(w, p).optimizer = w.optimizer /\ W!MoveModel(w, p).used = w.used
  <1>. DEFINE m == IF w.model = "managed" THEN w.model ELSE p
  <1>1. W!MoveModel(w, p) = [w EXCEPT !.model = m]
    BY DEF W!MoveModel
  <1>2. m \in {"gpu", "cpu", "managed"}
    BY DEF WorkerStates
  <1>. HIDE DEF m
  <1>3. SameWorker([w EXCEPT !.model = m], w)
    BY <1>2 DEF SameWorker, WorkerStates
  <1>4. /\ [w EXCEPT !.model = m].model = m
        /\ [w EXCEPT !.model = m].optimizer = w.optimizer /\ [w EXCEPT !.model = m].used = w.used
    BY DEF WorkerStates
  <1>. QED BY <1>1, <1>3, <1>4 DEF m

LEMMA OptimizerMoved ==
    ASSUME NEW w \in WorkerStates, NEW p \in {"gpu", "cpu"}
    PROVE  /\ SameWorker(W!MoveOptimizer(w, p), w)
           /\ W!MoveOptimizer(w, p).optimizer = IF w.optimizer = "empty" THEN "empty" ELSE p
           /\ W!MoveOptimizer(w, p).model = w.model /\ W!MoveOptimizer(w, p).used = w.used
  <1>. DEFINE m == IF w.optimizer = "empty" THEN w.optimizer ELSE p
  <1>1. W!MoveOptimizer(w, p) = [w EXCEPT !.optimizer = m]
    BY DEF W!MoveOptimizer
  <1>2. m \in {"empty", "gpu", "cpu", "managed"}
    BY DEF WorkerStates
  <1>. HIDE DEF m
  <1>3. SameWorker([w EXCEPT !.optimizer = m], w)
    BY <1>2 DEF SameWorker, WorkerStates
  <1>4. /\ [w EXCEPT !.optimizer = m].optimizer = m
        /\ [w EXCEPT !.optimizer = m].model = w.model /\ [w EXCEPT !.optimizer = m].used = w.used
    BY DEF WorkerStates
  <1>. QED BY <1>1, <1>3, <1>4 DEF m

LEMMA Computed ==
    ASSUME NEW w \in WorkerStates
    PROVE  /\ SameWorker(W!Forward(w), w)
           /\ W!Forward(w).model = w.model /\ W!Forward(w).optimizer = w.optimizer
           /\ W!Forward(w).used = w.used \cup {w.model}
  BY DEF W!Forward, SameWorker, WorkerStates

LEMMA Stepped ==
    ASSUME NEW w \in WorkerStates
    PROVE  LET made == IF w.optimizer = "empty" THEN w.model ELSE w.optimizer IN
           /\ SameWorker(W!Step(w), w)
           /\ W!Step(w).model = w.model /\ W!Step(w).optimizer = made
           /\ W!Step(w).used = w.used \cup {w.model, made}
  <1>. DEFINE made == IF w.optimizer = "empty" THEN w.model ELSE w.optimizer
              placed == [w EXCEPT !.optimizer = made]
  <1>1. W!Step(w) = [placed EXCEPT !.used = w.used \cup {placed.model, placed.optimizer}]
    BY DEF W!Step, WorkerStates
  <1>2. made \in {"empty", "gpu", "cpu", "managed"}
    BY DEF WorkerStates
  <1>. HIDE DEF made
  <1>3. SameWorker(placed, w) /\ placed.model = w.model /\ placed.optimizer = made /\ placed.used = w.used
    BY <1>2 DEF SameWorker, WorkerStates
  <1>. HIDE DEF placed
  <1>4. w.model \in {"empty", "gpu", "cpu", "managed"}
    BY DEF WorkerStates
  <1>5. w.used \cup {w.model, made} \in SUBSET {"empty", "gpu", "cpu", "managed"}
    BY <1>2, <1>4 DEF WorkerStates
  <1>. DEFINE u == w.used \cup {w.model, made}
              v == [placed EXCEPT !.used = u]
  <1>6. W!Step(w) = v
    BY <1>1, <1>3
  <1>7. u \in SUBSET {"empty", "gpu", "cpu", "managed"}
    BY <1>5
  <1>. HIDE DEF u
  <1>8. SameWorker(v, w) /\ v.model = w.model /\ v.optimizer = made /\ v.used = u
    BY <1>3, <1>7 DEF SameWorker, WorkerStates
  <1>. QED BY <1>6, <1>8 DEF u, made

LEMMA OptimizerRestored ==
    ASSUME NEW w \in WorkerStates
    PROVE  /\ SameWorker(W!Restore(w), w)
           /\ W!Restore(w).model = w.model /\ W!Restore(w).optimizer = w.model
           /\ W!Restore(w).used = w.used \cup {w.model}
  <1>1. /\ SameWorker(W!Forward(w), w)
        /\ W!Forward(w).model = w.model /\ W!Forward(w).used = w.used \cup {w.model}
    BY Computed
  <1>2. W!Restore(w) = [W!Forward(w) EXCEPT !.optimizer = w.model]
    BY DEF W!Restore
  <1>3. w.model \in {"empty", "gpu", "cpu", "managed"}
    BY DEF WorkerStates
  <1>. QED BY <1>1, <1>2, <1>3 DEF SameWorker, WorkerStates

LEMMA ModelLoaded ==
    ASSUME NEW w \in WorkerStates
    PROVE  /\ SameWorker(W!LoadModel(w), w)
           /\ W!LoadModel(w).model = IF "param" \in w.offload /\ w.model # "managed" THEN "gpu"
                                   ELSE w.model
           /\ W!LoadModel(w).optimizer = w.optimizer /\ W!LoadModel(w).used = w.used
  <1>1. CASE "param" \in w.offload
    <2>1. W!LoadModel(w) = W!MoveModel(w, "gpu")
      BY <1>1 DEF W!LoadModel
    <2>2. /\ SameWorker(W!MoveModel(w, "gpu"), w)
          /\ W!MoveModel(w, "gpu").model = IF w.model = "managed" THEN "managed" ELSE "gpu"
          /\ W!MoveModel(w, "gpu").optimizer = w.optimizer /\ W!MoveModel(w, "gpu").used = w.used
      BY ModelMoved
    <2>. QED BY <1>1, <2>1, <2>2
  <1>2. CASE "param" \notin w.offload
    <2>1. W!LoadModel(w) = w
      BY <1>2 DEF W!LoadModel
    <2>2. SameWorker(w, w)
      BY DEF SameWorker
    <2>. QED BY <1>2, <2>1, <2>2
  <1>. QED BY <1>1, <1>2

LEMMA ModelOffloaded ==
    ASSUME NEW w \in WorkerStates
    PROVE  /\ SameWorker(W!OffloadModel(w), w)
           /\ W!OffloadModel(w).model = IF "param" \in w.offload /\ w.model # "managed" THEN "cpu"
                                   ELSE w.model
           /\ W!OffloadModel(w).optimizer = w.optimizer /\ W!OffloadModel(w).used = w.used
  <1>1. CASE "param" \in w.offload
    <2>1. W!OffloadModel(w) = W!MoveModel(w, "cpu")
      BY <1>1 DEF W!OffloadModel
    <2>2. /\ SameWorker(W!MoveModel(w, "cpu"), w)
          /\ W!MoveModel(w, "cpu").model = IF w.model = "managed" THEN "managed" ELSE "cpu"
          /\ W!MoveModel(w, "cpu").optimizer = w.optimizer /\ W!MoveModel(w, "cpu").used = w.used
      BY ModelMoved
    <2>. QED BY <1>1, <2>1, <2>2
  <1>2. CASE "param" \notin w.offload
    <2>1. W!OffloadModel(w) = w
      BY <1>2 DEF W!OffloadModel
    <2>2. SameWorker(w, w)
      BY DEF SameWorker
    <2>. QED BY <1>2, <2>1, <2>2
  <1>. QED BY <1>1, <1>2

LEMMA OptimizerLoaded ==
    ASSUME NEW w \in WorkerStates
    PROVE  /\ SameWorker(W!LoadOptimizer(w), w)
           /\ W!LoadOptimizer(w).optimizer = IF "optimizer" \in w.offload /\ w.optimizer # "empty" THEN "gpu"
                                   ELSE w.optimizer
           /\ W!LoadOptimizer(w).model = w.model /\ W!LoadOptimizer(w).used = w.used
  <1>1. CASE "optimizer" \in w.offload
    <2>1. W!LoadOptimizer(w) = W!MoveOptimizer(w, "gpu")
      BY <1>1 DEF W!LoadOptimizer
    <2>2. /\ SameWorker(W!MoveOptimizer(w, "gpu"), w)
          /\ W!MoveOptimizer(w, "gpu").optimizer = IF w.optimizer = "empty" THEN "empty" ELSE "gpu"
          /\ W!MoveOptimizer(w, "gpu").model = w.model /\ W!MoveOptimizer(w, "gpu").used = w.used
      BY OptimizerMoved
    <2>. QED BY <1>1, <2>1, <2>2
  <1>2. CASE "optimizer" \notin w.offload
    <2>1. W!LoadOptimizer(w) = w
      BY <1>2 DEF W!LoadOptimizer
    <2>2. SameWorker(w, w)
      BY DEF SameWorker
    <2>. QED BY <1>2, <2>1, <2>2
  <1>. QED BY <1>1, <1>2

LEMMA OptimizerOffloaded ==
    ASSUME NEW w \in WorkerStates
    PROVE  /\ SameWorker(W!OffloadOptimizer(w), w)
           /\ W!OffloadOptimizer(w).optimizer = IF "optimizer" \in w.offload /\ w.optimizer # "empty" THEN "cpu"
                                   ELSE w.optimizer
           /\ W!OffloadOptimizer(w).model = w.model /\ W!OffloadOptimizer(w).used = w.used
  <1>1. CASE "optimizer" \in w.offload
    <2>1. W!OffloadOptimizer(w) = W!MoveOptimizer(w, "cpu")
      BY <1>1 DEF W!OffloadOptimizer
    <2>2. /\ SameWorker(W!MoveOptimizer(w, "cpu"), w)
          /\ W!MoveOptimizer(w, "cpu").optimizer = IF w.optimizer = "empty" THEN "empty" ELSE "cpu"
          /\ W!MoveOptimizer(w, "cpu").model = w.model /\ W!MoveOptimizer(w, "cpu").used = w.used
      BY OptimizerMoved
    <2>. QED BY <1>1, <2>1, <2>2
  <1>2. CASE "optimizer" \notin w.offload
    <2>1. W!OffloadOptimizer(w) = w
      BY <1>2 DEF W!OffloadOptimizer
    <2>2. SameWorker(w, w)
      BY DEF SameWorker
    <2>. QED BY <1>2, <2>1, <2>2
  <1>. QED BY <1>1, <1>2

\* A worker without any computation behind it, as a call finds it.
Idle(w) == w \in WorkerStates /\ w.used = {}

LEMMA WithModelRests ==
    ASSUME NEW w, Idle(w), w.stack = "fsdp", w.alive, RestingFsdp(w)
    PROVE  Resting(W!WithModel(w))
  <1>. DEFINE a == W!LoadModel(w)
              b == W!Forward(a)
              c == W!OffloadModel(b)
  <1>1. /\ SameWorker(a, w) /\ a.optimizer = w.optimizer /\ a.used = {}
        /\ a.model = IF "param" \in w.offload /\ w.model # "managed" THEN "gpu" ELSE w.model
    BY ModelLoaded DEF Idle
  <1>2. W!WithModel(w) = c
    BY DEF W!WithModel
  <1>. HIDE DEF a
  <1>3. /\ SameWorker(b, a) /\ b.optimizer = a.optimizer /\ b.model = a.model
        /\ b.used = a.used \cup {a.model}
    BY <1>1, Computed DEF SameWorker
  <1>. HIDE DEF b
  <1>4. /\ SameWorker(c, b) /\ c.optimizer = b.optimizer /\ c.used = b.used
        /\ c.model = IF "param" \in b.offload /\ b.model # "managed" THEN "cpu" ELSE b.model
    BY <1>3, ModelOffloaded DEF SameWorker
  <1>. HIDE DEF c
  <1>5. SameWorker(c, w) /\ c.optimizer = w.optimizer /\ c.used = {a.model}
    BY <1>1, <1>3, <1>4 DEF SameWorker
  <1>6. a.model # "cpu"
    BY <1>1 DEF RestingFsdp
  <1>7. c.model = w.model
    BY <1>1, <1>3, <1>4 DEF RestingFsdp, SameWorker
  <1>8. RestingFsdp(c)
    BY <1>5, <1>7 DEF RestingFsdp, SameWorker
  <1>. QED BY <1>2, <1>5, <1>6, <1>8 DEF Resting, Placed, SameWorker

LEMMA UpdateActorRests ==
    ASSUME NEW w, Idle(w), w.stack = "fsdp", w.alive, RestingFsdp(w)
    PROVE  Resting(W!UpdateActor(w))
  <1>. DEFINE a == W!LoadModel(w)
              b == W!LoadOptimizer(a)
              c == W!Forward(b)
              d == W!Step(c)
              e == W!OffloadModel(d)
              f == W!OffloadOptimizer(e)
              loaded == IF w.policy THEN "managed" ELSE "gpu"
  <1>1. /\ SameWorker(a, w) /\ a.optimizer = w.optimizer /\ a.used = {}
        /\ a.model = IF "param" \in w.offload /\ w.model # "managed" THEN "gpu" ELSE w.model
    BY ModelLoaded DEF Idle
  <1>2. W!UpdateActor(w) = f
    BY DEF W!UpdateActor
  <1>. HIDE DEF a
  <1>3. /\ SameWorker(b, a) /\ b.model = a.model /\ b.used = a.used
        /\ b.optimizer = IF "optimizer" \in a.offload /\ a.optimizer # "empty" THEN "gpu"
                         ELSE a.optimizer
    BY <1>1, OptimizerLoaded DEF SameWorker
  <1>. HIDE DEF b
  <1>4. /\ SameWorker(c, b) /\ c.optimizer = b.optimizer /\ c.model = b.model
        /\ c.used = b.used \cup {b.model}
    BY <1>3, Computed DEF SameWorker
  <1>. HIDE DEF c
  <1>5. /\ SameWorker(d, c) /\ d.model = c.model
        /\ d.optimizer = IF c.optimizer = "empty" THEN c.model ELSE c.optimizer
        /\ d.used = c.used \cup {c.model, d.optimizer}
    BY <1>4, Stepped DEF SameWorker
  <1>. HIDE DEF d
  <1>6. /\ SameWorker(e, d) /\ e.optimizer = d.optimizer /\ e.used = d.used
        /\ e.model = IF "param" \in d.offload /\ d.model # "managed" THEN "cpu" ELSE d.model
    BY <1>5, ModelOffloaded DEF SameWorker
  <1>. HIDE DEF e
  <1>7. /\ SameWorker(f, e) /\ f.model = e.model /\ f.used = e.used
        /\ f.optimizer = IF "optimizer" \in e.offload /\ e.optimizer # "empty" THEN "cpu"
                         ELSE e.optimizer
    BY <1>6, OptimizerOffloaded DEF SameWorker
  <1>. HIDE DEF f
  <1>8. a.model = loaded
    BY <1>1 DEF RestingFsdp
  <1>9. b.optimizer \in {"empty", loaded}
    BY <1>1, <1>3 DEF RestingFsdp, SameWorker
  <1>10. d.model = loaded /\ d.optimizer = loaded
    BY <1>3, <1>4, <1>5, <1>8, <1>9
  <1>11. d.used = {loaded}
    BY <1>1, <1>3, <1>4, <1>5, <1>8, <1>10
  <1>12. /\ SameWorker(d, w) /\ SameWorker(f, w) /\ e.offload = w.offload /\ d.offload = w.offload
    BY <1>1, <1>3, <1>4, <1>5, <1>6, <1>7 DEF SameWorker
  <1>13. f.used = {loaded} /\ loaded # "cpu" /\ loaded # "empty"
    BY <1>6, <1>7, <1>11
  <1>14. /\ f.model = IF "param" \in w.offload /\ loaded # "managed" THEN "cpu" ELSE loaded
         /\ f.optimizer = IF "optimizer" \in w.offload THEN "cpu" ELSE loaded
    BY <1>6, <1>7, <1>10, <1>12, <1>13
  <1>15. RestingFsdp(f)
    BY <1>12, <1>14 DEF RestingFsdp, SameWorker
  <1>. QED BY <1>2, <1>12, <1>13, <1>15 DEF Resting, Placed, SameWorker

\* Loading a checkpoint, on either stack: the state of the optimizer is made beside
\* the weights, which are on the GPU or brought there by FSDP.
LEMMA LoadCheckpointRests ==
    ASSUME NEW w, Idle(w), w.alive, Resting(w)
    PROVE  Resting(W!LoadCheckpoint(w))
  <1>. DEFINE a == W!LoadModel(w)
              d == W!Restore(a)
              e == W!OffloadModel(d)
              f == W!OffloadOptimizer(e)
              loaded == IF w.policy THEN "managed" ELSE "gpu"
  <1>1. /\ SameWorker(a, w) /\ a.optimizer = w.optimizer /\ a.used = {}
        /\ a.model = IF "param" \in w.offload /\ w.model # "managed" THEN "gpu" ELSE w.model
    BY ModelLoaded DEF Idle
  <1>2. W!LoadCheckpoint(w) = f
    BY DEF W!LoadCheckpoint
  <1>. HIDE DEF a
  <1>5. /\ SameWorker(d, a) /\ d.model = a.model /\ d.optimizer = a.model
        /\ d.used = a.used \cup {a.model}
    BY <1>1, OptimizerRestored DEF SameWorker
  <1>. HIDE DEF d
  <1>6. /\ SameWorker(e, d) /\ e.optimizer = d.optimizer /\ e.used = d.used
        /\ e.model = IF "param" \in d.offload /\ d.model # "managed" THEN "cpu" ELSE d.model
    BY <1>5, ModelOffloaded DEF SameWorker
  <1>. HIDE DEF e
  <1>7. /\ SameWorker(f, e) /\ f.model = e.model /\ f.used = e.used
        /\ f.optimizer = IF "optimizer" \in e.offload /\ e.optimizer # "empty" THEN "cpu"
                         ELSE e.optimizer
    BY <1>6, OptimizerOffloaded DEF SameWorker
  <1>. HIDE DEF f
  <1>8. w.stack = "fsdp" => RestingFsdp(w)
    BY DEF Resting, Placed
  <1>9. w.stack # "fsdp" =>
           /\ w.stack = "engine" /\ RestingEngine(w)
           /\ "param" \notin w.offload => w.model = "gpu"
    BY DEF Resting, Placed, Idle, WorkerStates
  <1>10. CASE w.stack = "fsdp"
    <2>1. a.model = loaded
      BY <1>1, <1>8, <1>10 DEF RestingFsdp
    <2>2. /\ SameWorker(f, w) /\ e.offload = w.offload /\ d.offload = w.offload
      BY <1>1, <1>5, <1>6, <1>7 DEF SameWorker
    <2>3. f.used = {loaded} /\ loaded # "cpu" /\ loaded # "empty"
      BY <1>1, <1>5, <1>6, <1>7, <2>1
    <2>4. /\ f.model = IF "param" \in w.offload /\ loaded # "managed" THEN "cpu" ELSE loaded
          /\ f.optimizer = IF "optimizer" \in w.offload THEN "cpu" ELSE loaded
      BY <1>5, <1>6, <1>7, <2>1, <2>2, <2>3
    <2>5. RestingFsdp(f)
      BY <1>8, <1>10, <2>2, <2>4 DEF RestingFsdp, SameWorker
    <2>. QED BY <1>2, <1>10, <2>2, <2>3, <2>5 DEF Resting, Placed, SameWorker
  <1>11. CASE w.stack # "fsdp"
    <2>1. a.model = "gpu"
      BY <1>1, <1>9, <1>11 DEF RestingEngine, Idle
    <2>2. /\ SameWorker(f, w) /\ e.offload = w.offload /\ d.offload = w.offload
      BY <1>1, <1>5, <1>6, <1>7 DEF SameWorker
    <2>3. f.used = {"gpu"}
      BY <1>1, <1>5, <1>6, <1>7, <2>1
    <2>4. /\ f.model = IF "param" \in w.offload THEN "cpu" ELSE "gpu"
          /\ f.optimizer = IF "optimizer" \in w.offload THEN "cpu" ELSE "gpu"
      BY <1>5, <1>6, <1>7, <2>1, <2>2, <2>3
    <2>5. RestingEngine(f)
      BY <1>9, <1>11, <2>2, <2>3, <2>4 DEF RestingEngine, SameWorker
    <2>. QED BY <1>2, <1>9, <1>11, <2>2, <2>3, <2>5 DEF Resting, Placed, SameWorker
  <1>. QED BY <1>10, <1>11

\* The engine's own way to move the weights and the state of the optimizer.
LEMMA EngineMoved ==
    ASSUME NEW w \in WorkerStates, NEW p \in {"gpu", "cpu"},
           NEW model \in BOOLEAN, NEW optimizer \in BOOLEAN, optimizer => model
    PROVE  /\ SameWorker(W!To(w, p, model, optimizer), w)
           /\ W!To(w, p, model, optimizer).model =
                 IF model /\ w.model # "managed" THEN p ELSE w.model
           /\ W!To(w, p, model, optimizer).optimizer =
                 IF optimizer /\ w.optimizer # "empty" THEN p ELSE w.optimizer
           /\ W!To(w, p, model, optimizer).used = w.used
  <1>. DEFINE v == IF model THEN W!MoveModel(w, p) ELSE w
  <1>1. W!To(w, p, model, optimizer) = IF optimizer THEN W!MoveOptimizer(v, p) ELSE v
    BY DEF W!To
  <1>2. /\ SameWorker(v, w) /\ v.optimizer = w.optimizer /\ v.used = w.used
        /\ v.model = IF model /\ w.model # "managed" THEN p ELSE w.model
    <2>1. CASE model
      BY <2>1, ModelMoved
    <2>2. CASE ~ model
      BY <2>2 DEF SameWorker
    <2>. QED BY <2>1, <2>2
  <1>. HIDE DEF v
  <1>3. CASE optimizer
    <2>1. /\ SameWorker(W!MoveOptimizer(v, p), v)
          /\ W!MoveOptimizer(v, p).optimizer = IF v.optimizer = "empty" THEN "empty" ELSE p
          /\ W!MoveOptimizer(v, p).model = v.model /\ W!MoveOptimizer(v, p).used = v.used
      BY <1>2, OptimizerMoved DEF SameWorker
    <2>2. W!To(w, p, model, optimizer) = W!MoveOptimizer(v, p)
      BY <1>1, <1>3
    <2>3. SameWorker(W!MoveOptimizer(v, p), w)
      BY <1>2, <2>1 DEF SameWorker
    <2>. QED BY <1>2, <1>3, <2>1, <2>2, <2>3
  <1>4. CASE ~ optimizer
    BY <1>1, <1>2, <1>4
  <1>. QED BY <1>3, <1>4

\* Entering and leaving the context of the engine.
LEMMA ContextEntered ==
    ASSUME NEW w \in WorkerStates, NEW doing \in {"train", "eval"}
    PROVE  /\ SameWorker(W!Enter(w, doing, FALSE), w) /\ W!Enter(w, doing, FALSE).used = w.used
           /\ W!Enter(w, doing, FALSE).model = IF w.model # "managed" THEN "gpu" ELSE w.model
           /\ W!Enter(w, doing, FALSE).optimizer =
                 IF doing = "train" /\ w.optimizer # "empty" THEN "gpu" ELSE w.optimizer
  <1>1. W!Enter(w, doing, FALSE) = W!To(w, "gpu", TRUE, doing = "train")
    BY DEF W!Enter, W!ContextSwitch
  <1>2. (doing = "train") \in BOOLEAN
    OBVIOUS
  <1>3. /\ SameWorker(W!To(w, "gpu", TRUE, doing = "train"), w)
        /\ W!To(w, "gpu", TRUE, doing = "train").model =
              IF TRUE /\ w.model # "managed" THEN "gpu" ELSE w.model
        /\ W!To(w, "gpu", TRUE, doing = "train").optimizer =
              IF (doing = "train") /\ w.optimizer # "empty" THEN "gpu" ELSE w.optimizer
        /\ W!To(w, "gpu", TRUE, doing = "train").used = w.used
    BY <1>2, EngineMoved
  <1>. QED BY <1>1, <1>3

LEMMA ContextLeft ==
    ASSUME NEW w \in WorkerStates, NEW doing \in {"train", "eval"}, w.offload # {"optimizer"}
    PROVE  /\ SameWorker(W!Exit(w, doing, FALSE), w) /\ W!Exit(w, doing, FALSE).used = w.used
           /\ W!Exit(w, doing, FALSE).model =
                 IF "param" \in w.offload /\ w.model # "managed" THEN "cpu" ELSE w.model
           /\ W!Exit(w, doing, FALSE).optimizer =
                 IF doing = "train" /\ "optimizer" \in w.offload /\ w.optimizer # "empty"
                 THEN "cpu" ELSE w.optimizer
  <1>. DEFINE model == "param" \in w.offload
              optimizer == doing = "train" /\ "optimizer" \in w.offload
  <1>1. W!Exit(w, doing, FALSE) = W!To(w, "cpu", model, optimizer)
    BY DEF W!Exit, W!ContextSwitch
  <1>2. model \in BOOLEAN /\ optimizer \in BOOLEAN
    OBVIOUS
  <1>3. optimizer => model
    BY DEF WorkerStates
  <1>. HIDE DEF model, optimizer
  <1>4. /\ SameWorker(W!To(w, "cpu", model, optimizer), w)
        /\ W!To(w, "cpu", model, optimizer).model =
              IF model /\ w.model # "managed" THEN "cpu" ELSE w.model
        /\ W!To(w, "cpu", model, optimizer).optimizer =
              IF optimizer /\ w.optimizer # "empty" THEN "cpu" ELSE w.optimizer
        /\ W!To(w, "cpu", model, optimizer).used = w.used
    BY <1>2, <1>3, EngineMoved
  <1>. QED BY <1>1, <1>4 DEF model, optimizer

\* One mini-batch of an update, inside the context of the update.
LEMMA TrainBatchIs ==
    ASSUME NEW w \in WorkerStates, w.model = "gpu", w.optimizer \in {"empty", "gpu"}
    PROVE  /\ SameWorker(W!TrainBatch(w, TRUE), w)
           /\ W!TrainBatch(w, TRUE).model = "gpu" /\ W!TrainBatch(w, TRUE).optimizer = "gpu"
           /\ W!TrainBatch(w, TRUE).used = w.used \cup {"gpu"}
  <1>. DEFINE a == W!Forward(w)
              b == W!Step(a)
  <1>1. W!TrainBatch(w, TRUE) = b
    BY DEF W!TrainBatch, W!Enter, W!Exit
  <1>2. /\ SameWorker(a, w) /\ a.model = w.model /\ a.optimizer = w.optimizer
        /\ a.used = w.used \cup {w.model}
    BY Computed
  <1>. HIDE DEF a
  <1>3. /\ SameWorker(b, a) /\ b.model = a.model
        /\ b.optimizer = IF a.optimizer = "empty" THEN a.model ELSE a.optimizer
        /\ b.used = a.used \cup {a.model, b.optimizer}
    BY <1>2, Stepped DEF SameWorker
  <1>. HIDE DEF b
  <1>4. b.optimizer = "gpu"
    BY <1>2, <1>3
  <1>5. b.used = w.used \cup {"gpu"}
    BY <1>2, <1>3, <1>4
  <1>6. SameWorker(b, w)
    BY <1>2, <1>3 DEF SameWorker
  <1>. QED BY <1>1, <1>2, <1>3, <1>4, <1>5, <1>6

\* Two mini-batches, one after the other.
LEMMA TwoMiniBatches ==
    ASSUME NEW w
    PROVE  W!TrainMiniBatches(w, 2) =
             W!Exit(W!TrainBatch(W!TrainBatch(W!Enter(w, "train", FALSE), TRUE), TRUE), "train", FALSE)
  <1>. DEFINE start == W!Enter(w, "train", FALSE)
              After(h) == h = [k \in 0 .. 2 |-> IF k = 0 THEN start
                                                ELSE W!TrainBatch(h[k - 1], TRUE)]
              after == CHOOSE h : After(h)
              one == W!TrainBatch(start, TRUE)
              two == W!TrainBatch(one, TRUE)
              made == [k \in 0 .. 2 |-> IF k = 0 THEN start ELSE IF k = 1 THEN one ELSE two]
  <1>1. W!TrainMiniBatches(w, 2) = W!Exit(after[2], "train", FALSE)
    BY DEF W!TrainMiniBatches
  <1>2. After(made)
    <2>1. \A k \in 0 .. 2 : made[k] = IF k = 0 THEN start ELSE W!TrainBatch(made[k - 1], TRUE)
      <3>. SUFFICES ASSUME NEW k \in 0 .. 2
           PROVE  made[k] = IF k = 0 THEN start ELSE W!TrainBatch(made[k - 1], TRUE)
        OBVIOUS
      <3>. HIDE DEF start
      <3>1. made[0] = start /\ made[1] = one /\ made[2] = two
        OBVIOUS
      <3>2. k = 0 \/ k = 1 \/ k = 2
        OBVIOUS
      <3>. HIDE DEF made
      <3>3. CASE k = 0
        BY <3>1, <3>3
      <3>4. CASE k = 1
        <4>1. k - 1 = 0
          BY <3>4
        <4>2. made[k - 1] = start
          BY <3>1, <4>1
        <4>3. k # 0
          BY <3>4
        <4>. QED BY <3>1, <3>4, <4>2, <4>3, Zenon
      <3>5. CASE k = 2
        <4>1. k - 1 = 1
          BY <3>5
        <4>2. made[k - 1] = one
          BY <3>1, <4>1
        <4>3. k # 0
          BY <3>5
        <4>. QED BY <3>1, <3>5, <4>2, <4>3, Zenon
      <3>. QED BY <3>2, <3>3, <3>4, <3>5
    <2>. QED BY <2>1
  <1>3. After(after)
    <2>. HIDE DEF After, made
    <2>. QED BY <1>2
  <1>4. /\ after[0] = start /\ after[1] = W!TrainBatch(after[0], TRUE)
        /\ after[2] = W!TrainBatch(after[1], TRUE)
    <2>1. \A k \in 0 .. 2 : after[k] = IF k = 0 THEN start ELSE W!TrainBatch(after[k - 1], TRUE)
      <3>. HIDE DEF start, after
      <3>. QED BY <1>3
    <2>. HIDE DEF after, start
    <2>2. after[0] = start
      BY <2>1
    <2>3. /\ 0 \in 0 .. 2 /\ 1 \in 0 .. 2 /\ 2 \in 0 .. 2 /\ 1 # 0 /\ 2 # 0
          /\ 1 - 1 = 0 /\ 2 - 1 = 1
      OBVIOUS
    <2>4. after[1] = W!TrainBatch(after[1 - 1], TRUE)
      BY <2>1, <2>3, Zenon
    <2>5. after[2] = W!TrainBatch(after[2 - 1], TRUE)
      BY <2>1, <2>3, Zenon
    <2>6. after[1 - 1] = after[0] /\ after[2 - 1] = after[1]
      BY <2>3
    <2>. QED BY <2>2, <2>4, <2>5, <2>6
  <1>. HIDE DEF after, start
  <1>5. after[2] = W!TrainBatch(W!TrainBatch(start, TRUE), TRUE)
    BY <1>4
  <1>6. W!TrainMiniBatches(w, 2)
           = W!Exit(W!TrainBatch(W!TrainBatch(start, TRUE), TRUE), "train", FALSE)
    BY <1>1, <1>5
  <1>. QED BY <1>6 DEF start

LEMMA TrainMiniBatchesRests ==
    ASSUME NEW w, Idle(w), w.stack = "engine", w.alive, RestingEngine(w)
    PROVE  Resting(W!TrainMiniBatches(w, 2))
  <1>. DEFINE a == W!Enter(w, "train", FALSE)
              b == W!TrainBatch(a, TRUE)
              c == W!TrainBatch(b, TRUE)
              d == W!Exit(c, "train", FALSE)
  <1>1. W!TrainMiniBatches(w, 2) = d
    BY TwoMiniBatches
  <1>2. /\ SameWorker(a, w) /\ a.used = {} /\ a.model = "gpu" /\ a.optimizer \in {"empty", "gpu"}
    BY ContextEntered DEF Idle, RestingEngine
  <1>. HIDE DEF a
  <1>3. /\ SameWorker(b, a) /\ b.model = "gpu" /\ b.optimizer = "gpu" /\ b.used = {"gpu"}
    BY <1>2, TrainBatchIs DEF SameWorker
  <1>. HIDE DEF b
  <1>4. /\ SameWorker(c, b) /\ c.model = "gpu" /\ c.optimizer = "gpu" /\ c.used = {"gpu"}
    BY <1>3, TrainBatchIs DEF SameWorker
  <1>. HIDE DEF c
  <1>5. c.offload # {"optimizer"} /\ c.offload = w.offload /\ c \in WorkerStates
    BY <1>2, <1>3, <1>4 DEF SameWorker, RestingEngine
  <1>6. /\ SameWorker(d, c) /\ d.used = {"gpu"}
        /\ d.model = IF "param" \in w.offload THEN "cpu" ELSE "gpu"
        /\ d.optimizer = IF "optimizer" \in w.offload THEN "cpu" ELSE "gpu"
    BY <1>4, <1>5, ContextLeft
  <1>. HIDE DEF d
  <1>7. SameWorker(d, w)
    BY <1>2, <1>3, <1>4, <1>6 DEF SameWorker
  <1>8. RestingEngine(d)
    BY <1>5, <1>6, <1>7 DEF RestingEngine, SameWorker
  <1>9. d.stack = "engine" /\ d.alive /\ d \in WorkerStates
    BY <1>7 DEF SameWorker
  <1>10. Resting(d)
    BY <1>6, <1>8, <1>9 DEF Resting, Placed
  <1>. QED BY <1>1, <1>10

LEMMA InferBatchRests ==
    ASSUME NEW w, Idle(w), w.stack = "engine", w.alive, RestingEngine(w)
    PROVE  Resting(W!InferBatch(w))
  <1>. DEFINE a == W!Enter(w, "eval", FALSE)
              b == W!Forward(a)
              d == W!Exit(b, "eval", FALSE)
  <1>1. W!InferBatch(w) = d
    BY DEF W!InferBatch
  <1>2. /\ SameWorker(a, w) /\ a.used = {} /\ a.model = "gpu" /\ a.optimizer = w.optimizer
    BY ContextEntered DEF Idle, RestingEngine
  <1>. HIDE DEF a
  <1>3. /\ SameWorker(b, a) /\ b.model = "gpu" /\ b.optimizer = w.optimizer /\ b.used = {"gpu"}
    BY <1>2, Computed DEF SameWorker
  <1>. HIDE DEF b
  <1>5. b.offload # {"optimizer"} /\ b.offload = w.offload /\ b \in WorkerStates
    BY <1>2, <1>3 DEF SameWorker, RestingEngine
  <1>6. /\ SameWorker(d, b) /\ d.used = {"gpu"} /\ d.optimizer = w.optimizer
        /\ d.model = IF "param" \in w.offload THEN "cpu" ELSE "gpu"
    BY <1>3, <1>5, ContextLeft
  <1>. HIDE DEF d
  <1>7. SameWorker(d, w)
    BY <1>2, <1>3, <1>6 DEF SameWorker
  <1>8. RestingEngine(d)
    BY <1>5, <1>6, <1>7 DEF RestingEngine, SameWorker
  <1>9. d.stack = "engine" /\ d.alive /\ d \in WorkerStates
    BY <1>7 DEF SameWorker
  <1>10. Resting(d)
    BY <1>6, <1>8, <1>9 DEF Resting, Placed
  <1>. QED BY <1>1, <1>10

\* Moving the weights to the GPU, computing and, if it is configured, moving them back.
LEMMA SaveEngineRests ==
    ASSUME NEW w, Idle(w), w.stack = "engine", w.alive, RestingEngine(w)
    PROVE  Resting(W!SaveEngine(w))
  <1>. DEFINE a == IF "param" \in w.offload \/ w.model = "cpu" THEN W!MoveModel(w, "gpu") ELSE w
              b == W!Forward(a)
              c == W!OffloadModel(b)
  <1>1. W!SaveEngine(w) = c
    BY DEF W!SaveEngine
  <1>2. SameWorker(a, w) /\ a.used = {} /\ a.model = "gpu" /\ a.optimizer = w.optimizer
    <2>1. CASE "param" \in w.offload \/ w.model = "cpu"
      BY <2>1, ModelMoved DEF Idle, RestingEngine
    <2>2. CASE ~ ("param" \in w.offload \/ w.model = "cpu")
      BY <2>2 DEF SameWorker, Idle, RestingEngine
    <2>. QED BY <2>1, <2>2
  <1>. HIDE DEF a
  <1>3. /\ SameWorker(b, a) /\ b.model = "gpu" /\ b.optimizer = w.optimizer /\ b.used = {"gpu"}
    BY <1>2, Computed DEF SameWorker
  <1>. HIDE DEF b
  <1>4. /\ SameWorker(c, b) /\ c.optimizer = w.optimizer /\ c.used = {"gpu"}
        /\ c.model = IF "param" \in b.offload THEN "cpu" ELSE "gpu"
    BY <1>3, ModelOffloaded DEF SameWorker
  <1>. HIDE DEF c
  <1>5. SameWorker(c, w) /\ b.offload = w.offload
    BY <1>2, <1>3, <1>4 DEF SameWorker
  <1>6. RestingEngine(c)
    BY <1>4, <1>5 DEF RestingEngine, SameWorker
  <1>7. c.stack = "engine" /\ c.alive /\ c \in WorkerStates
    BY <1>5 DEF SameWorker
  <1>8. Resting(c)
    BY <1>4, <1>6, <1>7 DEF Resting, Placed
  <1>. QED BY <1>1, <1>8

LEMMA WakeUpRests ==
    ASSUME NEW w, Idle(w), w.stack = "engine", w.alive, RestingEngine(w)
    PROVE  Resting(W!WakeUp(w))
  <1>. DEFINE a == W!MoveModel(w, "gpu")
              b == W!Forward(a)
              c == W!OffloadModel(b)
              d == W!To(c, "cpu", TRUE, FALSE)
  <1>1. W!WakeUp(w) = d
    BY DEF W!WakeUp
  <1>2. SameWorker(a, w) /\ a.used = {} /\ a.model = "gpu" /\ a.optimizer = w.optimizer
    BY ModelMoved DEF Idle, RestingEngine
  <1>. HIDE DEF a
  <1>3. /\ SameWorker(b, a) /\ b.model = "gpu" /\ b.optimizer = w.optimizer /\ b.used = {"gpu"}
    BY <1>2, Computed DEF SameWorker
  <1>. HIDE DEF b
  <1>4. /\ SameWorker(c, b) /\ c.optimizer = w.optimizer /\ c.used = {"gpu"}
        /\ c.model \in {"cpu", "gpu"}
    BY <1>3, ModelOffloaded DEF SameWorker
  <1>. HIDE DEF c
  <1>5. /\ SameWorker(d, c)
        /\ d.model = IF TRUE /\ c.model # "managed" THEN "cpu" ELSE c.model
        /\ d.optimizer = IF FALSE /\ c.optimizer # "empty" THEN "cpu" ELSE c.optimizer
        /\ d.used = c.used
    BY <1>4, EngineMoved DEF SameWorker
  <1>. HIDE DEF d
  <1>6. SameWorker(d, w) /\ d.model = "cpu" /\ d.optimizer = w.optimizer /\ d.used = {"gpu"}
    BY <1>2, <1>3, <1>4, <1>5 DEF SameWorker
  <1>7. RestingEngine(d)
    BY <1>6 DEF RestingEngine, SameWorker
  <1>8. d.stack = "engine" /\ d.alive /\ d \in WorkerStates
    BY <1>6 DEF SameWorker
  <1>9. Resting(d)
    BY <1>6, <1>7, <1>8 DEF Resting, Placed
  <1>. QED BY <1>1, <1>9

\* A reference model of its own has managed weights.
LEMMA ReferenceRests ==
    ASSUME NEW w, Idle(w), w.alive, Placed(w)
    PROVE  Resting([w EXCEPT !.used = {"managed"}])
  <1>. DEFINE v == [w EXCEPT !.used = {"managed"}]
  <1>1. /\ SameWorker(v, w) /\ v.used = {"managed"} /\ v.model = w.model
        /\ v.optimizer = w.optimizer
    BY DEF SameWorker, Idle, WorkerStates
  <1>. HIDE DEF v
  <1>2. v.stack = w.stack /\ v.alive /\ v \in WorkerStates
    BY <1>1 DEF SameWorker
  <1>3. Placed(v)
    BY <1>1 DEF Placed, RestingFsdp, RestingEngine, SameWorker
  <1>4. Resting(v)
    BY <1>1, <1>2, <1>3 DEF Resting
  <1>. QED BY <1>4 DEF v

Calls == {"update_actor", "compute_log_prob", "compute_ref_log_prob",
          "save_checkpoint", "load_checkpoint", "wake_up"}

LEMMA CallRests ==
    ASSUME NEW worker, Resting(worker), worker.alive, NEW call \in Calls,
           call = "load_checkpoint" => worker.used = {}
    PROVE  Resting(W!Call(worker, call))
  <1>. DEFINE w == [worker EXCEPT !.used = {}]
  <1>1. /\ SameWorker(w, worker) /\ w.used = {} /\ w.model = worker.model
        /\ w.optimizer = worker.optimizer /\ worker \in WorkerStates
    BY DEF SameWorker, Resting, WorkerStates
  <1>2. Idle(w) /\ w.alive
    BY <1>1 DEF Idle, SameWorker
  <1>3. call = "load_checkpoint" => w = worker
    BY <1>1 DEF WorkerStates
  <1>4. W!Call(worker, call) =
          CASE call = "update_actor" ->
                 IF w.stack = "fsdp" THEN W!UpdateActor(w) ELSE W!TrainMiniBatches(w, 2)
            [] call = "compute_log_prob" ->
                 IF w.stack = "fsdp" THEN W!WithModel(w) ELSE W!InferBatch(w)
            [] call = "compute_ref_log_prob" ->
                 IF w.stack = "fsdp" THEN W!ComputeRefLogProb(w)
                 ELSE IF w.lora THEN W!InferBatch(w) ELSE [w EXCEPT !.used = {"managed"}]
            [] call = "save_checkpoint" ->
                 IF w.stack = "fsdp" THEN W!WithModel(w) ELSE W!SaveEngine(w)
            [] call = "load_checkpoint" -> W!LoadCheckpoint(w)
            [] call = "wake_up" -> IF w.stack = "fsdp" THEN W!WithModel(w) ELSE W!WakeUp(w)
    BY DEF W!Call
  <1>. HIDE DEF w
  <1>5. Placed(w)
    BY <1>1 DEF Resting, Placed, RestingFsdp, RestingEngine, SameWorker
  <1>6. CASE call = "load_checkpoint"
    <2>1. Resting(W!LoadCheckpoint(w))
      BY <1>2, <1>3, <1>6, LoadCheckpointRests
    <2>. QED BY <1>4, <1>6, <2>1
  <1>7. CASE w.stack = "fsdp" /\ call # "load_checkpoint"
    <2>1. RestingFsdp(w)
      BY <1>5, <1>7 DEF Placed
    <2>2. Resting(W!UpdateActor(w)) /\ Resting(W!WithModel(w))
      BY <1>2, <1>7, <2>1, UpdateActorRests, WithModelRests
    <2>3. Resting(W!ComputeRefLogProb(w))
      <3>1. CASE w.lora
        BY <2>2, <3>1 DEF W!ComputeRefLogProb
      <3>2. CASE ~ w.lora
        BY <1>2, <1>5, <3>2, ReferenceRests DEF W!ComputeRefLogProb
      <3>. QED BY <3>1, <3>2
    <2>. QED BY <1>4, <1>7, <2>2, <2>3 DEF Calls
  <1>8. CASE w.stack # "fsdp" /\ call # "load_checkpoint"
    <2>1. w.stack = "engine" /\ RestingEngine(w)
      BY <1>2, <1>5, <1>8 DEF Idle, WorkerStates, Placed
    <2>2. Resting(W!TrainMiniBatches(w, 2)) /\ Resting(W!InferBatch(w))
      BY <1>2, <2>1, TrainMiniBatchesRests, InferBatchRests
    <2>3. Resting(W!SaveEngine(w)) /\ Resting(W!WakeUp(w))
      BY <1>2, <2>1, SaveEngineRests, WakeUpRests
    <2>4. Resting([w EXCEPT !.used = {"managed"}])
      BY <1>2, <1>5, ReferenceRests
    <2>. QED BY <1>4, <1>8, <2>2, <2>3, <2>4 DEF Calls
  <1>. QED BY <1>6, <1>7, <1>8

LEMMA StartRests ==
    ASSUME NEW stack \in {"fsdp", "engine"}, NEW offload \in SUBSET {"param", "optimizer"},
           NEW policy \in BOOLEAN, NEW lora \in BOOLEAN, policy => stack = "fsdp"
    PROVE  Resting(W!Start(W!Worker(stack, offload, policy, lora)))
  <1>. DEFINE w == W!Worker(stack, offload, policy, lora)
              a == W!BuildModelOptimizer(w)
              b == W!OffloadModel(a)
              c == W!OffloadOptimizer(b)
  <1>1. /\ Idle(w) /\ w.stack = stack /\ w.offload = offload /\ w.policy = policy
        /\ w.alive /\ w.model = "gpu" /\ w.optimizer = "empty"
    BY DEF W!Worker, Idle, WorkerStates
  <1>. HIDE DEF w
  <1>2. CASE stack = "fsdp"
    <2>1. W!Start(w) = c
      BY <1>1, <1>2 DEF W!Start, W!InitModel
    <2>2. /\ a \in WorkerStates /\ a.used = {} /\ a.stack = "fsdp" /\ a.alive /\ a.policy = policy
          /\ a.model = IF policy THEN "managed" ELSE "gpu"
          /\ a.offload = IF policy THEN {} ELSE offload
          /\ a.optimizer = "empty"
      <3>1. CASE policy
        BY <1>1, <1>2, <3>1 DEF W!BuildModelOptimizer, Idle, WorkerStates
      <3>2. CASE ~ policy
        BY <1>1, <1>2, <3>2 DEF W!BuildModelOptimizer, Idle
      <3>. QED BY <3>1, <3>2
    <2>. HIDE DEF a
    <2>3. /\ SameWorker(b, a) /\ b.optimizer = "empty" /\ b.used = {}
          /\ b.model = IF "param" \in a.offload /\ a.model # "managed" THEN "cpu" ELSE a.model
      BY <2>2, ModelOffloaded
    <2>. HIDE DEF b
    <2>4. /\ SameWorker(c, b) /\ c.model = b.model /\ c.used = {} /\ c.optimizer = "empty"
      BY <2>3, OptimizerOffloaded DEF SameWorker
    <2>. HIDE DEF c
    <2>5. SameWorker(c, a)
      BY <2>3, <2>4 DEF SameWorker
    <2>6. RestingFsdp(c)
      BY <2>2, <2>3, <2>4, <2>5 DEF RestingFsdp, SameWorker
    <2>7. Resting(c)
      BY <2>2, <2>4, <2>5, <2>6 DEF Resting, Placed, SameWorker
    <2>. QED BY <2>1, <2>7 DEF w
  <1>3. CASE stack # "fsdp" /\ offload = {"optimizer"}
    <2>1. W!Start(w) = [w EXCEPT !.alive = FALSE]
      BY <1>1, <1>3 DEF W!Start, W!Initialize, W!To
    <2>2. Resting([w EXCEPT !.alive = FALSE])
      BY <1>1, <1>3 DEF Resting, Idle, WorkerStates
    <2>. QED BY <2>1, <2>2 DEF w
  <1>4. CASE stack # "fsdp" /\ offload # {"optimizer"}
    <2>. DEFINE model == "param" \in w.offload
                optimizer == "optimizer" \in w.offload
                d == W!To(w, "cpu", model, optimizer)
    <2>1. W!Start(w) = d
      BY <1>1, <1>4 DEF W!Start, W!Initialize
    <2>2. model \in BOOLEAN /\ optimizer \in BOOLEAN
      OBVIOUS
    <2>3. optimizer => model
      BY <1>1, <1>4
    <2>4. w \in WorkerStates
      BY <1>1 DEF Idle
    <2>. HIDE DEF model, optimizer
    <2>5. /\ SameWorker(d, w)
          /\ d.model = IF model /\ w.model # "managed" THEN "cpu" ELSE w.model
          /\ d.optimizer = IF optimizer /\ w.optimizer # "empty" THEN "cpu" ELSE w.optimizer
          /\ d.used = w.used
      BY <2>2, <2>3, <2>4, EngineMoved
    <2>. HIDE DEF d
    <2>6. d.model = (IF model THEN "cpu" ELSE "gpu") /\ d.optimizer = "empty" /\ d.used = {}
      BY <1>1, <2>5 DEF Idle
    <2>7. RestingEngine(d)
      BY <1>1, <1>4, <2>5, <2>6 DEF RestingEngine, SameWorker, model
    <2>8. d.stack = "engine" /\ d.alive /\ d \in WorkerStates
      BY <1>1, <1>4, <2>5 DEF SameWorker
    <2>9. "param" \notin d.offload => d.model = "gpu"
      BY <2>5, <2>6 DEF SameWorker, model
    <2>10. Resting(d)
      BY <2>6, <2>7, <2>8, <2>9 DEF Resting, Placed
    <2>. QED BY <2>1, <2>10 DEF w
  <1>. QED BY <1>2, <1>3, <1>4

LEMMA PlacementInvNext ==
    ASSUME PlacementInv, ChooseNext
    PROVE  PlacementInv'
  <1>1. CASE StartWorker
    <2>1. PICK w \in WorkerKinds : input' = W!Start(w)
      BY <1>1 DEF StartWorker
    <2>2. PICK stack \in {"fsdp", "engine"}, policy \in BOOLEAN, lora \in BOOLEAN :
            \E offload \in SUBSET {"param", "optimizer"} :
                w = W!Worker(stack, offload, policy, lora) /\ (policy => stack = "fsdp")
      BY InputAssumption
    <2>3. PICK offload \in SUBSET {"param", "optimizer"} :
                w = W!Worker(stack, offload, policy, lora) /\ (policy => stack = "fsdp")
      BY <2>2
    <2>4. Resting(W!Start(W!Worker(stack, offload, policy, lora)))
      BY <2>3, StartRests
    <2>. QED BY <2>1, <2>3, <2>4 DEF PlacementInv
  <1>2. CASE CallWorker
    <2>1. Resting(input) /\ input.alive
      BY <1>2 DEF CallWorker, PlacementInv
    <2>2. PICK call \in Calls : /\ call = "load_checkpoint" => input.used = {}
                               /\ input' = W!Call(input, call)
      BY <1>2 DEF CallWorker, Calls
    <2>3. Resting(W!Call(input, call))
      BY <2>1, <2>2, CallRests
    <2>. QED BY <2>2, <2>3 DEF PlacementInv
  <1>3. CASE work' # "worker"
    BY <1>3 DEF PlacementInv
  <1>4. ~ StartWorker /\ ~ CallWorker => work' # "worker"
    BY DEF ChooseNext, PickSample, StartRequest, AskEngine, EngineAnswers, ToolsReply,
           UserReplies, FinishRequest, StartBatch, OperateOnBatch, DivideModel, StartGroup,
           ComputeLoss, EstimateAdvantages, ComputeLogProb, RunKernel, SizeBatches
  <1>. QED BY <1>1, <1>2, <1>3, <1>4

\* PlacedForUse: in any sequence of calls a worker computes with weights and state
\* that are on its GPU, or that FSDP brings there, and what is to be offloaded
\* is off the GPU after each call.
THEOREM WeightsArePlaced == ChooseSpec => []PlacedForUse
  <1>1. ChooseInit => PlacementInv
    BY DEF ChooseInit, PlacementInv
  <1>2. PlacementInv /\ [ChooseNext]_inputVars => PlacementInv'
    <2>1. CASE ChooseNext
      BY <2>1, PlacementInvNext
    <2>2. CASE UNCHANGED inputVars
      BY <2>2 DEF inputVars, PlacementInv
    <2>. QED BY <2>1, <2>2
  <1>3. PlacementInv => PlacedForUse
    BY DEF PlacementInv, PlacedForUse, Resting, Placed, RestingFsdp, RestingEngine, WorkerStates
  <1>. QED BY <1>1, <1>2, <1>3, PTL DEF ChooseSpec

-----------------------------------------------------------------------------
(***************************************************************************)
(* Batch sizes (Workers).                                                  *)
(***************************************************************************)
LEMMA ExactDivision ==
    ASSUME NEW a \in Nat, NEW b \in Nat \ {0}, a % b = 0
    PROVE  a \div b \in Nat /\ a = (a \div b) * b
  BY SMTT(30)

LEMMA QuotientIs ==
    ASSUME NEW q \in Nat, NEW b \in Nat \ {0}, NEW r \in 0 .. b - 1
    PROVE  (q * b + r) \div b = q
  BY SMTT(30)

LEMMA Cancelled ==
    ASSUME NEW a \in Nat, NEW b \in Nat, NEW d \in Nat \ {0}, a * d = b * d
    PROVE  a = b
  <1>1. CASE a < b
    <2>1. (a + 1) * d <= b * d
      BY <1>1, Times
    <2>2. (a + 1) * d = a * d + d
      OBVIOUS
    <2>3. a * d \in Nat
      OBVIOUS
    <2>. QED BY <2>1, <2>2, <2>3
  <1>2. CASE b < a
    <2>1. (b + 1) * d <= a * d
      BY <1>2, Times
    <2>2. (b + 1) * d = b * d + d
      OBVIOUS
    <2>3. b * d \in Nat
      OBVIOUS
    <2>. QED BY <2>1, <2>2, <2>3
  <1>. QED BY <1>1, <1>2

\* How many parts of a size there are, the last one included.
Parts(total, size) == (total + size - 1) \div size

LEMMA PartsAre ==
    ASSUME NEW total \in Nat, NEW size \in Nat \ {0}
    PROVE  /\ Parts(total, size) \in Nat
           /\ total <= Parts(total, size) * size
           /\ \A k \in 1 .. Parts(total, size) : (k - 1) * size < total
  <1>. DEFINE c == (total + size - 1) \div size
              d == (total + size - 1) % size
  <1>1. c \in Nat /\ d \in 0 .. size - 1 /\ total + size - 1 = c * size + d
    BY SMTT(30)
  <1>. HIDE DEF c, d
  <1>2. ASSUME NEW k \in 1 .. c
        PROVE  (k - 1) * size < total
    <2>1. k \in Nat /\ k <= c
      BY <1>1
    <2>2. k * size <= c * size /\ k * size \in Nat /\ c * size \in Nat
      BY <1>1, <2>1, Times
    <2>3. (k - 1) * size = k * size - size
      BY <2>1
    <2>. QED BY <1>1, <2>2, <2>3
  <1>3. c * size \in Nat
    BY <1>1
  <1>4. total <= c * size
    BY <1>1, <1>3
  <1>5. Parts(total, size) = c
    BY DEF c, Parts
  <1>. QED BY <1>1, <1>2, <1>4, <1>5

\* However a number of rows is split, the parts are not empty and add up to it.
LEMMA SplitAddsUp ==
    ASSUME NEW total \in Nat, NEW size \in Nat \ {0}
    PROVE  /\ W!Split(total, size) \in [1 .. Parts(total, size) -> Nat \ {0}]
           /\ AddedUp(W!Split(total, size)) = total
  <1>. DEFINE c == Parts(total, size)
              s == [k \in 1 .. c |-> IF k * size <= total THEN size ELSE total - ((k - 1) * size)]
              f == [k \in 0 .. c |-> IF k * size <= total THEN k * size ELSE total]
  <1>1. W!Split(total, size) = s
    BY DEF W!Split, Parts
  <1>2. c \in Nat /\ total <= c * size /\ \A k \in 1 .. c : (k - 1) * size < total
    BY PartsAre
  <1>. HIDE DEF c
  <1>3. ASSUME NEW k \in 1 .. c
        PROVE  /\ s[k] = IF k * size <= total THEN size ELSE total - ((k - 1) * size)
               /\ s[k] \in Nat \ {0}
    <2>. DEFINE a == (k - 1) * size
    <2>1. a < total /\ a \in Nat
      BY <1>2
    <2>2. s[k] = IF k * size <= total THEN size ELSE total - a
      OBVIOUS
    <2>. HIDE DEF a, s
    <2>3. s[k] \in Nat \ {0}
      BY <2>1, <2>2
    <2>. QED BY <2>2, <2>3 DEF a
  <1>4. s \in [1 .. c -> Nat \ {0}]
    BY <1>3
  <1>5. ASSUME NEW k \in 0 .. c
        PROVE  f[k] = (IF k * size <= total THEN k * size ELSE total) /\ f[k] \in Int
    <2>. DEFINE b == k * size
    <2>1. b \in Nat
      BY <1>2
    <2>2. f[k] = IF b <= total THEN b ELSE total
      OBVIOUS
    <2>. HIDE DEF b, f
    <2>3. f[k] \in Int
      BY <2>1, <2>2
    <2>. QED BY <2>2, <2>3 DEF b
  <1>6. f \in [0 .. c -> Int]
    BY <1>5
  <1>7. f[0] = 0
    <2>1. 0 \in 0 .. c /\ 0 * size = 0 /\ 0 <= total
      BY <1>2
    <2>. HIDE DEF f
    <2>. QED BY <1>5, <2>1
  <1>8. f[c] = total
    <2>1. c \in 0 .. c /\ c * size \in Nat
      BY <1>2
    <2>. HIDE DEF f
    <2>2. f[c] = IF c * size <= total THEN c * size ELSE total
      BY <1>5, <2>1
    <2>. QED BY <1>2, <2>1, <2>2
  <1>. HIDE DEF s, f
  <1>9. \A k \in 1 .. c : f[k] = f[k - 1] + s[k]
    <2>. SUFFICES ASSUME NEW k \in 1 .. c PROVE f[k] = f[k - 1] + s[k]
      OBVIOUS
    <2>. DEFINE a == (k - 1) * size
                b == k * size
    <2>1. a < total /\ a \in Nat /\ b \in Nat /\ b = a + size
      BY <1>2
    <2>2. k - 1 \in 0 .. c /\ k \in 0 .. c
      BY <1>2
    <2>3. f[k] = IF b <= total THEN b ELSE total
      BY <1>5, <2>2
    <2>4. f[k - 1] = IF a <= total THEN a ELSE total
      BY <1>5, <2>2
    <2>5. s[k] = IF b <= total THEN size ELSE total - a
      BY <1>3
    <2>. HIDE DEF a, b
    <2>. QED BY <2>1, <2>3, <2>4, <2>5
  <1>10. Len(s) = c
    BY <1>2, <1>4, LengthOfFunction
  <1>11. TotalOf(s) = f[c]
    BY <1>2, <1>6, <1>7, <1>9, <1>10, TotalIs
  <1>12. AddedUp(s) = TotalOf(s)
    BY DEF AddedUp, TotalOf
  <1>. QED BY <1>1, <1>4, <1>8, <1>11, <1>12 DEF c

\* A multiple is split into equal parts.
LEMMA EvenSplit ==
    ASSUME NEW q \in Nat, NEW size \in Nat \ {0}
    PROVE  W!Split(q * size, size) = [k \in 1 .. q |-> size]
  <1>. DEFINE total == q * size
  <1>1. total \in Nat
    OBVIOUS
  <1>2. Parts(total, size) = q
    <2>1. size - 1 \in 0 .. size - 1 /\ q * size + (size - 1) = total + size - 1
      OBVIOUS
    <2>2. (q * size + (size - 1)) \div size = q
      BY <2>1, QuotientIs
    <2>. QED BY <2>1, <2>2 DEF Parts
  <1>3. W!Split(total, size) = [k \in 1 .. Parts(total, size) |->
            IF k * size <= total THEN size ELSE total - ((k - 1) * size)]
    BY DEF W!Split, Parts
  <1>4. \A k \in 1 .. q : k * size <= total
    <2>. SUFFICES ASSUME NEW k \in 1 .. q PROVE k * size <= total
      OBVIOUS
    <2>1. k \in Nat /\ k <= q
      OBVIOUS
    <2>. QED BY <2>1, Times
  <1>. HIDE DEF total
  <1>5. W!Split(total, size) = [k \in 1 .. q |-> size]
    BY <1>2, <1>3, <1>4
  <1>. QED BY <1>5 DEF total

\* A configuration that has passed the check and the asserts of the workers.
AcceptedSizes(c) ==
    /\ c \in SizeConfigs
    /\ W!ValidateConfig(c) /\ W!Normalize(c) # W!Raises

\* What it comes to: the size and number of the rows of a rank.
LEMMA AcceptedAre ==
    ASSUME NEW c, AcceptedSizes(c)
    PROVE  LET dp == W!DataParallelSize(c)
               size == W!Normalize(c)[1]
           IN /\ dp \in Nat \ {0}
              /\ W!RowsOf(c) \in Nat /\ W!RowsOf(c) * dp = c.train * c.n
              /\ size.mini = W!MiniOfResponses(c) /\ size.mini \in Nat \ {0}
              /\ size.micro = W!PerGpu(c.micro, c.microPerGpu, dp)
              /\ size.micro \in Nat \ {0} /\ size.mini % size.micro = 0
              /\ size.logProb \in Int
  <1>. DEFINE dp == W!DataParallelSize(c)
              size == W!Normalize(c)[1]
              mini == W!MiniOfResponses(c)
              micro == W!PerGpu(c.micro, c.microPerGpu, dp)
              logProb == W!PerGpu(c.logProb, c.logProbPerGpu, dp)
  <1>1. /\ c.train \in Nat \ {0} /\ c.n \in Nat \ {0} /\ c.mini \in Nat \ {0}
        /\ c.gpus \in Nat \ {0} /\ c.sp \in Nat \ {0} /\ c.gpus % c.sp = 0
        /\ {c.micro, c.microPerGpu, c.logProb, c.logProbPerGpu} \subseteq Nat \cup {-1}
    BY InputAssumption DEF AcceptedSizes, W!Unset
  <1>2. (c.train * c.n) % c.gpus = 0
    BY DEF AcceptedSizes, W!ValidateConfig
  <1>3. dp \in Nat /\ c.gpus = dp * c.sp
    <2>1. c.gpus \in Nat /\ c.sp \in Nat \ {0} /\ c.gpus % c.sp = 0
      BY <1>1
    <2>2. dp = c.gpus \div c.sp
      BY DEF W!DataParallelSize
    <2>. QED BY <2>1, <2>2, ExactDivision
  <1>4. dp # 0
    BY <1>1, <1>3
  <1>. DEFINE all == c.train * c.n
  <1>5. all \in Nat
    BY <1>1
  <1>6. PICK g \in Nat : all = g * c.gpus
    <2>. DEFINE g == all \div c.gpus
    <2>1. c.gpus \in Nat \ {0} /\ all % c.gpus = 0
      BY <1>1, <1>2
    <2>2. g \in Nat /\ all = g * c.gpus
      <3>. HIDE DEF all
      <3>. QED BY <1>5, <2>1, ExactDivision
    <2>. QED BY <2>2
  <1>7. W!RowsOf(c) = all \div dp
    BY DEF W!RowsOf
  <1>. HIDE DEF dp, all
  <1>8. all = (g * c.sp) * dp /\ g * c.sp \in Nat
    BY <1>1, <1>3, <1>6
  <1>9. W!RowsOf(c) = g * c.sp
    <2>. DEFINE q == g * c.sp
    <2>1. q \in Nat /\ 0 \in 0 .. dp - 1 /\ dp \in Nat \ {0} /\ all = q * dp + 0
      BY <1>3, <1>4, <1>5, <1>8
    <2>. HIDE DEF q
    <2>2. all \div dp = q
      BY <2>1, QuotientIs
    <2>. QED BY <1>7, <2>2 DEF q
  <1>10. W!Normalize(c) =
            IF mini > 0 /\ (micro = -1 \/ (micro > 0 /\ mini % micro = 0 /\ mini \div micro > 0))
            THEN <<[mini |-> mini, micro |-> micro, logProb |-> logProb]>>
            ELSE <<>>
    BY DEF W!Normalize, W!Raises, W!Unset, dp
  <1>11. W!Normalize(c) # <<>>
    BY DEF AcceptedSizes, W!Raises
  <1>12. micro \in Nat
    <2>1. W!OneOf(c.micro, c.microPerGpu)
      BY DEF AcceptedSizes, W!ValidateConfig, W!ValidateActor
    <2>2. (c.micro = -1) # (c.microPerGpu = -1)
      BY <2>1 DEF W!OneOf, W!Unset
    <2>3. CASE c.micro = -1
      <3>1. micro = c.microPerGpu
        BY <2>3 DEF W!PerGpu, W!Unset
      <3>2. c.microPerGpu # -1
        BY <2>2, <2>3
      <3>. QED BY <1>1, <3>1, <3>2
    <2>4. CASE c.micro # -1
      <3>1. micro = c.micro \div dp
        BY <2>4 DEF W!PerGpu, W!Unset
      <3>2. c.micro \in Nat /\ dp \in Nat \ {0}
        BY <1>1, <1>3, <1>4, <2>4
      <3>3. c.micro \div dp \in Nat
        BY <3>2, SMTT(30)
      <3>. QED BY <3>1, <3>3
    <2>. QED BY <2>3, <2>4
  <1>13. mini \in Int
    <2>1. mini = (c.mini * c.n) \div dp
      BY DEF W!MiniOfResponses, dp
    <2>2. c.mini * c.n \in Nat
      BY <1>1
    <2>. DEFINE m == c.mini * c.n
    <2>3. m \in Nat /\ dp \in Nat \ {0}
      BY <1>3, <1>4, <2>2
    <2>. HIDE DEF m
    <2>4. m \div dp \in Int
      BY <2>3, SMTT(30)
    <2>. QED BY <2>1, <2>4 DEF m
  <1>14. logProb \in Int
    <2>1. CASE c.logProb = -1
      BY <1>1, <2>1 DEF W!PerGpu, W!Unset
    <2>2. CASE c.logProb # -1
      <3>1. logProb = c.logProb \div dp
        BY <2>2 DEF W!PerGpu, W!Unset
      <3>2. c.logProb \in Nat /\ dp \in Nat \ {0}
        BY <1>1, <1>3, <1>4, <2>2
      <3>3. c.logProb \div dp \in Int
        BY <3>2, SMTT(30)
      <3>. QED BY <3>1, <3>3
    <2>. QED BY <2>1, <2>2
  <1>. HIDE DEF mini, micro, logProb
  <1>15. /\ mini > 0 /\ micro > 0 /\ mini % micro = 0
         /\ W!Normalize(c) = <<[mini |-> mini, micro |-> micro, logProb |-> logProb]>>
    BY <1>10, <1>11, <1>12
  <1>16. size = [mini |-> mini, micro |-> micro, logProb |-> logProb]
    BY <1>15
  <1>17. size.mini = mini /\ size.micro = micro /\ size.logProb = logProb
    BY <1>16
  <1>18. mini \in Nat \ {0} /\ micro \in Nat \ {0}
    BY <1>12, <1>13, <1>15
  <1>19. W!RowsOf(c) * dp = c.train * c.n
    BY <1>8, <1>9 DEF all
  <1>. QED BY <1>3, <1>4, <1>8, <1>9, <1>14, <1>15, <1>17, <1>18, <1>19 DEF dp, mini, micro

\* The micro-batches of an update.
LEMMA UpdateIs ==
    ASSUME NEW c, AcceptedSizes(c)
    PROVE  LET size == W!Normalize(c)[1]
               minis == W!Split(W!RowsOf(c), size.mini)
           IN W!UpdatePolicy(c) = [k \in 1 .. Parts(W!RowsOf(c), size.mini) |->
                                      W!Split(minis[k], size.micro)]
  <1>. DEFINE size == W!Normalize(c)[1]
              rows == W!RowsOf(c)
              minis == W!Split(rows, size.mini)
  <1>1. rows \in Nat /\ size.mini \in Nat \ {0}
    BY AcceptedAre
  <1>2. W!UpdatePolicy(c) = [k \in DOMAIN minis |-> W!Split(minis[k], size.micro)]
    BY DEF W!UpdatePolicy
  <1>. HIDE DEF rows, size
  <1>3. minis \in [1 .. Parts(rows, size.mini) -> Nat \ {0}]
    BY <1>1, SplitAddsUp
  <1>. HIDE DEF minis
  <1>4. DOMAIN minis = 1 .. Parts(rows, size.mini)
    BY <1>3
  <1>. QED BY <1>2, <1>4 DEF minis, rows, size

\* Every row is in one micro-batch.
LEMMA RowsAddUp ==
    ASSUME NEW c, AcceptedSizes(c)
    PROVE  LET update == W!UpdatePolicy(c)
           IN AddedUp([k \in DOMAIN update |-> AddedUp(update[k])]) = W!RowsOf(c)
  <1>. DEFINE size == W!Normalize(c)[1]
              rows == W!RowsOf(c)
              minis == W!Split(rows, size.mini)
              p == Parts(rows, size.mini)
              update == W!UpdatePolicy(c)
  <1>1. rows \in Nat /\ size.mini \in Nat \ {0} /\ size.micro \in Nat \ {0}
    BY AcceptedAre
  <1>2. update = [k \in 1 .. p |-> W!Split(minis[k], size.micro)]
    BY UpdateIs
  <1>. HIDE DEF rows, size, update
  <1>3. minis \in [1 .. p -> Nat \ {0}] /\ AddedUp(minis) = rows
    BY <1>1, SplitAddsUp
  <1>. HIDE DEF minis, p
  <1>4. ASSUME NEW k \in 1 .. p
        PROVE  AddedUp(update[k]) = minis[k]
    <2>1. minis[k] \in Nat
      BY <1>3
    <2>2. AddedUp(W!Split(minis[k], size.micro)) = minis[k]
      BY <1>1, <2>1, SplitAddsUp
    <2>3. update[k] = W!Split(minis[k], size.micro)
      BY <1>2
    <2>. QED BY <2>2, <2>3
  <1>5. DOMAIN update = 1 .. p
    BY <1>2
  <1>6. [k \in DOMAIN update |-> AddedUp(update[k])] = [k \in 1 .. p |-> minis[k]]
    BY <1>4, <1>5
  <1>7. [k \in 1 .. p |-> minis[k]] = minis
    BY <1>3
  <1>. QED BY <1>3, <1>6, <1>7 DEF rows, update

\* With a mini-batch that the ranks divide and that divides the batch, an update
\* takes as many steps as configured, of full micro-batches.
LEMMA StepsAsConfigured ==
    ASSUME NEW c, AcceptedSizes(c), (c.mini * c.n) % W!DataParallelSize(c) = 0,
           c.train % c.mini = 0
    PROVE  LET update == W!UpdatePolicy(c)
           IN /\ Len(update) = c.train \div c.mini
              /\ \A k \in DOMAIN update : \A m \in DOMAIN update[k] :
                    update[k][m] = W!Normalize(c)[1].micro
  <1>. DEFINE size == W!Normalize(c)[1]
              rows == W!RowsOf(c)
              dp == W!DataParallelSize(c)
              minis == W!Split(rows, size.mini)
              update == W!UpdatePolicy(c)
              t == c.train \div c.mini
              q == size.mini \div size.micro
  <1>1. /\ rows \in Nat /\ size.mini \in Nat \ {0} /\ size.micro \in Nat \ {0}
        /\ dp \in Nat \ {0} /\ rows * dp = c.train * c.n
        /\ size.mini = W!MiniOfResponses(c) /\ size.mini % size.micro = 0
    BY AcceptedAre
  <1>2. update = [k \in 1 .. Parts(rows, size.mini) |-> W!Split(minis[k], size.micro)]
    BY UpdateIs
  <1>3. c.train \in Nat /\ c.mini \in Nat \ {0} /\ c.n \in Nat
    BY InputAssumption DEF AcceptedSizes
  <1>4. t \in Nat /\ c.train = t * c.mini
    BY <1>3, ExactDivision
  <1>5. size.mini * dp = c.mini * c.n
    <2>. DEFINE a == c.mini * c.n
    <2>1. a \in Nat /\ a % dp = 0
      BY <1>3
    <2>2. size.mini = a \div dp
      BY <1>1 DEF W!MiniOfResponses
    <2>. HIDE DEF a, dp, size
    <2>3. a = (a \div dp) * dp
      BY <1>1, <2>1, ExactDivision
    <2>. QED BY <2>2, <2>3 DEF a
  <1>. HIDE DEF rows, size, update, dp, t
  <1>6. rows = t * size.mini
    <2>. DEFINE b == t * size.mini
                e == size.mini
                a == c.mini * c.n
    <2>1. a \in Nat /\ e \in Nat /\ e * dp = a
      BY <1>1, <1>3, <1>5
    <2>2. c.train * c.n = t * a
      BY <1>3, <1>4
    <2>3. b * dp = t * (e * dp) /\ b \in Nat
      BY <1>1, <1>4, <2>1
    <2>4. rows * dp = b * dp
      <3>. HIDE DEF a, b, e
      <3>. QED BY <1>1, <2>1, <2>2, <2>3
    <2>. HIDE DEF b
    <2>5. rows = b
      BY <1>1, <2>3, <2>4, Cancelled
    <2>. QED BY <2>5 DEF b
  <1>7. minis = [k \in 1 .. t |-> size.mini]
    BY <1>1, <1>4, <1>6, EvenSplit
  <1>8. Parts(rows, size.mini) = t
    <2>1. minis \in [1 .. Parts(rows, size.mini) -> Nat \ {0}] /\ Parts(rows, size.mini) \in Nat
      BY <1>1, SplitAddsUp, PartsAre
    <2>2. Len(minis) = Parts(rows, size.mini)
      BY <2>1, LengthOfFunction
    <2>3. minis \in [1 .. t -> Nat]
      BY <1>1, <1>7
    <2>4. Len(minis) = t
      BY <1>4, <2>3, LengthOfFunction
    <2>. QED BY <2>2, <2>4
  <1>9. q \in Nat /\ size.mini = q * size.micro
    BY <1>1, ExactDivision
  <1>. HIDE DEF q
  <1>10. W!Split(size.mini, size.micro) = [m \in 1 .. q |-> size.micro]
    BY <1>1, <1>9, EvenSplit
  <1>. HIDE DEF minis
  <1>11. update = [k \in 1 .. t |-> [m \in 1 .. q |-> size.micro]]
    <2>1. \A k \in 1 .. t : W!Split(minis[k], size.micro) = [m \in 1 .. q |-> size.micro]
      BY <1>7, <1>10
    <2>. QED BY <1>2, <1>8, <2>1
  <1>12. Len(update) = t
    <2>1. [m \in 1 .. q |-> size.micro] \in [1 .. q -> Nat]
      BY <1>1
    <2>2. update \in [1 .. t -> [1 .. q -> Nat]]
      BY <1>11, <2>1
    <2>. QED BY <1>4, <2>2, LengthOfFunction
  <1>13. \A k \in DOMAIN update : \A m \in DOMAIN update[k] : update[k][m] = size.micro
    BY <1>11
  <1>. QED BY <1>12, <1>13 DEF update, size, t

\* The engine workers do the same with the sizes they accept.
LEMMA EngineDoesTheSame ==
    ASSUME NEW c, AcceptedSizes(c), W!EngineAccepts(c)
    PROVE  W!TrainMiniBatch(c) = W!UpdatePolicy(c)
  <1>. DEFINE size == W!Normalize(c)[1]
              rows == W!RowsOf(c)
              mini == W!MiniOfResponses(c)
              micro == c.microPerGpu
              minis == W!Split(rows, mini)
              t == rows \div mini
              q == mini \div micro
  <1>1. /\ rows \in Nat /\ mini \in Nat \ {0} /\ size.mini = mini
        /\ size.micro \in Nat \ {0} /\ mini % size.micro = 0
        /\ size.micro = W!PerGpu(c.micro, c.microPerGpu, W!DataParallelSize(c))
    BY AcceptedAre
  <1>2. W!UpdatePolicy(c) = [k \in 1 .. Parts(rows, mini) |-> W!Split(minis[k], size.micro)]
    BY <1>1, UpdateIs
  <1>3. micro # -1 /\ rows % mini = 0
    BY DEF W!EngineAccepts, W!MiniOfResponses, W!Unset
  <1>4. size.micro = micro
    <2>1. (c.micro = -1) # (c.microPerGpu = -1)
      BY DEF AcceptedSizes, W!ValidateConfig, W!ValidateActor, W!OneOf, W!Unset
    <2>2. c.micro = -1
      BY <1>3, <2>1
    <2>. QED BY <1>1, <2>2 DEF W!PerGpu, W!Unset
  <1>5. W!TrainMiniBatch(c) = [k \in 1 .. t |-> W!Chunk(mini, q)]
    BY DEF W!TrainMiniBatch, W!MiniOfResponses
  <1>6. micro \in Nat \ {0} /\ mini % micro = 0
    BY <1>1, <1>4
  <1>. HIDE DEF rows, mini, micro, size
  <1>7. t \in Nat /\ rows = t * mini
    BY <1>1, <1>3, ExactDivision
  <1>8. q \in Nat /\ mini = q * micro
    BY <1>1, <1>6, ExactDivision
  <1>. HIDE DEF t, q
  <1>9. q # 0
    BY <1>1, <1>6, <1>8
  <1>10. (mini + q - 1) \div q = micro
    <2>1. q - 1 \in 0 .. q - 1 /\ mini + q - 1 = micro * q + (q - 1) /\ q \in Nat \ {0}
      BY <1>6, <1>8, <1>9
    <2>2. (micro * q + (q - 1)) \div q = micro
      BY <1>6, <2>1, QuotientIs
    <2>. QED BY <2>1, <2>2
  <1>11. W!Chunk(mini, q) = W!Split(mini, micro)
    BY <1>10 DEF W!Chunk
  <1>12. minis = [k \in 1 .. t |-> mini]
    BY <1>1, <1>7, EvenSplit
  <1>13. Parts(rows, mini) = t
    <2>1. minis \in [1 .. Parts(rows, mini) -> Nat \ {0}] /\ Parts(rows, mini) \in Nat
      BY <1>1, SplitAddsUp, PartsAre
    <2>2. Len(minis) = Parts(rows, mini)
      BY <2>1, LengthOfFunction
    <2>3. minis \in [1 .. t -> Nat]
      BY <1>1, <1>12
    <2>4. Len(minis) = t
      BY <1>7, <2>3, LengthOfFunction
    <2>. QED BY <2>2, <2>4
  <1>. HIDE DEF minis
  <1>14. \A k \in 1 .. t : W!Split(minis[k], size.micro) = W!Chunk(mini, q)
    BY <1>4, <1>11, <1>12
  <1>. QED BY <1>2, <1>5, <1>13, <1>14

LEMMA AcceptedFit ==
    ASSUME work = "sizes" => input \in SizeConfigs
    PROVE  AcceptedBatchesFit
  <1>. SUFFICES ASSUME work = "sizes", W!ValidateConfig(input), W!Normalize(input) # W!Raises
       PROVE  LET size == W!Normalize(input)[1]
                  update == W!UpdatePolicy(input)
                  rows == W!RowsOf(input)
              IN
              /\ rows * W!DataParallelSize(input) = input.train * input.n
              /\ AddedUp([k \in DOMAIN update |-> AddedUp(update[k])]) = rows
              /\ size.logProb > 0 => AddedUp(W!ComputeLogProb(input)) = rows
              /\ (/\ (input.mini * input.n) % W!DataParallelSize(input) = 0
                  /\ input.train % input.mini = 0) =>
                      /\ Len(update) = input.train \div input.mini
                      /\ \A k \in DOMAIN update : \A m \in DOMAIN update[k] :
                            update[k][m] = size.micro
              /\ W!EngineAccepts(input) => W!TrainMiniBatch(input) = update
    BY DEF AcceptedBatchesFit
  <1>. DEFINE c == input
              size == W!Normalize(c)[1]
              rows == W!RowsOf(c)
  <1>1. AcceptedSizes(c)
    BY DEF AcceptedSizes
  <1>. HIDE DEF c
  <1>2. rows * W!DataParallelSize(c) = c.train * c.n /\ rows \in Nat /\ size.logProb \in Int
    BY <1>1, AcceptedAre
  <1>3. size.logProb > 0 => AddedUp(W!ComputeLogProb(c)) = rows
    <2>. SUFFICES ASSUME size.logProb > 0 PROVE AddedUp(W!ComputeLogProb(c)) = rows
      OBVIOUS
    <2>1. size.logProb \in Nat \ {0}
      BY <1>2
    <2>2. W!ComputeLogProb(c) = W!Split(rows, size.logProb)
      BY DEF W!ComputeLogProb
    <2>. HIDE DEF size, rows
    <2>3. AddedUp(W!Split(rows, size.logProb)) = rows
      BY <1>2, <2>1, SplitAddsUp
    <2>. QED BY <2>2, <2>3
  <1>4. AddedUp([k \in DOMAIN W!UpdatePolicy(c) |-> AddedUp(W!UpdatePolicy(c)[k])]) = rows
    BY <1>1, RowsAddUp
  <1>5. ((c.mini * c.n) % W!DataParallelSize(c) = 0 /\ c.train % c.mini = 0) =>
          /\ Len(W!UpdatePolicy(c)) = c.train \div c.mini
          /\ \A k \in DOMAIN W!UpdatePolicy(c) : \A m \in DOMAIN W!UpdatePolicy(c)[k] :
                W!UpdatePolicy(c)[k][m] = size.micro
    BY <1>1, StepsAsConfigured
  <1>6. W!EngineAccepts(c) => W!TrainMiniBatch(c) = W!UpdatePolicy(c)
    BY <1>1, EngineDoesTheSame
  <1>. QED BY <1>2, <1>3, <1>4, <1>5, <1>6 DEF c

\* AcceptedBatchesFit: sizes that pass the check and the asserts divide the work
\* as configured, whatever the batch, the ranks and the sizes are.
THEOREM SizesFit == ChooseSpec => []AcceptedBatchesFit
  <1>. DEFINE Chosen == work = "sizes" => input \in SizeConfigs
  <1>1. ChooseInit => Chosen
    BY DEF ChooseInit
  <1>2. Chosen /\ [ChooseNext]_inputVars => Chosen'
    <2>1. CASE SizeBatches
      BY <2>1 DEF SizeBatches
    <2>2. CASE UNCHANGED inputVars
      BY <2>2 DEF inputVars
    <2>3. ChooseNext /\ ~ SizeBatches => work' # "sizes"
      BY DEF ChooseNext, PickSample, StartRequest, AskEngine, EngineAnswers, ToolsReply,
             UserReplies, FinishRequest, StartBatch, OperateOnBatch, DivideModel, StartGroup,
             ComputeLoss, EstimateAdvantages, ComputeLogProb, RunKernel, StartWorker, CallWorker
    <2>. QED BY <2>1, <2>2, <2>3
  <1>3. Chosen => AcceptedBatchesFit
    BY AcceptedFit
  <1>. QED BY <1>1, <1>2, <1>3, PTL DEF ChooseSpec

-----------------------------------------------------------------------------
(***************************************************************************)
(* Conversations.  A request that is not finished keeps what Unfinished    *)
(* says, a finished one is true, and a sample is one of SampleJobs.        *)
(***************************************************************************)
TalkInv == work = "request" => Unfinished(input) \/ (input.phase = "done" /\ RequestTrue(input))

LEMMA RequestStarts ==
    ASSUME StartRequest PROVE TalkInv'
  <1>1. PICK r \in Talks :
            input' = [phase |-> "told", cut |-> FALSE, talk |-> V!InitializeRequest(r.messages, r.limits)]
    BY DEF StartRequest
  <1>2. r.messages \in Talk /\ r.limits \in [model : Nat, response : Nat]
    BY TalkAssumption DEF Talk, Messages, Roles
  <1>. DEFINE u == V!InitializeRequest(r.messages, r.limits)
              d == [phase |-> "told", cut |-> FALSE, talk |-> u]
  <1>3. Sound(u) /\ u.prompt <= Len(u.ids) /\ Asked(u, FALSE)
    BY <1>2, StartedIs
  <1>4. d.phase = "told" /\ d.cut = FALSE /\ d.talk = u
    OBVIOUS
  <1>. HIDE DEF u, d
  <1>5. Unfinished(d)
    BY <1>3, <1>4 DEF Unfinished
  <1>6. input' = d
    BY <1>1 DEF d, u
  <1>7. Unfinished(input)'
    BY <1>5, <1>6, Zenon DEF Unfinished
  <1>. QED BY <1>7 DEF TalkInv

\* An unfinished request stays one after a step that makes d of it.
LEMMA StaysUnfinished ==
    ASSUME NEW d, Unfinished(d), input' = d PROVE TalkInv'
  <1>1. Unfinished(input)'
    BY Zenon DEF Unfinished
  <1>. QED BY <1>1 DEF TalkInv

LEMMA EngineIsAsked ==
    ASSUME TalkInv, AskEngine PROVE TalkInv'
  <1>. DEFINE r == input.talk
              u == V!GetGenerationPromptIds(r, FALSE).request
              d == [phase |-> "asked", cut |-> FALSE, talk |-> u]
  <1>1. Unfinished(input) /\ input.phase = "told" /\ input' = d
    BY DEF TalkInv, AskEngine, Said
  <1>2. /\ input.cut = FALSE /\ Sound(r) /\ r.prompt <= Len(r.ids)
        /\ Asked(r, FALSE) \/ Ended(r, FALSE)
    BY <1>1 DEF Unfinished
  <1>. HIDE DEF r
  <1>3. Sound(u) /\ u.prompt <= Len(u.ids) /\ Asked(u, FALSE)
    BY <1>2, AskedIs
  <1>4. d.phase = "asked" /\ d.cut = FALSE /\ d.talk = u
    OBVIOUS
  <1>. HIDE DEF u, d
  <1>5. Unfinished(d)
    BY <1>3, <1>4 DEF Unfinished
  <1>. QED BY <1>1, <1>5, StaysUnfinished

LEMMA EngineHasAnswered ==
    ASSUME TalkInv, EngineAnswers PROVE TalkInv'
  <1>. DEFINE r == input.talk
              m == V!Message(NextId, "assistant", 2, 0)
  <1>1. PICK ids \in {<<>>, V!Content(m), Append(V!Content(m), V!End)} :
            input' = [phase |-> IF ids = V!Content(m) THEN "last" ELSE "answered",
                      cut |-> ids = V!Content(m), talk |-> V!AddAssistantMessage(r, m, ids)]
    BY Zenon DEF EngineAnswers, Said
  <1>2. Unfinished(input) /\ input.phase = "asked"
    BY DEF TalkInv, EngineAnswers
  <1>3. Sound(r) /\ r.prompt <= Len(r.ids) /\ Asked(r, FALSE)
    BY <1>2 DEF Unfinished
  <1>4. m \in Messages /\ m.role = "assistant" /\ m.images = 0 /\ m.text = 2
    <2>1. NextId \in Int
      <3>1. r.messages \in Seq(Messages)
        BY <1>3 DEF Sound, Requests, Talk
      <3>. QED BY <3>1, LenProperties DEF NextId
    <2>. QED BY <2>1 DEF V!Message, Messages, Roles
  <1>. HIDE DEF r, m
  <1>. DEFINE u == V!AddAssistantMessage(r, m, ids)
              cut == ids = V!Content(m)
              d == [phase |-> IF ids = V!Content(m) THEN "last" ELSE "answered",
                    cut |-> ids = V!Content(m), talk |-> u]
  <1>5. Sound(u) /\ u.prompt <= Len(u.ids) /\ Ended(u, cut)
    BY <1>3, <1>4, AnsweredIs
  <1>6. d.phase = (IF cut THEN "last" ELSE "answered") /\ d.cut = cut /\ d.talk = u /\ cut \in BOOLEAN
    OBVIOUS
  <1>7. input' = d
    BY <1>1
  <1>. HIDE DEF u, d, cut
  <1>8. Unfinished(d)
    BY <1>5, <1>6 DEF Unfinished
  <1>. QED BY <1>7, <1>8, StaysUnfinished

LEMMA ToolsHaveReplied ==
    ASSUME TalkInv, ToolsReply PROVE TalkInv'
  <1>. DEFINE r == input.talk
  <1>1. Unfinished(input) /\ input.phase = "answered"
    BY DEF TalkInv, ToolsReply
  <1>2. Sound(r) /\ r.prompt <= Len(r.ids) /\ Ended(r, FALSE)
    <2>1. input.cut = FALSE
      BY <1>1 DEF Unfinished
    <2>. QED BY <1>1, <2>1 DEF Unfinished
  <1>3. NextId \in Int
    <2>1. r.messages \in Seq(Messages)
      BY <1>2 DEF Sound, Requests, Talk
    <2>. QED BY <2>1, LenProperties DEF NextId
  <1>4. PICK sizes \in {<<<<0, 0>>>>, <<<<1, 0>>>>, <<<<1, 1>>, <<0, 0>>>>, <<<<0, 2>>, <<1, 1>>>>} :
            input' = [phase |-> "told", cut |-> FALSE, talk |-> V!AddToolResponseMessages(r,
                        [i \in DOMAIN sizes |-> V!Message(NextId + i - 1, "tool", sizes[i][1], sizes[i][2])])]
    BY Zenon DEF ToolsReply, Said
  <1>5. /\ DOMAIN sizes = 1 .. Len(sizes) /\ Len(sizes) \in Nat \ {0}
        /\ \A i \in 1 .. Len(sizes) : sizes[i][1] \in Nat /\ sizes[i][2] \in Nat
    <2>1. CASE sizes \in {<<<<0, 0>>>>, <<<<1, 0>>>>}
      <3>1. Len(sizes) = 1 /\ DOMAIN sizes = 1 .. 1
        BY <2>1
      <3>. QED BY <2>1, <3>1
    <2>2. CASE sizes \in {<<<<1, 1>>, <<0, 0>>>>, <<<<0, 2>>, <<1, 1>>>>}
      <3>1. Len(sizes) = 2 /\ DOMAIN sizes = 1 .. 2
        BY <2>2
      <3>2. \A i \in 1 .. 2 : i = 1 \/ i = 2
        OBVIOUS
      <3>. QED BY <2>2, <3>1, <3>2
    <2>. QED BY <2>1, <2>2
  <1>. DEFINE ms == [i \in DOMAIN sizes |-> V!Message(NextId + i - 1, "tool", sizes[i][1], sizes[i][2])]
              n == Len(sizes)
  <1>6. ms \in Talk /\ \A i \in 1 .. Len(ms) : ms[i].role # "assistant"
    <2>1. \A i \in 1 .. n : ms[i] \in Messages /\ ms[i].role # "assistant"
      <3>. SUFFICES ASSUME NEW i \in 1 .. n PROVE ms[i] \in Messages /\ ms[i].role # "assistant"
        OBVIOUS
      <3>1. NextId + i - 1 \in Int /\ sizes[i][1] \in Nat /\ sizes[i][2] \in Nat
        BY <1>3, <1>5
      <3>2. ms[i] = V!Message(NextId + i - 1, "tool", sizes[i][1], sizes[i][2])
        BY <1>5
      <3>. QED BY <3>1, <3>2 DEF V!Message, Messages, Roles
    <2>2. DOMAIN ms = 1 .. n /\ n \in Nat \ {0}
      BY <1>5
    <2>3. ms = [i \in 1 .. n |-> V!Message(NextId + i - 1, "tool", sizes[i][1], sizes[i][2])]
      BY <1>5
    <2>. HIDE DEF n
    <2>4. ms \in [1 .. n -> Messages]
      BY <2>1, <2>3
    <2>. HIDE DEF ms
    <2>5. ms \in Seq(Messages) /\ Len(ms) = n
      BY <2>2, <2>4, LengthOfFunction
    <2>6. ms # <<>>
      BY <2>2, <2>5
    <2>. QED BY <2>1, <2>5, <2>6 DEF Talk
  <1>. HIDE DEF r, n
  <1>. DEFINE u == V!AddToolResponseMessages(r, ms)
              d == [phase |-> "told", cut |-> FALSE, talk |-> u]
  <1>7. input' = d
    BY <1>4
  <1>. HIDE DEF ms
  <1>8. Sound(u) /\ u.prompt <= Len(u.ids) /\ Ended(u, FALSE)
    BY <1>2, <1>6, ToolsAre
  <1>9. d.phase = "told" /\ d.cut = FALSE /\ d.talk = u
    OBVIOUS
  <1>. HIDE DEF u, d
  <1>10. Unfinished(d)
    BY <1>8, <1>9 DEF Unfinished
  <1>. QED BY <1>7, <1>10, StaysUnfinished

LEMMA UserHasReplied ==
    ASSUME TalkInv, UserReplies PROVE TalkInv'
  <1>. DEFINE r == input.talk
              m == V!Message(NextId, "user", 1, 0)
              u == V!AddUserMessage(r, m)
              d == [phase |-> "told", cut |-> FALSE, talk |-> u]
  <1>1. Unfinished(input) /\ input.phase = "answered" /\ input' = d
    BY DEF TalkInv, UserReplies, Said
  <1>2. Sound(r) /\ r.prompt <= Len(r.ids) /\ Ended(r, FALSE)
    <2>1. input.cut = FALSE
      BY <1>1 DEF Unfinished
    <2>. QED BY <1>1, <2>1 DEF Unfinished
  <1>3. m \in Messages /\ m.role = "user" /\ m.images = 0
    <2>1. NextId \in Int
      <3>1. r.messages \in Seq(Messages)
        BY <1>2 DEF Sound, Requests, Talk
      <3>. QED BY <3>1, LenProperties DEF NextId
    <2>. QED BY <2>1 DEF V!Message, Messages, Roles
  <1>. HIDE DEF r, m
  <1>4. Sound(u) /\ u.prompt <= Len(u.ids) /\ Ended(u, FALSE)
    BY <1>2, <1>3, UserIs
  <1>5. d.phase = "told" /\ d.cut = FALSE /\ d.talk = u
    OBVIOUS
  <1>. HIDE DEF u, d
  <1>6. Unfinished(d)
    BY <1>4, <1>5 DEF Unfinished
  <1>. QED BY <1>1, <1>6, StaysUnfinished

LEMMA RequestFinishes ==
    ASSUME TalkInv, FinishRequest PROVE TalkInv'
  <1>. DEFINE reason == IF input.phase = "last" THEN "length" ELSE "stop"
              d == [phase |-> "done", cut |-> input.cut, talk |-> V!Finalize(input.talk, reason)]
  <1>1. Unfinished(input) /\ input' = d
    BY DEF TalkInv, FinishRequest, Said
  <1>2. reason \in {"stop", "length"}
    OBVIOUS
  <1>. HIDE DEF reason
  <1>3. RequestTrue(d)
    BY <1>1, <1>2, FinishedIsTrue
  <1>4. d.phase = "done"
    OBVIOUS
  <1>. HIDE DEF d
  <1>5. RequestTrue(input)' /\ input'.phase = "done"
    BY <1>1, <1>3, <1>4, Zenon DEF RequestTrue
  <1>. QED BY <1>5 DEF TalkInv

LEMMA TalkInvNext ==
    ASSUME TalkInv, ChooseNext PROVE TalkInv'
  <1>1. CASE StartRequest
    BY <1>1, RequestStarts
  <1>2. CASE AskEngine
    BY <1>2, EngineIsAsked
  <1>3. CASE EngineAnswers
    BY <1>3, EngineHasAnswered
  <1>4. CASE ToolsReply
    BY <1>4, ToolsHaveReplied
  <1>5. CASE UserReplies
    BY <1>5, UserHasReplied
  <1>6. CASE FinishRequest
    BY <1>6, RequestFinishes
  <1>7. CASE work' # "request"
    BY <1>7 DEF TalkInv
  <1>8. \/ StartRequest \/ AskEngine \/ EngineAnswers \/ ToolsReply \/ UserReplies \/ FinishRequest
        \/ work' # "request"
    BY DEF ChooseNext, PickSample, StartBatch, OperateOnBatch, DivideModel, StartGroup, ComputeLoss,
           EstimateAdvantages, ComputeLogProb, RunKernel, SizeBatches, StartWorker, CallWorker
  <1>. QED BY <1>1, <1>2, <1>3, <1>4, <1>5, <1>6, <1>7, <1>8

SampleInv == work = "sample" => input \in SampleJobs
LEMMA SampleInvNext ==
    ASSUME SampleInv, ChooseNext PROVE SampleInv'
  <1>1. CASE PickSample
    BY <1>1 DEF PickSample, SampleInv
  <1>2. CASE ~ PickSample
    <2>1. work' # "sample"
      BY <1>2 DEF ChooseNext, StartRequest, AskEngine, EngineAnswers, ToolsReply, UserReplies, FinishRequest,
            StartBatch, OperateOnBatch, DivideModel, StartGroup, ComputeLoss, EstimateAdvantages,
            ComputeLogProb, RunKernel, SizeBatches, StartWorker, CallWorker
    <2>. QED BY <2>1 DEF SampleInv
  <1>. QED BY <1>1, <1>2

\* What the datasets make of a conversation is true, for the samples assumed.
LEMMA SamplesAreTrue ==
    ASSUME NEW s \in SampleJobs
    PROVE  /\ s.kind = "turns" => TurnsTrue(s.c, s.messages)
           /\ s.kind = "answer" => AnswerTrue(s.c, s.question, s.answer)
  <1>1. CASE s.kind = "turns"
    <2>1. s.messages \in Talk /\ s.messages[1].role # "assistant" /\ s.c.max \in Nat
      BY <1>1, TalkAssumption DEF Talk
    <2>2. TurnsTrue(s.c, s.messages)
      BY <2>1, TurnsAreTrue
    <2>. QED BY <1>1, <2>2
  <1>2. CASE s.kind = "answer"
    <2>1. s.question \in Messages /\ s.answer \in Messages /\ s.answer.images = 0 /\ s.c.max \in Nat
      BY <1>2, TalkAssumption
    <2>2. AnswerTrue(s.c, s.question, s.answer)
      BY <2>1, AnswerIsTrue
    <2>. QED BY <1>2, <2>2
  <1>. QED BY <1>1, <1>2

\* OnlyAnswersAreTrained: the tokens of a request are those of its messages, its
\* four sequences tell the same of each token, and only the answers of the
\* engine are learned, at every moment of the conversation and after it
\* (AsyncRolloutRequest in workers/rollout/schemas.py); of a sample the answers
\* are learned, all of them and nothing else (multiturn_sft_dataset.py,
\* sft_dataset.py).
THEOREM AnswersAreTrained == ChooseSpec => []OnlyAnswersAreTrained
  <1>. DEFINE Inv == TalkInv /\ SampleInv
  <1>1. ChooseInit => Inv
    BY DEF ChooseInit, TalkInv, SampleInv
  <1>2. Inv /\ [ChooseNext]_inputVars => Inv'
    <2>1. Inv /\ ChooseNext => Inv'
      BY TalkInvNext, SampleInvNext
    <2>2. Inv /\ UNCHANGED inputVars => Inv'
      <3>1. TalkInv /\ UNCHANGED inputVars => TalkInv'
        BY Zenon DEF inputVars, TalkInv, Unfinished, RequestTrue
      <3>2. SampleInv /\ UNCHANGED inputVars => SampleInv'
        BY DEF inputVars, SampleInv
      <3>. QED BY <3>1, <3>2
    <2>. QED BY <2>1, <2>2
  <1>3. Inv => OnlyAnswersAreTrained
    <2>1. TalkInv => (work = "request" => RequestTrue(input))
      BY UnfinishedIsTrue DEF TalkInv
    <2>2. SampleInv => (work = "sample" =>
            /\ input.kind = "turns" => TurnsTrue(input.c, input.messages)
            /\ input.kind = "answer" => AnswerTrue(input.c, input.question, input.answer))
      BY SamplesAreTrue DEF SampleInv
    <2>. QED BY <2>1, <2>2 DEF OnlyAnswersAreTrained
  <1>. QED BY <1>1, <1>2, <1>3, PTL DEF ChooseSpec
=================================================================================
