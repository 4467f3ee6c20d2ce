---------------------------- MODULE RolloutExecutor ----------------------------
(***************************************************************************)
(* ExternalZeroMQDistributedExecutor and the workers of a vLLM engine:     *)
(* the engine's process sends every call to each worker over a request     *)
(* socket and reads the replies one socket after the other; every worker   *)
(* serves its reply socket in a loop that ends with the first exception.   *)
(*                                                                         *)
(* A request socket accepts the next request only after the reply to the   *)
(* last one.  A method may be collective: no worker can leave it before    *)
(* all have entered it.                                                    *)
(*                                                                         *)
(* Every reply can be unpickled.  One that cannot raises while the replies *)
(* are read and leaves those of the other sockets unread; the answers of   *)
(* the workers are not followed that far.                                  *)
(***************************************************************************)
EXTENDS Naturals, Sequences

CONSTANTS
    TP,             \* tensor_parallel_size
    MaxCalls

ASSUME ExecutorAssumption == TP \in Nat \ {0} /\ MaxCalls \in Nat \ {0}

Sockets == 1 .. TP

VARIABLES
    call,           \* the calls made
    caller,         \* what collective_rpc does: idle, send, receive or check
    collective,     \* the method of this call is collective
    next,           \* the socket that is its turn
    outputs,        \* the replies read
    last,           \* how the last call ended
    awaiting,       \* the request sockets that wait for a reply
    sent, reply,    \* the request and the reply under way, NoMessage if there is none
    worker,         \* worker[w]: receives, executes, or has left its loop
    did,            \* did[w]: the last call worker w has carried out
    failedIn        \* the first call in which a worker failed, 0 for none

callerVars == <<call, caller, collective, next, outputs, last, awaiting>>
loopVars == <<worker, did, failedIn>>
rpcVars == <<callerVars, sent, reply, loopVars>>

NoMessage == [call |-> 0, ok |-> FALSE]
Message == [call : 0 .. MaxCalls, ok : BOOLEAN]

RpcTypeOK ==
    /\ call \in 0 .. MaxCalls
    /\ caller \in {"idle", "send", "receive", "check"}
    /\ collective \in BOOLEAN
    /\ next \in 1 .. TP + 1
    /\ outputs \in Seq(Message) /\ Len(outputs) <= TP
    /\ last \in {"returned", "raised", "unsent"}
    /\ awaiting \subseteq Sockets
    /\ sent \in [Sockets -> Message] /\ reply \in [Sockets -> Message]
    /\ worker \in [Sockets -> {"receives", "executes", "ended"}]
    /\ did \in [Sockets -> 0 .. MaxCalls]
    /\ failedIn \in 0 .. MaxCalls

InitZeromq ==
    /\ call = 0 /\ caller = "idle" /\ collective = FALSE /\ next = 1
    /\ outputs = <<>> /\ last = "returned" /\ awaiting = {}
    /\ sent = [w \in Sockets |-> NoMessage] /\ reply = [w \in Sockets |-> NoMessage]
    /\ worker = [w \in Sockets |-> "receives"]
    /\ did = [w \in Sockets |-> 0] /\ failedIn = 0

-----------------------------------------------------------------------------
(***************************************************************************)
(* collective_rpc.                                                         *)
(***************************************************************************)
Call ==
    /\ caller = "idle" /\ call < MaxCalls
    /\ call' = call + 1
    /\ collective' \in BOOLEAN
    /\ caller' = "send" /\ next' = 1 /\ outputs' = <<>>
    /\ UNCHANGED <<last, awaiting, sent, reply, loopVars>>

\* socket.send: it raises an error on a socket that still awaits a reply.
Send ==
    /\ caller = "send" /\ next <= TP
    /\ IF next \in awaiting
       THEN /\ caller' = "idle" /\ last' = "unsent"
            /\ UNCHANGED <<next, awaiting, sent>>
       ELSE /\ sent' = [sent EXCEPT ![next] = [call |-> call, ok |-> TRUE]]
            /\ awaiting' = awaiting \cup {next}
            /\ next' = next + 1
            /\ UNCHANGED <<caller, last>>
    /\ UNCHANGED <<call, collective, outputs, reply, loopVars>>

SentAll ==
    /\ caller = "send" /\ next = TP + 1
    /\ caller' = "receive" /\ next' = 1
    /\ UNCHANGED <<call, collective, outputs, last, awaiting, sent, reply,
                   loopVars>>

\* socket.recv blocks until this socket's reply has come.
ReceiveUntilException ==                                         \* mutant
    /\ caller = "receive" /\ next <= TP
    /\ reply[next] # NoMessage
    /\ outputs' = Append(outputs, reply[next])
    /\ reply' = [reply EXCEPT ![next] = NoMessage]
    /\ awaiting' = awaiting \ {next}
    /\ IF reply[next].ok THEN next' = next + 1 /\ UNCHANGED <<caller, last>>
       ELSE caller' = "idle" /\ last' = "raised" /\ UNCHANGED next
    /\ UNCHANGED <<call, collective, sent, loopVars>>
Receive ==
    /\ caller = "receive" /\ next <= TP
    /\ reply[next] # NoMessage
    /\ outputs' = Append(outputs, reply[next])
    /\ reply' = [reply EXCEPT ![next] = NoMessage]
    /\ awaiting' = awaiting \ {next}
    /\ next' = next + 1
    /\ UNCHANGED <<call, caller, collective, last, sent, loopVars>>

ReceivedAll ==
    /\ caller = "receive" /\ next = TP + 1
    /\ caller' = "check"
    /\ UNCHANGED <<call, collective, next, outputs, last, awaiting, sent, reply,
                   loopVars>>

\* An output that is an exception is raised.
EndWithFirst ==                                                  \* mutant
    /\ caller = "check"
    /\ last' = IF outputs[1].ok THEN "returned" ELSE "raised"
    /\ caller' = "idle"
    /\ UNCHANGED <<call, collective, next, outputs, awaiting, sent, reply,
                   loopVars>>
End ==
    /\ caller = "check"
    /\ last' = IF \A w \in Sockets : outputs[w].ok THEN "returned" ELSE "raised"
    /\ caller' = "idle"
    /\ UNCHANGED <<call, collective, next, outputs, awaiting, sent, reply,
                   loopVars>>

-----------------------------------------------------------------------------
(***************************************************************************)
(* _loop_forever of a worker.                                              *)
(***************************************************************************)
Take(w) ==
    /\ worker[w] = "receives" /\ sent[w] # NoMessage
    /\ worker' = [worker EXCEPT ![w] = "executes"]
    /\ UNCHANGED <<callerVars, sent, reply, did, failedIn>>

Answer(w, ok) ==
    /\ reply' = [reply EXCEPT ![w] = [call |-> sent[w].call, ok |-> ok]]
    /\ sent' = [sent EXCEPT ![w] = NoMessage]

\* All workers have entered the method this worker executes.
AllEntered(w) ==
    \A v \in Sockets : did[v] = sent[w].call \/ worker[v] = "executes"

\* _execute_method returns, and its result is sent.
Succeed(w) ==
    /\ worker[w] = "executes"
    /\ collective => AllEntered(w)
    /\ Answer(w, TRUE)
    /\ did' = [did EXCEPT ![w] = sent[w].call]
    /\ worker' = [worker EXCEPT ![w] = "receives"]
    /\ UNCHANGED <<callerVars, failedIn>>

\* Unpickling, the method or pickling its result raises an exception: it is sent
\* instead, and the loop ends.
FailSilently(w) ==                                               \* mutant
    /\ worker[w] = "executes"
    /\ worker' = [worker EXCEPT ![w] = "ended"]
    /\ failedIn' = IF failedIn = 0 THEN call ELSE failedIn
    /\ UNCHANGED <<callerVars, sent, reply, did>>
Fail(w) ==
    /\ worker[w] = "executes"
    /\ Answer(w, FALSE)
    /\ worker' = [worker EXCEPT ![w] = "ended"]
    /\ failedIn' = IF failedIn = 0 THEN call ELSE failedIn
    /\ UNCHANGED <<callerVars, did>>

Caller == Send \/ SentAll \/ Receive \/ ReceivedAll \/ End
Work(w) == Take(w) \/ Succeed(w)

RpcNext == Call \/ Caller \/ \E w \in Sockets : Work(w) \/ Fail(w)

RpcSpec == InitZeromq /\ [][RpcNext]_rpcVars

\* The caller runs on, and a worker finishes a method it is not kept in.
FairRpcSpec ==
    /\ RpcSpec /\ WF_rpcVars(Caller)
    /\ \A w \in Sockets : WF_rpcVars(Work(w))

-----------------------------------------------------------------------------
\* Between two calls every socket is ready and no reply is left over, after an
\* exception too: a later call never reads the answer to an earlier one.
NoStaleReply ==
    /\ caller = "idle" => /\ awaiting = {}
                          /\ \A w \in Sockets : reply[w] = NoMessage
    /\ \A k \in DOMAIN outputs : caller # "idle" => outputs[k].call = call

\* collective_rpc is a collective call: one that returns was carried out by every
\* worker, once and in its turn, and one that raises has had a worker fail.
Abstract ==
    INSTANCE CollectiveCall WITH
        Workers <- Sockets,
        outcome <- IF caller = "idle" THEN last ELSE "none",
        broken <- failedIn # 0
ImplementsCollectiveCall == Abstract!Spec

\* A call returns or raises, even the one in which a worker fails; unless the
\* other workers wait for that worker inside a collective, or it has failed in
\* an earlier call.
CallsEnd ==
    \A n \in 1 .. MaxCalls :
        (call = n /\ caller # "idle" /\ failedIn \in {0, n})
            ~> (caller = "idle" \/ (collective /\ failedIn = n))
=============================================================================
