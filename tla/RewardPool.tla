------------------------------- MODULE RewardPool -------------------------------
(***************************************************************************)
(* The scores of a batch as PrimeRewardManager computes them: a pool of    *)
(* processes, one timeout for all rows, and for generated programs the     *)
(* cases of a row sent to the sandbox by threads that share a semaphore    *)
(* with all rows of all calls.                                             *)
(*                                                                         *)
(* All rows are submitted at once and asyncio.wait_for counts from then    *)
(* on, for a row that waits in the queue too: the deadline is one event.   *)
(* A score is the number of cases passed.  A score function may also       *)
(* return a dictionary: the manager cannot take a number out of it, and    *)
(* the exception sets the scores of the whole batch to 0.                  *)
(***************************************************************************)
EXTENDS Integers, Sequences, FiniteSets, FiniteSetsExt

CONSTANTS
    Rows,           \* the rows of a batch
    Cases,          \* the test cases of a row, 1 .. n
    Batches,        \* what a batch may hold: functions from rows to kinds
    Processes,      \* num_processes
    Slots,          \* sandbox_fusion.max_concurrent
    MaxRetries,     \* MAX_RETRIES
    MaxBatches,     \* batches scored
    MayBreak,       \* a process of the pool may die
    Dict,           \* a dictionary with a score in it
    None

\* sandbox: a program with cases; quick: any other score function; loop: one
\* that does not return; raises: one that raises an exception; dict: one that
\* returns a dictionary.
Kinds == {"sandbox", "quick", "loop", "raises", "dict"}

\* wrong: also runtime errors, timeouts and errors of the sandbox.
Verdicts == {"passed", "wrong", "compile_error"}

ASSUME PoolAssumption ==
    /\ IsFiniteSet(Rows) /\ Rows # {}
    /\ IsFiniteSet(Cases) /\ Cases = 1 .. Cardinality(Cases)
    /\ Batches # {} /\ Batches \subseteq [Rows -> Kinds]
    /\ Processes \in Nat \ {0} /\ Slots \in Nat \ {0}
    /\ MaxRetries \in Nat \ {0} /\ MaxBatches \in Nat \ {0}
    /\ MayBreak \in BOOLEAN
    /\ None \notin Nat /\ None \notin Verdicts
    /\ Dict \notin Nat /\ Dict # None

VARIABLES
    calls,          \* calls made
    calling,        \* a call is running
    batch,          \* the kind of every row
    late,           \* the timeout has passed
    run,            \* run[r]: where the pool has row r
    at,             \* at[r][c]: what the thread of a case does
    attempt,        \* attempt[r][c]: requests posted before
    seen,           \* seen[r]: the cases as their results came in
    firstCompileError,  \* of each row, 0 for none (-1 in the code)
    answer,         \* answer[r]: what the row's coroutine returned
    result,         \* what the sandbox answered for each case
    scores,         \* the scores of the last call
    free            \* slots of the semaphore

rowVars == <<run, at, attempt, seen, firstCompileError, answer, result>>
poolVars == <<calls, calling, batch, late, rowVars, scores, free>>

PoolTypeOK ==
    /\ calls \in 0 .. MaxBatches /\ calling \in BOOLEAN /\ late \in BOOLEAN
    /\ batch \in Batches
    /\ run \in [Rows -> {"queued", "running", "returned", "cancelled", "killed"}]
    /\ at \in [Rows -> [Cases -> {"waiting", "posting", "done"}]]
    /\ attempt \in [Rows -> [Cases -> 0 .. MaxRetries]]
    /\ seen \in [Rows -> SUBSET Cases]
    /\ firstCompileError \in [Rows -> Cases \cup {0}]
    /\ answer \in [Rows -> 0 .. Cardinality(Cases) \cup {None, Dict}]
    /\ result \in [Rows -> [Cases -> Verdicts \cup {None}]]
    /\ scores \in [Rows -> 0 .. Cardinality(Cases) \cup {None}]
    /\ free \in 0 .. Slots

Each(x) == [r \in Rows |-> x]
EachCase(x) == [r \in Rows |-> [c \in Cases |-> x]]

NoRows ==
    /\ run = Each("queued") /\ at = EachCase("waiting") /\ attempt = EachCase(0)
    /\ seen = Each({}) /\ firstCompileError = Each(0) /\ answer = Each(None)
    /\ result = EachCase(None)

ForgetRows ==
    /\ run' = Each("queued") /\ at' = EachCase("waiting") /\ attempt' = EachCase(0)
    /\ seen' = Each({}) /\ firstCompileError' = Each(0) /\ answer' = Each(None)
    /\ result' = EachCase(None)

PoolInit ==
    /\ calls = 0 /\ calling = FALSE /\ late = FALSE
    /\ batch \in Batches
    /\ NoRows
    /\ scores = Each(None)
    /\ free = Slots

-----------------------------------------------------------------------------
\* parallel_compute_score_async submits all rows to a new pool; of the last
\* call's rows nothing is left.
Submit ==
    /\ ~ calling /\ calls < MaxBatches
    /\ calls' = calls + 1 /\ calling' = TRUE /\ late' = FALSE
    /\ batch' \in Batches
    /\ scores' = Each(None)
    /\ ForgetRows
    /\ UNCHANGED free

\* A process takes a row; a row that has timed out keeps its process.
RunningRows == {r \in Rows : run[r] = "running"}
StartRow(r) ==
    /\ calling /\ run[r] = "queued" /\ Cardinality(RunningRows) < Processes
    /\ run' = [run EXCEPT ![r] = "running"]
    /\ UNCHANGED <<calls, calling, batch, late, at, attempt, seen,
                   firstCompileError, answer, result, scores, free>>

\* What the coroutine of a row returns, unless it has timed out.
FirstAnswer(r, x) == IF answer[r] = None THEN [answer EXCEPT ![r] = x] ELSE answer

\* default_compute_score and single_compute_score of a row without cases: some
\* score, a dictionary as it is, or none at all, which becomes 0.
ScoresOf(kind) ==
    CASE kind = "quick" -> 0 .. 1
      [] kind = "dict" -> {Dict}
      [] kind = "raises" -> {0}
      [] OTHER -> {}
ReturnScore(r) ==
    /\ run[r] = "running"
    /\ \E s \in ScoresOf(batch[r]) : answer' = FirstAnswer(r, s)
    /\ run' = [run EXCEPT ![r] = "returned"]
    /\ UNCHANGED <<calls, calling, batch, late, at, attempt, seen,
                   firstCompileError, result, scores, free>>

-----------------------------------------------------------------------------
(***************************************************************************)
(* The sandbox.                                                            *)
(***************************************************************************)
SetAt(r, c, x) == at' = [at EXCEPT ![r][c] = x]

\* with concurrent_semaphore, in _process_single_case.
Acquire(r, c) ==
    /\ run[r] = "running" /\ batch[r] = "sandbox"
    /\ at[r][c] = "waiting" /\ free > 0
    /\ free' = free - 1
    /\ SetAt(r, c, "posting")
    /\ UNCHANGED <<calls, calling, batch, late, run, attempt, seen,
                   firstCompileError, answer, result, scores>>

\* A gateway timeout is tried again after a delay, in the same slot.
Retry(r, c) ==
    /\ run[r] = "running" /\ at[r][c] = "posting"
    /\ attempt[r][c] < MaxRetries - 1
    /\ attempt' = [attempt EXCEPT ![r][c] = @ + 1]
    /\ UNCHANGED <<calls, calling, batch, late, run, at, seen, firstCompileError,
                   answer, result, scores, free>>

\* Any other answer, or the last gateway timeout, is the result of the case;
\* check_correctness takes the results as they come.
CompileErrorUnset(r, c, v) ==                                    \* mutant
    IF v = "compile_error" /\ c < firstCompileError[r] THEN c ELSE firstCompileError[r]
FirstCompileError(r, c, v) ==
    IF v = "compile_error" /\ (firstCompileError[r] = 0 \/ c < firstCompileError[r])
    THEN c ELSE firstCompileError[r]

Release(r, c) ==
    /\ run[r] = "running" /\ at[r][c] = "posting"
    /\ \E v \in Verdicts :
          /\ result' = [result EXCEPT ![r][c] = v]
          /\ firstCompileError' =
                [firstCompileError EXCEPT ![r] = FirstCompileError(r, c, v)]
    /\ seen' = [seen EXCEPT ![r] = @ \cup {c}]
    /\ free' = free + 1
    /\ SetAt(r, c, "done")
    /\ UNCHANGED <<calls, calling, batch, late, run, attempt, answer, scores>>

\* The results behind the first compile error become compile errors; the score
\* counts the cases passed (the first ten, in the code).
Final(r) ==
    [c \in Cases |->
        IF firstCompileError[r] # 0 /\ c > firstCompileError[r]
        THEN "compile_error" ELSE result[r][c]]
Score(r) == Cardinality({c \in Cases : Final(r)[c] = "passed"})

FinishRow(r) ==
    /\ run[r] = "running" /\ batch[r] = "sandbox" /\ seen[r] = Cases
    /\ answer' = FirstAnswer(r, Score(r))
    /\ run' = [run EXCEPT ![r] = "returned"]
    /\ UNCHANGED <<calls, calling, batch, late, at, attempt, seen,
                   firstCompileError, result, scores, free>>

-----------------------------------------------------------------------------
(***************************************************************************)
(* Timeouts, dead processes and the end of a call.                         *)
(***************************************************************************)
Deadline ==
    /\ calling /\ ~ late
    /\ late' = TRUE
    /\ UNCHANGED <<calls, calling, batch, rowVars, scores, free>>

\* wait_for gives the row up; what is still queued is cancelled, a running row
\* runs on.
TimeOut(r) ==
    /\ late /\ answer[r] = None
    /\ answer' = [answer EXCEPT ![r] = 0]
    /\ run' = [run EXCEPT ![r] = IF @ = "queued" THEN "cancelled" ELSE @]
    /\ UNCHANGED <<calls, calling, batch, late, at, attempt, seen,
                   firstCompileError, result, scores, free>>

Killed == [r \in Rows |-> IF run[r] \in {"queued", "running"} THEN "killed" ELSE run[r]]

\* A process dies: the pool is broken and fails all rows it has not returned.
Break ==
    /\ MayBreak /\ calling /\ RunningRows # {}
    /\ run' = Killed
    /\ answer' = [r \in Rows |-> IF answer[r] = None THEN 0 ELSE answer[r]]
    /\ UNCHANGED <<calls, calling, batch, late, at, attempt, seen,
                   firstCompileError, result, scores, free>>

Gathered == calling /\ \A r \in Rows : answer[r] # None

\* What verify makes of the results: result[0] of a dictionary raises, and then
\* every row of the batch gets 0.
Verified == IF \E r \in Rows : answer[r] = Dict THEN Each(0) ELSE answer

\* All rows have an answer: the processes that are left are terminated, with
\* whatever slot they hold, and the pool is shut down.
EndWithoutKill ==                                                \* mutant
    /\ Gathered /\ RunningRows = {}
    /\ run' = Killed
    /\ scores' = Verified
    /\ calling' = FALSE
    /\ UNCHANGED <<calls, batch, late, at, attempt, seen, firstCompileError,
                   answer, result, free>>
EndCall ==
    /\ Gathered
    /\ run' = Killed
    /\ scores' = Verified
    /\ calling' = FALSE
    /\ UNCHANGED <<calls, batch, late, at, attempt, seen, firstCompileError,
                   answer, result, free>>

PoolAtRest == ~ calling /\ calls = MaxBatches /\ UNCHANGED poolVars

PoolRuns ==
    \/ Deadline \/ EndCall
    \/ \E r \in Rows : StartRow(r) \/ ReturnScore(r) \/ FinishRow(r) \/ TimeOut(r)

CaseStep == \E r \in Rows, c \in Cases : Acquire(r, c) \/ Retry(r, c) \/ Release(r, c)

PoolNext == Submit \/ PoolRuns \/ CaseStep \/ Break \/ PoolAtRest

PoolSpec == PoolInit /\ [][PoolNext]_poolVars

\* The clock runs, the coroutines are scheduled and the call cleans up; nothing
\* is assumed of the sandbox or of a score function.
FairPoolSpec ==
    PoolSpec /\ WF_poolVars(Deadline) /\ WF_poolVars(EndCall)
         /\ \A r \in Rows : WF_poolVars(TimeOut(r))

-----------------------------------------------------------------------------
\* What the score x of row r may be, judged by the row alone: for a program the
\* cases passed before the first compile error, or 0 if it was given up; 0 for a
\* row that did not run to its end.
PassedBeforeCompileError(r) ==
    Cardinality({c \in Cases : /\ result[r][c] = "passed"
                               /\ \A b \in 1 .. c : result[r][b] # "compile_error"})
OwnScore(r, x) ==
    /\ batch[r] = "sandbox" => x \in {0, PassedBeforeCompileError(r)}
    /\ (batch[r] = "sandbox" /\ ~ late /\ run[r] = "returned") =>
          x = PassedBeforeCompileError(r)
    /\ run[r] \in {"cancelled", "killed"} \/ batch[r] \in {"loop", "raises"} => x = 0

Scored == calls > 0 /\ ~ calling

\* The score of a row is the one its own cases give it, whatever order their
\* answers came in and however the other rows ended, unless some row of the batch
\* returned a dictionary in time: then every row has 0.
ScoreIsItsOwn ==
    Scored =>
        \A r \in Rows :
            IF \E q \in Rows : answer[q] = Dict
            THEN scores[r] = 0
            ELSE OwnScore(r, scores[r])

\* "If the result is a dictionary, it returns the dictionary instead": a row
\* whose score is one takes no score from the other rows of the batch.
EveryRowsOwnScore ==
    Scored => \A r \in Rows : batch[r] # "dict" => OwnScore(r, scores[r])

\* Every call returns: whether programs loop, the sandbox never answers, its
\* slots are gone or the pool is broken.
ScoringEnds == calling ~> ~ calling

=============================================================================
