---------------------------- MODULE CheckExecutor ----------------------------
(***************************************************************************)
(* The check executor of one process (check_executor.rs): an unbounded     *)
(* queue of scheduled checks, a stream loop that runs up to Concurrency of *)
(* them at once, and do_check, which runs a check, queues it again when it *)
(* failed and may be retried, and otherwise hands the result to the        *)
(* producer and resolves the oneshot the scheduler waits on.               *)
(*                                                                         *)
(* queue_check and queue_check_for_retry are two steps each, the counter   *)
(* update and the send: the loop runs on other threads between the two.    *)
(***************************************************************************)
EXTENDS Integers, Sequences, FiniteSets

CONSTANTS
    Check,             \* scheduled checks, one per (tick, subscription)
    Concurrency,       \* ExecutorConfig.concurrency; 0 is unlimited
    FailureRetries,    \* ExecutorConfig.failure_retries
    Build              \* the builds and settings to consider

ASSUME ExecutorAssumption ==
    /\ Concurrency \in Nat
    /\ FailureRetries \in Nat
    /\ Build \subseteq [inline_tasks : BOOLEAN, panic_aborts : BOOLEAN]

VARIABLES
    build,             \* inline_tasks: record_task_metrics and not
                       \* checker_parallel, the checks run inside the loop's
                       \* own task; panic_aborts: the release profile,
                       \* development and test builds unwind
    reserved,          \* checks counted in queue_size and not sent yet
    queue,             \* the mpsc channel: a sequence of [check, retry]
    queue_size,        \* the AtomicU64 behind the executor.queue_size gauge
    num_running,       \* the AtomicU64 behind the executor.num_running gauge
    inflight,          \* the futures of for_each_concurrent
    fate,              \* what became of each check
    results,           \* results[k]: the results given to the producer for k
    produced,          \* the checks for which the producer took a result
    late,              \* checks whose interval has passed since their tick
    heard,             \* checks whose oneshot receiver is alive
    cancelled,         \* the cancellation token
    open,              \* the queue's receiver is alive
    ended,             \* executor_loop has returned or panicked
    senders            \* a CheckSender exists outside the executor

vars == <<build, reserved, queue, queue_size, num_running, inflight, fate,
          results, produced, late, heard, cancelled, open, ended, senders>>

counters == <<queue_size, num_running>>
loopVars == <<cancelled, open, ended, senders>>
environment == <<build, late, heard>>

Retry == 0 .. FailureRetries
Item == [check : Check, retry : Retry]

\* Where a future stands: spawned; in check_url; about to retry; counted for the
\* retry; holding a final result; produced and about to resolve; finished;
\* unwinding.
Outcome == { "success", "failure", "missed" }
Phase == { "spawned", "checking", "retrying", "requeue", "recording", "done",
           "panicked" } \cup Outcome
Future == [check : Check, retry : Retry, phase : Phase]
Fate == { "none", "live", "settled", "dropped", "rejected" }

TypeOK ==
    /\ build \in Build
    /\ reserved \subseteq Check
    /\ queue \in Seq(Item)
    /\ queue_size \in Nat
    /\ num_running \in Nat
    /\ inflight \subseteq Future
    /\ fate \in [Check -> Fate]
    /\ results \in [Check -> Seq(Outcome)]
    /\ produced \subseteq Check
    /\ late \subseteq Check
    /\ heard \subseteq Check
    /\ cancelled \in BOOLEAN
    /\ open \in BOOLEAN
    /\ ended \in BOOLEAN
    /\ senders \in BOOLEAN

Init ==
    /\ build \in Build
    /\ reserved = {}
    /\ queue = <<>>
    /\ queue_size = 0
    /\ num_running = 0
    /\ inflight = {}
    /\ fate = [k \in Check |-> "none"]
    /\ results = [k \in Check |-> <<>>]
    /\ produced = {}
    /\ late = {}
    /\ heard = {}
    /\ cancelled = FALSE
    /\ open = TRUE
    /\ ended = FALSE
    /\ senders = TRUE

------------------------------------------------------------------------------
(* queue_check, called by the schedulers.                                   *)

ReserveCheck(k) ==
    /\ senders
    /\ fate[k] = "none" /\ k \notin reserved
    /\ reserved' = reserved \cup {k}
    /\ queue_size' = queue_size + 1
    /\ UNCHANGED <<queue, num_running, inflight, fate, results, produced,
                   environment, loopVars>>

SendCheck(k) ==
    /\ k \in reserved
    /\ open
    /\ reserved' = reserved \ {k}
    /\ queue' = Append(queue, [check |-> k, retry |-> 0])
    /\ fate' = [fate EXCEPT ![k] = "live"]
    /\ heard' = heard \cup {k}
    /\ UNCHANGED <<build, counters, inflight, results, produced, late, loopVars>>

\* The send fails because the receiver is gone; the count stays.
RejectCheck(k) ==
    /\ k \in reserved
    /\ ~ open
    /\ reserved' = reserved \ {k}
    /\ fate' = [fate EXCEPT ![k] = "rejected"]
    /\ UNCHANGED <<queue, counters, inflight, results, produced, environment,
                   loopVars>>

------------------------------------------------------------------------------
(* executor_loop.                                                           *)

\* A future between two await points.  With inline tasks all futures and the
\* stream share one task, so nothing else of the loop runs meanwhile.
MidPoll == { "retrying", "requeue", "recording", "panicked" } \cup Outcome

LoopMayPoll ==
    /\ ~ ended
    /\ build.inline_tasks => \A f \in inflight : f.phase \notin MidPoll

\* for_each_concurrent polls its stream only with a free slot.
FreeSlot == Concurrency = 0 \/ Cardinality(inflight) < Concurrency

Take ==
    /\ LoopMayPoll /\ open /\ ~ cancelled /\ FreeSlot
    /\ queue # <<>>
    /\ queue' = Tail(queue)
    /\ queue_size' = queue_size - 1
    /\ num_running' = num_running + 1
    /\ inflight' = inflight \cup
         { [check |-> Head(queue).check, retry |-> Head(queue).retry, phase |-> "spawned"] }
    /\ UNCHANGED <<reserved, fate, results, produced, environment, loopVars>>

Queued == { queue[i].check : i \in 1 .. Len(queue) }

\* Mutant of CloseStream: the stream ends without having been cancelled.
CloseStreamEarly ==
    /\ LoopMayPoll /\ open /\ FreeSlot
    /\ open' = FALSE
    /\ queue' = <<>>
    /\ fate' = [k \in Check |-> IF k \in Queued THEN "dropped" ELSE fate[k]]
    /\ UNCHANGED <<reserved, counters, inflight, results, produced, environment,
                   cancelled, ended, senders>>

\* Mutant of CloseStream: a cancelled stream still waits for its queue to drain.
CloseStreamAfterDrain ==
    /\ LoopMayPoll /\ open /\ cancelled /\ FreeSlot
    /\ queue = <<>>
    /\ open' = FALSE
    /\ UNCHANGED <<reserved, queue, counters, inflight, fate, results, produced,
                   environment, cancelled, ended, senders>>

\* take_until yields None once the token is cancelled: the stream is dropped
\* with the receiver, and with every check that is still queued.
CloseStream ==
    /\ LoopMayPoll /\ open /\ cancelled /\ FreeSlot
    /\ open' = FALSE
    /\ queue' = <<>>
    /\ fate' = [k \in Check |-> IF k \in Queued THEN "dropped" ELSE fate[k]]
    /\ UNCHANGED <<reserved, counters, inflight, results, produced, environment,
                   cancelled, ended, senders>>

\* A future that finished is removed and its slot is free again.
Reap(f) ==
    /\ LoopMayPoll
    /\ f \in inflight /\ f.phase = "done"
    /\ inflight' = inflight \ {f}
    /\ num_running' = num_running - 1
    /\ UNCHANGED <<reserved, queue, queue_size, fate, results, produced,
                   environment, loopVars>>

LoopEnds ==
    /\ ~ ended /\ ~ open /\ inflight = {}
    /\ ended' = TRUE
    /\ UNCHANGED <<reserved, queue, counters, inflight, fate, results, produced,
                   environment, cancelled, open, senders>>

------------------------------------------------------------------------------
(* do_check.                                                                *)

\* f may be polled.
Polled(f) ==
    /\ f \in inflight
    /\ build.inline_tasks => \A g \in inflight \ {f} : g.phase \notin MidPoll

Becomes(f, phase) == inflight' = (inflight \ {f}) \cup { [f EXCEPT !.phase = phase] }

\* The window is tested once, when the future starts.
StartCheck(f) ==
    /\ Polled(f) /\ f.phase = "spawned"
    /\ Becomes(f, IF f.check \in late THEN "missed" ELSE "checking")
    /\ UNCHANGED <<reserved, queue, counters, fate, results, produced,
                   environment, loopVars>>

\* check_url returns; only a failure is retried.
FinishCheck(f, outcome) ==
    /\ Polled(f) /\ f.phase = "checking"
    /\ Becomes(f, IF outcome = "failure" /\ f.retry < FailureRetries
                  THEN "retrying" ELSE outcome)
    /\ UNCHANGED <<reserved, queue, counters, fate, results, produced,
                   environment, loopVars>>

\* Mutant of ReserveRetry: a retry is not counted.
ReserveRetryUncounted(f) ==
    /\ Polled(f) /\ f.phase = "retrying"
    /\ Becomes(f, "requeue")
    /\ UNCHANGED <<reserved, queue, counters, fate, results, produced,
                   environment, loopVars>>

ReserveRetry(f) ==
    /\ Polled(f) /\ f.phase = "retrying"
    /\ Becomes(f, "requeue")
    /\ queue_size' = queue_size + 1
    /\ UNCHANGED <<reserved, queue, num_running, fate, results, produced,
                   environment, loopVars>>

\* Mutant of SendRetry: do_check does not return after queueing the retry.
SendRetryAndProduce(f) ==
    /\ Polled(f) /\ f.phase = "requeue"
    /\ open
    /\ queue' = Append(queue, [check |-> f.check, retry |-> f.retry + 1])
    /\ Becomes(f, "failure")
    /\ UNCHANGED <<reserved, counters, fate, results, produced, environment,
                   loopVars>>

SendRetry(f) ==
    /\ Polled(f) /\ f.phase = "requeue"
    /\ open
    /\ queue' = Append(queue, [check |-> f.check, retry |-> f.retry + 1])
    /\ Becomes(f, "done")
    /\ UNCHANGED <<reserved, counters, fate, results, produced, environment,
                   loopVars>>

\* An expect of do_check fails.  In the release profile the process aborts: only
\* what the producer took is left of it.
AbortProcess ==
    /\ reserved' = {} /\ queue' = <<>> /\ inflight' = {} /\ heard' = {}
    /\ queue_size' = 0 /\ num_running' = 0
    /\ fate' = [k \in Check |-> "none"]
    /\ open' = FALSE /\ ended' = TRUE /\ senders' = FALSE
    /\ UNCHANGED <<build, results, produced, late, cancelled>>

\* Otherwise a spawned task hands the panic to its join handle, which the loop
\* logs, and an inline one unwinds the loop itself.
Panics(f, outcome) ==
    IF build.panic_aborts THEN AbortProcess
    ELSE /\ Becomes(f, IF build.inline_tasks THEN "panicked" ELSE "done")
         /\ fate' = [fate EXCEPT ![f.check] = outcome]
         /\ UNCHANGED <<reserved, queue, counters, results, produced, environment,
                        loopVars>>

\* queue_check_for_retry fails: the receiver is gone, the check is dropped.
RetryPanics(f) ==
    /\ Polled(f) /\ f.phase = "requeue"
    /\ ~ open
    /\ Panics(f, "dropped")

\* Mutant of Unwind: the receiver survives the loop.
UnwindLeavesOpen(f) ==
    /\ f \in inflight /\ f.phase = "panicked"
    /\ inflight' = {}
    /\ queue' = <<>>
    /\ ended' = TRUE
    /\ fate' = [k \in Check |-> IF fate[k] = "live" THEN "dropped" ELSE fate[k]]
    /\ UNCHANGED <<reserved, counters, results, produced, environment,
                   cancelled, open, senders>>

\* An inline panic leaves executor_loop: its futures, the receiver and every
\* queued check are dropped.
Unwind(f) ==
    /\ f \in inflight /\ f.phase = "panicked"
    /\ inflight' = {}
    /\ queue' = <<>>
    /\ open' = FALSE
    /\ ended' = TRUE
    /\ fate' = [k \in Check |-> IF fate[k] = "live" THEN "dropped" ELSE fate[k]]
    /\ UNCHANGED <<reserved, counters, results, produced, environment,
                   cancelled, senders>>

\* produce_checker_result, whose error is logged and goes no further.
Produce(f, ok) ==
    /\ Polled(f) /\ f.phase \in Outcome
    /\ results' = [results EXCEPT ![f.check] = Append(@, f.phase)]
    /\ produced' = IF ok THEN produced \cup {f.check} ELSE produced
    /\ Becomes(f, "recording")
    /\ UNCHANGED <<reserved, queue, counters, fate, environment, loopVars>>

\* Mutant of RecordResult: a missed check is resolved without being produced.
RecordMissedUnproduced(f) ==
    /\ Polled(f) /\ f.phase \in { "recording", "missed" }
    /\ f.check \in heard
    /\ fate' = [fate EXCEPT ![f.check] = "settled"]
    /\ Becomes(f, "done")
    /\ UNCHANGED <<reserved, queue, counters, results, produced, environment,
                   loopVars>>

RecordResult(f) ==
    /\ Polled(f) /\ f.phase = "recording"
    /\ f.check \in heard
    /\ fate' = [fate EXCEPT ![f.check] = "settled"]
    /\ Becomes(f, "done")
    /\ UNCHANGED <<reserved, queue, counters, results, produced, environment,
                   loopVars>>

\* Nobody waits for the result any more.
RecordPanics(f) ==
    /\ Polled(f) /\ f.phase = "recording"
    /\ f.check \notin heard
    /\ Panics(f, "settled")

------------------------------------------------------------------------------
(* The executor's environment.                                              *)

\* More than the check's interval has passed since its tick.
WindowPasses(k) ==
    /\ k \notin late
    /\ late' = late \cup {k}
    /\ UNCHANGED <<reserved, queue, counters, inflight, fate, results, produced,
                   build, heard, loopVars>>

\* The scheduler drops the receiver: its tick processor ended, or a tick failed
\* half way.
HangUp(k) ==
    /\ k \in heard /\ fate[k] = "live"
    /\ heard' = heard \ {k}
    /\ UNCHANGED <<reserved, queue, counters, inflight, fate, results, produced,
                   build, late, loopVars>>

Cancel ==
    /\ ~ cancelled
    /\ cancelled' = TRUE
    /\ UNCHANGED <<reserved, queue, counters, inflight, fate, results, produced,
                   environment, open, ended, senders>>

\* The manager and the schedulers let go of their CheckSender.
DropSenders ==
    /\ senders /\ reserved = {}
    /\ senders' = FALSE
    /\ UNCHANGED <<reserved, queue, counters, inflight, fate, results, produced,
                   environment, cancelled, open, ended>>

\* Nothing is left to do: the loop waits for a check or has returned.
Idle ==
    /\ reserved = {} /\ inflight = {} /\ queue = <<>>
    /\ (cancelled \/ ~ open) => ended
    /\ UNCHANGED vars

FutureStep(f) ==
    \/ StartCheck(f)
    \/ \E outcome \in {"success", "failure"} : FinishCheck(f, outcome)
    \/ ReserveRetry(f) \/ SendRetry(f) \/ RetryPanics(f)
    \/ \E ok \in BOOLEAN : Produce(f, ok)
    \/ RecordResult(f) \/ RecordPanics(f) \/ Unwind(f)

Next ==
    \/ \E k \in Check :
          ReserveCheck(k) \/ SendCheck(k) \/ RejectCheck(k) \/ WindowPasses(k) \/ HangUp(k)
    \/ Take \/ CloseStream \/ LoopEnds
    \/ \E f \in inflight : Reap(f) \/ FutureStep(f)
    \/ Cancel \/ DropSenders
    \/ Idle

\* tokio polls every task that is ready, and check_url always returns: each
\* request runs under the config's timeout.
Fairness ==
    /\ WF_vars(Take) /\ WF_vars(CloseStream) /\ WF_vars(LoopEnds)
    /\ \A k \in Check : WF_vars(SendCheck(k) \/ RejectCheck(k))
    /\ \A k \in Check, r \in Retry :
          WF_vars(\E f \in inflight :
                    f.check = k /\ f.retry = r /\ (Reap(f) \/ FutureStep(f)))

Safety == Init /\ [][Next]_vars

Spec == Safety /\ Fairness

------------------------------------------------------------------------------
(* Properties.                                                              *)

\* The counters never wrap.  A check is counted before it is sent, so that
\* the decrement of the loop, on another thread, always finds it counted.
CountersCoverWork ==
    /\ queue_size >= Len(queue) + Cardinality(reserved)
    /\ ~ ended => num_running = Cardinality(inflight)

\* Copies of check k that can still lead to a result.
Copies(k) ==
    Cardinality({ i \in 1 .. Len(queue) : queue[i].check = k })
      + Cardinality({ f \in inflight : f.check = k /\ f.phase \notin {"done", "panicked"} })

\* A check has at most one result, over all its retries, and a result is final:
\* once it is given to the producer no copy of the check is left to run again.
OneResultPerCheck ==
    \A k \in Check :
        /\ Len(results[k]) <= 1
        /\ results[k] # <<>> =>
              \/ Copies(k) = 0
              \/ Copies(k) = 1 /\ \E f \in inflight : f.check = k /\ f.phase = "recording"

\* The scheduler's oneshot reports exactly what happened: it is resolved only
\* after a result was given to the producer, and an accepted check that was
\* neither resolved nor dropped is still being worked on.
OneshotTellsTheTruth ==
    \A k \in Check :
        /\ fate[k] = "settled" => results[k] # <<>>
        /\ fate[k] = "dropped" => results[k] = <<>>
        /\ fate[k] = "live" <=> Copies(k) = 1

\* While it is not cancelled, the executor loses no check, whatever the
\* interleaving of retries, except when do_check panics because the scheduler
\* has dropped the receiver of a result.
LosesOnlyWhenStopped ==
    [][\A k \in Check :
          (fate[k] = "live" /\ fate'[k] \in { "dropped", "none" }) =>
              \/ cancelled
              \/ \E f \in inflight : f.phase \in { "recording", "panicked" } /\ f.check \notin heard
      ]_vars

\* Once cancelled, executor_loop returns: stop() does not wait on it forever.
CancelEndsLoop == cancelled ~> ended

\* manager.rs says the executor shuts down once all references to the sender
\* are dropped.
SendersGoneEndsLoop == ~ senders ~> ended

\* The expect at check_executor.rs:376 says that the executor loop's channel
\* exists whenever a check is queued again.
RetryChannelExists == \A f \in inflight : f.phase = "requeue" => open

\* The detailed executor keeps the promise the scheduler is built on.
StatusOf(k) ==
    CASE fate[k] = "live" ->
            IF \E f \in inflight : f.check = k /\ f.phase = "recording"
            THEN "published" ELSE "pending"
      [] fate[k] \in {"settled", "dropped"} -> fate[k]
      [] OTHER -> "none"

Promise == INSTANCE ExecutorPromise
    WITH Proc <- {"p"},
         status <- [p \in {"p"} |-> [k \in Check |-> StatusOf(k)]],
         open <- [p \in {"p"} |-> open]

ImplementsPromise == Promise!PromiseSpec

==============================================================================
