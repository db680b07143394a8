------------------------------ MODULE Scheduler ------------------------------
(***************************************************************************)
(* The scheduler of one partition (scheduler.rs) with the progress         *)
(* watermark it keeps in Redis (redis.rs), in every checker process that   *)
(* ever serves the partition: processes crash, are stopped and replaced,   *)
(* and may overlap.  Each process has a scheduler loop, which queues the   *)
(* checks of one tick after the other, an in-order tick processor, which   *)
(* waits for them and saves the last completed tick, and an executor       *)
(* (ExecutorPromise).                                                      *)
(*                                                                         *)
(* One tick is one second.  The ticks of a process are consecutive and its *)
(* channel is a FIFO, so the channel and the batch being drained are kept  *)
(* as the bounds of two intervals of ticks:                                *)
(*     batch == head .. taken - 1        channel == taken .. next - 1      *)
(***************************************************************************)
EXTENDS Integers, ExecutorPromise

CONSTANTS
    Config,            \* check configs of the partition
    MaxTick,           \* bound: the last second modelled
    Due,               \* Due[t]: the configs of tick t that run in this region
    None,
    PanicAborts,       \* panic = 'abort', the release profile
    Faults             \* what the environment may do to a process or to Redis

Tick == 1 .. MaxTick

Fault == { "crash", "sigterm", "produce", "expire", "timeout", "disconnect", "fatal", "overlap" }

ASSUME SchedulerAssumption ==
    /\ MaxTick \in Nat \ {0}
    /\ Check = Tick \X Config
    /\ Due \in [Tick -> SUBSET Config]
    /\ None \notin Int
    /\ PanicAborts \in BOOLEAN
    /\ Faults \subseteq Fault

VARIABLES
    now,               \* the wall clock, in seconds
    watermark,         \* Redis: the progress key, or None
    delayed,           \* Redis: SETs that timed out and may still be applied
    base,              \* history: the first tick not given up when a process
                       \* started without a watermark
    sched,             \* where the scheduler task is
    next,              \* tick the loop schedules next
    todo,              \* configs of the current tick not queued yet
    processor,         \* where the in-order tick processor is
    taken, head,       \* see above
    last,              \* last_tick
    stale,             \* the processor's Redis connection is broken
    cancelled,         \* the manager's token: executor and config provider
    stopping           \* the partition's token: the scheduler loop

tickerVars == <<next, todo>>
processorVars == <<processor, taken, head, last, stale>>
redisVars == <<watermark, delayed>>
tokenVars == <<cancelled, stopping>>
vars == <<promiseVars, now, redisVars, base, sched, tickerVars, processorVars, tokenVars>>

\* off: not started; boot: before the watermark is read; wait: in
\* interval.tick(); tick: in schedule_checks; drain: after the loop; done and
\* failed: returned; down: the process is gone.
SchedState == { "off", "boot", "wait", "tick", "drain", "done", "failed", "down" }
\* recv: in recv_many; await: draining a batch; save: writing the watermark;
\* reconnect: after a dropped connection; ended: returned or never spawned.
ProcessorState == { "recv", "await", "save", "reconnect", "ended" }

TypeOK ==
    /\ PromiseTypeOK
    /\ now \in Tick
    /\ watermark \in Tick \cup {None}
    /\ delayed \subseteq Tick
    /\ base \in Tick
    /\ sched \in [Proc -> SchedState]
    /\ next \in [Proc -> 1 .. MaxTick + 1]
    /\ todo \in [Proc -> SUBSET Config]
    /\ processor \in [Proc -> ProcessorState]
    /\ taken \in [Proc -> 1 .. MaxTick + 1]
    /\ head \in [Proc -> 1 .. MaxTick + 1]
    /\ last \in [Proc -> Tick \cup {None}]
    /\ stale \in [Proc -> BOOLEAN]
    /\ cancelled \in [Proc -> BOOLEAN]
    /\ stopping \in [Proc -> BOOLEAN]
    /\ \A p \in Proc :
          /\ sched[p] = "tick" => next[p] \in Tick
          /\ processor[p] = "save" => last[p] \in Tick

Init ==
    /\ PromiseInit
    /\ now = 1
    /\ watermark = None
    /\ delayed = {}
    /\ base = 1
    /\ sched = [p \in Proc |-> "off"]
    /\ next = [p \in Proc |-> 1]
    /\ todo = [p \in Proc |-> {}]
    /\ processor = [p \in Proc |-> "ended"]
    /\ taken = [p \in Proc |-> 1]
    /\ head = [p \in Proc |-> 1]
    /\ last = [p \in Proc |-> None]
    /\ stale = [p \in Proc |-> FALSE]
    /\ cancelled = [p \in Proc |-> FALSE]
    /\ stopping = [p \in Proc |-> FALSE]

\* A process id is left to replace p: bounds the faults that end a process.
Replaceable(p) == \E q \in Proc \ {p} : sched[q] = "off"

Running(p) == sched[p] \notin { "off", "down" }

------------------------------------------------------------------------------
(* The scheduler task.                                                      *)

\* The process starts, during a deploy while another one still runs; run_scheduler
\* waits for the config store to boot.
StartProcess(p) ==
    /\ sched[p] = "off"
    /\ "overlap" \in Faults \/ \A q \in Proc : ~ Running(q)
    /\ sched' = [sched EXCEPT ![p] = "boot"]
    /\ UNCHANGED <<promiseVars, now, redisVars, base, tickerVars, processorVars, tokenVars>>

\* The state in which the loop's test of the token leaves the scheduler.
LoopTest(p) == IF stopping[p] THEN "drain" ELSE "wait"

\* read_watermark: resume after the last completed tick, never in the future;
\* with no watermark resume now, giving up what came before.
Resume == IF watermark = None THEN now
          ELSE IF watermark + 1 <= now THEN watermark + 1 ELSE now

ReadWatermark(p) ==
    /\ sched[p] = "boot"
    /\ next' = [next EXCEPT ![p] = Resume]
    /\ taken' = [taken EXCEPT ![p] = Resume]
    /\ head' = [head EXCEPT ![p] = Resume]
    /\ base' = IF watermark = None THEN now ELSE base
    /\ processor' = [processor EXCEPT ![p] = "recv"]
    /\ last' = [last EXCEPT ![p] = None]
    /\ sched' = [sched EXCEPT ![p] = LoopTest(p)]
    /\ UNCHANGED <<promiseVars, now, redisVars, todo, stale, tokenVars>>

\* Connecting or reading fails: scheduler_loop returns the error.
ReadFails(p) ==
    /\ "fatal" \in Faults /\ Replaceable(p)
    /\ sched[p] = "boot"
    /\ sched' = [sched EXCEPT ![p] = "failed"]
    /\ UNCHANGED <<promiseVars, now, redisVars, base, tickerVars, processorVars, tokenVars>>

\* Mutant of BeginTick: ticks that were missed are not made up for.
BeginTickNoBurst(p) ==
    /\ sched[p] = "wait"
    /\ next[p] = now
    /\ sched' = [sched EXCEPT ![p] = "tick"]
    /\ todo' = [todo EXCEPT ![p] = Due[next[p]]]
    /\ UNCHANGED <<promiseVars, now, redisVars, base, next, processorVars, tokenVars>>

\* interval.tick() fires, in bursts when the loop is behind; schedule_checks
\* snapshots the bucket of the tick.
BeginTick(p) ==
    /\ sched[p] = "wait"
    /\ next[p] <= now
    /\ sched' = [sched EXCEPT ![p] = "tick"]
    /\ todo' = [todo EXCEPT ![p] = Due[next[p]]]
    /\ UNCHANGED <<promiseVars, now, redisVars, base, next, processorVars, tokenVars>>

QueueCheck(p, c) ==
    /\ sched[p] = "tick" /\ c \in todo[p]
    /\ Accept(p, <<next[p], c>>)
    /\ todo' = [todo EXCEPT ![p] = @ \ {c}]
    /\ UNCHANGED <<now, redisVars, base, sched, next, processorVars, tokenVars>>

\* queue_check fails: the loop returns the error and the bundle is never sent.
QueueFails(p) ==
    /\ sched[p] = "tick" /\ todo[p] # {}
    /\ ~ open[p]
    /\ sched' = [sched EXCEPT ![p] = "failed"]
    /\ todo' = [todo EXCEPT ![p] = {}]
    /\ UNCHANGED <<promiseVars, now, redisVars, base, next, processorVars, tokenVars>>

\* The bundle of the tick is sent and the loop goes round.
SendBundle(p) ==
    /\ sched[p] = "tick" /\ todo[p] = {}
    /\ processor[p] # "ended"
    /\ next' = [next EXCEPT ![p] = @ + 1]
    /\ sched' = [sched EXCEPT ![p] = LoopTest(p)]
    /\ UNCHANGED <<promiseVars, now, redisVars, base, todo, processorVars, tokenVars>>

SendFails(p) ==
    /\ sched[p] = "tick" /\ todo[p] = {}
    /\ processor[p] = "ended"
    /\ sched' = [sched EXCEPT ![p] = "failed"]
    /\ UNCHANGED <<promiseVars, now, redisVars, base, tickerVars, processorVars, tokenVars>>

\* tick_complete_tx is dropped; the loop has waited for the processor.
FinishScheduler(p) ==
    /\ sched[p] = "drain" /\ processor[p] = "ended"
    /\ sched' = [sched EXCEPT ![p] = "done"]
    /\ UNCHANGED <<promiseVars, now, redisVars, base, tickerVars, processorVars, tokenVars>>

------------------------------------------------------------------------------
(* The in-order tick processor, a task of its own.                          *)

\* Mutant of ReceiveBatch: a batch of one tick is not received.
ReceiveBatchOfTwo(p) ==
    /\ processor[p] = "recv"
    /\ taken[p] + 1 < next[p]
    /\ taken' = [taken EXCEPT ![p] = next[p]]
    /\ processor' = [processor EXCEPT ![p] = "await"]
    /\ UNCHANGED <<promiseVars, now, redisVars, base, sched, tickerVars, head, last,
                   stale, tokenVars>>

\* recv_many returns what the channel holds.  Its limit of 1000 ticks is not
\* reached here.
ReceiveBatch(p) ==
    /\ processor[p] = "recv"
    /\ taken[p] < next[p]
    /\ taken' = [taken EXCEPT ![p] = next[p]]
    /\ processor' = [processor EXCEPT ![p] = "await"]
    /\ UNCHANGED <<promiseVars, now, redisVars, base, sched, tickerVars, head, last,
                   stale, tokenVars>>

\* Mutant of ChannelClosed: the sender is dropped only when the scheduler task
\* returns, after its wait for the processor.
ChannelClosedByReturn(p) ==
    /\ processor[p] = "recv"
    /\ taken[p] = next[p]
    /\ sched[p] \in { "done", "failed" }
    /\ processor' = [processor EXCEPT ![p] = "ended"]
    /\ UNCHANGED <<promiseVars, now, redisVars, base, sched, tickerVars, taken, head,
                   last, stale, tokenVars>>

\* The channel is empty and its sender was dropped.
ChannelClosed(p) ==
    /\ processor[p] = "recv"
    /\ taken[p] = next[p]
    /\ sched[p] \in { "drain", "failed" }
    /\ processor' = [processor EXCEPT ![p] = "ended"]
    /\ UNCHANGED <<promiseVars, now, redisVars, base, sched, tickerVars, taken, head,
                   last, stale, tokenVars>>

ChecksOf(t) == { <<t, c>> : c \in Due[t] }

\* The join_all of the bundle's oneshots is ready.
Ready(p, t) == \A k \in ChecksOf(t) : status[p][k] \in { "settled", "dropped" }

\* Mutant of TickCompletes: the bundle's checks are not awaited.
TickCompletesUnawaited(p) ==
    /\ processor[p] = "await" /\ head[p] < taken[p]
    /\ last' = [last EXCEPT ![p] = head[p]]
    /\ head' = [head EXCEPT ![p] = @ + 1]
    /\ processor' = [processor EXCEPT ![p] = IF head[p] + 1 = taken[p] THEN "save" ELSE @]
    /\ UNCHANGED <<promiseVars, now, redisVars, base, sched, tickerVars, taken, stale,
                   tokenVars>>

\* The first bundle of the batch completed.
TickCompletes(p) ==
    /\ processor[p] = "await" /\ head[p] < taken[p]
    /\ Ready(p, head[p])
    /\ \A k \in ChecksOf(head[p]) : status[p][k] = "settled"
    /\ last' = [last EXCEPT ![p] = head[p]]
    /\ head' = [head EXCEPT ![p] = @ + 1]
    /\ processor' = [processor EXCEPT ![p] = IF head[p] + 1 = taken[p] THEN "save" ELSE @]
    /\ UNCHANGED <<promiseVars, now, redisVars, base, sched, tickerVars, taken, stale,
                   tokenVars>>

\* executor_done: the rest of the batch is discarded.  What completed before is
\* saved, and with nothing to save the processor returns an error.
TickAborts(p) ==
    /\ processor[p] = "await" /\ head[p] < taken[p]
    /\ Ready(p, head[p])
    /\ \E k \in ChecksOf(head[p]) : status[p][k] = "dropped"
    /\ head' = [head EXCEPT ![p] = taken[p]]
    /\ processor' = [processor EXCEPT ![p] = IF last[p] = None THEN "ended" ELSE "save"]
    /\ UNCHANGED <<promiseVars, now, redisVars, base, sched, tickerVars, taken, last,
                   stale, tokenVars>>

\* Back to the while loop, whose last_tick is a new variable.
NextBatch(p) ==
    /\ processor' = [processor EXCEPT ![p] = "recv"]
    /\ last' = [last EXCEPT ![p] = None]

SaveWatermark(p) ==
    /\ processor[p] = "save" /\ ~ stale[p]
    /\ watermark' = last[p]
    /\ NextBatch(p)
    /\ UNCHANGED <<promiseVars, now, delayed, base, sched, tickerVars, taken, head,
                   stale, tokenVars>>

\* No answer in time: logged.  Redis may still apply the SET, at any later time.
SaveTimesOut(p) ==
    /\ "timeout" \in Faults
    /\ processor[p] = "save" /\ ~ stale[p]
    /\ delayed' = delayed \cup {last[p]}
    /\ NextBatch(p)
    /\ UNCHANGED <<promiseVars, now, watermark, base, sched, tickerVars, taken, head,
                   stale, tokenVars>>

\* The connection was dropped, with or without the SET applied; a connection
\* that is stale from before always ends here.
SaveDisconnects(p, applied) ==
    /\ processor[p] = "save"
    /\ stale[p] \/ "disconnect" \in Faults
    /\ applied => ~ stale[p]
    /\ watermark' = IF applied THEN last[p] ELSE watermark
    /\ processor' = [processor EXCEPT ![p] = "reconnect"]
    /\ stale' = [stale EXCEPT ![p] = TRUE]
    /\ UNCHANGED <<promiseVars, now, delayed, base, sched, tickerVars, taken, head,
                   last, tokenVars>>

\* get_async_connection; a failure keeps the old connection.
Reconnect(p, ok) ==
    /\ processor[p] = "reconnect"
    /\ stale' = [stale EXCEPT ![p] = ~ ok]
    /\ NextBatch(p)
    /\ UNCHANGED <<promiseVars, now, redisVars, base, sched, tickerVars, taken, head,
                   tokenVars>>

\* Any other error ends the processor.
SaveIsFatal(p) ==
    /\ "fatal" \in Faults /\ Replaceable(p)
    /\ processor[p] = "save" /\ ~ stale[p]
    /\ processor' = [processor EXCEPT ![p] = "ended"]
    /\ last' = [last EXCEPT ![p] = None]
    /\ UNCHANGED <<promiseVars, now, redisVars, base, sched, tickerVars, taken, head,
                   stale, tokenVars>>

------------------------------------------------------------------------------
(* The executor of the process.                                             *)

\* The executor drops its queue once the manager's token is cancelled.
CloseExecutor(p) ==
    /\ Running(p) /\ cancelled[p]
    /\ \E K \in SUBSET { k \in Check : status[p][k] = "pending" } : Close(p, K)
    /\ UNCHANGED <<now, redisVars, base, sched, tickerVars, processorVars, tokenVars>>

\* do_check hands the final result to the producer.
ProduceResult(p, k) ==
    /\ Running(p)
    /\ \/ Publish(p, k)
       \/ "produce" \in Faults /\ PublishFails(p, k)
    /\ UNCHANGED <<now, redisVars, base, sched, tickerVars, processorVars, tokenVars>>

\* The receiver of check k is in the results of the current tick, in the channel
\* or in the batch.
Heard(p, k) ==
    \/ sched[p] = "tick" /\ k[1] = next[p]
    \/ processor[p] # "ended" /\ k[1] \in head[p] .. next[p] - 1

RecordResult(p, k) ==
    /\ Running(p)
    /\ Heard(p, k) \/ ~ PanicAborts
    /\ Settle(p, k)
    /\ UNCHANGED <<now, redisVars, base, sched, tickerVars, processorVars, tokenVars>>

\* A retry finds the queue closed; the unwinding task drops the oneshot.
DropRetry(p, k) ==
    /\ Running(p) /\ ~ PanicAborts
    /\ Drop(p, {k})
    /\ UNCHANGED <<now, redisVars, base, sched, tickerVars, processorVars, tokenVars>>

------------------------------------------------------------------------------
(* The process and its environment.                                         *)

\* ManagerHandle::stop: on a signal, or because the scheduler task returned.
Cancel(p) ==
    /\ Running(p) /\ ~ cancelled[p]
    /\ \/ "sigterm" \in Faults
       \/ sched[p] \in { "done", "failed" }
    /\ cancelled' = [cancelled EXCEPT ![p] = TRUE]
    /\ UNCHANGED <<promiseVars, now, redisVars, base, sched, tickerVars, processorVars,
                   stopping>>

\* The config provider sees the token and unregisters the partition, whose
\* service then cancels the partition's own token.
StopPartition(p) ==
    /\ Running(p) /\ cancelled[p] /\ ~ stopping[p]
    /\ stopping' = [stopping EXCEPT ![p] = TRUE]
    /\ UNCHANGED <<promiseVars, now, redisVars, base, sched, tickerVars, processorVars,
                   cancelled>>

\* All volatile state of p is lost.
Vanish(p) ==
    /\ sched' = [sched EXCEPT ![p] = "down"]
    /\ Abort(p)
    /\ next' = [next EXCEPT ![p] = 1]
    /\ todo' = [todo EXCEPT ![p] = {}]
    /\ processor' = [processor EXCEPT ![p] = "ended"]
    /\ taken' = [taken EXCEPT ![p] = 1]
    /\ head' = [head EXCEPT ![p] = 1]
    /\ last' = [last EXCEPT ![p] = None]
    /\ stale' = [stale EXCEPT ![p] = FALSE]
    /\ UNCHANGED <<now, redisVars, base, tokenVars>>

\* An expect of do_check fails and the release profile aborts: the receiver of a
\* result is gone, or a retry finds the queue closed.
Panic(p, k) ==
    /\ Running(p) /\ PanicAborts
    /\ \/ status[p][k] = "published" /\ ~ Heard(p, k)
       \/ status[p][k] = "pending" /\ ~ open[p]
    /\ Vanish(p)

Crash(p) ==
    /\ "crash" \in Faults /\ Replaceable(p)
    /\ Running(p)
    /\ Vanish(p)

\* stop() has waited for the scheduler and for the executor's checks; a tick
\* processor that a failed scheduler left behind ends with the process.
Exit(p) ==
    /\ sched[p] \in { "done", "failed" }
    /\ stopping[p] /\ ~ open[p]
    /\ \A k \in Check : status[p][k] \notin { "pending", "published" }
    /\ Vanish(p)

ClockTick ==
    /\ now < MaxTick
    /\ now' = now + 1
    /\ UNCHANGED <<promiseVars, redisVars, base, sched, tickerVars, processorVars, tokenVars>>

ApplyDelayed(t) ==
    /\ t \in delayed
    /\ watermark' = t
    /\ delayed' = delayed \ {t}
    /\ UNCHANGED <<promiseVars, now, base, sched, tickerVars, processorVars, tokenVars>>

\* WATERMARK_EXPIRY passes, or Redis loses the key.
Expire ==
    /\ "expire" \in Faults
    /\ watermark # None
    /\ watermark' = None
    /\ UNCHANGED <<promiseVars, now, delayed, base, sched, tickerVars, processorVars, tokenVars>>

\* End of the modelled time: every process waits for a tick beyond it, is down, or
\* was not needed.
Quiet ==
    /\ now = MaxTick
    /\ \A p \in Proc :
          \/ sched[p] \in { "off", "down" }
          \/ sched[p] = "wait" /\ next[p] > now /\ processor[p] = "ended"
          \/ /\ sched[p] = "wait" /\ next[p] > now
             /\ processor[p] = "recv" /\ taken[p] = next[p]
    /\ UNCHANGED vars

RunCheck(p, k) == ProduceResult(p, k) \/ RecordResult(p, k)

SchedulerStep(p) ==
    \/ ReadWatermark(p)
    \/ BeginTick(p) \/ (\E c \in Config : QueueCheck(p, c)) \/ QueueFails(p)
    \/ SendBundle(p) \/ SendFails(p) \/ FinishScheduler(p)

ProcessorStep(p) ==
    \/ ReceiveBatch(p) \/ ChannelClosed(p) \/ TickCompletes(p) \/ TickAborts(p)
    \/ SaveWatermark(p) \/ SaveTimesOut(p) \/ SaveIsFatal(p)
    \/ \E b \in BOOLEAN : SaveDisconnects(p, b) \/ Reconnect(p, b)

Next ==
    \/ \E p \in Proc :
          \/ StartProcess(p) \/ ReadFails(p) \/ SchedulerStep(p) \/ ProcessorStep(p)
          \/ \E k \in Check : RunCheck(p, k) \/ DropRetry(p, k) \/ Panic(p, k)
          \/ CloseExecutor(p)
          \/ Cancel(p) \/ StopPartition(p) \/ Crash(p) \/ Exit(p)
    \/ ClockTick
    \/ \E t \in Tick : ApplyDelayed(t)
    \/ Expire
    \/ Quiet

\* tokio runs every task that is ready, every check ends within its timeout,
\* time passes, and a process that is needed is started.
Fairness ==
    /\ WF_vars(ClockTick)
    /\ \A p \in Proc :
          /\ WF_vars(StartProcess(p))
          /\ WF_vars(SchedulerStep(p))
          /\ WF_vars(ProcessorStep(p))
          /\ WF_vars(CloseExecutor(p))
          /\ WF_vars(sched[p] \in {"done", "failed"} /\ Cancel(p))
          /\ WF_vars(StopPartition(p))
          /\ WF_vars(Exit(p))
          /\ \A t \in Tick : \A k \in ChecksOf(t) : WF_vars(RunCheck(p, k) \/ Panic(p, k))

Safety == Init /\ [][Next]_vars
Spec == Safety /\ Fairness

------------------------------------------------------------------------------
(* Properties.                                                              *)

\* Every check due at tick t has had a result given to the producer.
Done(t) == \A k \in ChecksOf(t) : k \in produced

\* So has every tick up to t that was not given up.
Covered(t) == \A u \in base .. t : Done(u)

\* The watermark covers only completed ticks: from the first tick that was not
\* given up, no check up to the watermark is missing from the results.  A
\* process resumes after the watermark, so a tick it wrongly covers is never
\* checked by anyone.
NoHoles == watermark # None => Covered(watermark)

\* A process whose scheduler still works has received a signal to stop.
Signalled ==
    \E p \in Proc : cancelled[p] /\ sched[p] \notin { "done", "failed", "down" }

\* The producer was given a result of check k, and took it or refused it.
Given(k) == k \in produced \/ \E p \in Proc : status[p][k] \in { "published", "settled" }

\* Crashes and fatal errors included, every check that is due from base on is
\* eventually run and its result given to the producer, by the process that was
\* to run it or by one that makes up for the ticks it missed.  (A process that is
\* signalled may give up a check, which NoHoles is about.)
EveryCheckProduced ==
    \A t \in Tick : \A k \in ChecksOf(t) : <>(Given(k) \/ t < base \/ Signalled)

\* Progress is eventually saved up to the present, unless a process is signalled.
\* (A scheduler whose processor failed finds out at its next tick, which may be
\* beyond the modelled time.)
WatermarkCatchesUp ==
    \/ <>[](\/ watermark = MaxTick
            \/ \E p \in Proc : sched[p] = "wait" /\ next[p] > MaxTick /\ processor[p] = "ended")
    \/ <>Signalled

\* A process told to stop comes down, however the closing of its executor races
\* the ticks its scheduler still begins.  (A scheduler that waits for a tick
\* beyond the modelled time is left out of account.)
StopCompletes ==
    \A p \in Proc :
        cancelled[p] ~> \/ sched[p] = "down"
                        \/ sched[p] = "wait" /\ next[p] > MaxTick

\* The expect at check_executor.rs:389 says that the channel a result is recorded
\* on exists: the scheduler still waits for every check that has been produced.
RecordingChannelExists ==
    \A p \in Proc, k \in Check :
        Running(p) /\ status[p][k] = "published" => Heard(p, k)

------------------------------------------------------------------------------
(* The inductive invariant behind NoHoles, for an environment that neither  *)
(* stops a process nor fails to produce.                                    *)

\* The executor is cancelled or closed only after the scheduler returned.
ExecutorOutlivesScheduler ==
    \A p \in Proc :
        cancelled[p] \/ ~ open[p] => sched[p] \in { "done", "failed", "down" }

\* The processor lives only while the scheduler loop does.
ProcessorWithinScheduler ==
    \A p \in Proc :
        sched[p] \in { "off", "boot", "done", "failed", "down" } => processor[p] = "ended"

\* What a oneshot tells about its check.
OneshotMeaning ==
    \A p \in Proc, k \in Check :
        /\ status[p][k] = "dropped" => ~ open[p]
        /\ status[p][k] \in { "published", "settled" } => k \in produced

\* Whatever a processor may still save is covered.
BatchCovered ==
    \A p \in Proc : processor[p] # "ended" =>
        /\ Covered(head[p] - 1)
        /\ last[p] # None => last[p] < head[p]

DelayedCovered == \A t \in delayed : Covered(t)

\* No save, whether pending, delayed or not begun, can cover a tick with a
\* missing result.  Together these facts are preserved by every step.
SavesCovered ==
    /\ ExecutorOutlivesScheduler
    /\ ProcessorWithinScheduler
    /\ OneshotMeaning
    /\ BatchCovered
    /\ DelayedCovered
    /\ NoHoles
    /\ base <= now

==============================================================================
