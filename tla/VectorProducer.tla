---------------------------- MODULE VectorProducer ----------------------------
(***************************************************************************)
(* The Vector producer (producer/vector_producer.rs): executor tasks hand  *)
(* results to an unbounded channel, and one worker collects them in        *)
(* chunks, posts each chunk to Vector and retries what failed.             *)
(*                                                                         *)
(* produce_checker_result is two steps, the send and the count: the worker *)
(* runs on another thread between them.  A result that fails to serialize  *)
(* or to validate never enters the channel.  The worker ends only after    *)
(* every producer was dropped, so a send never finds the channel closed.   *)
(***************************************************************************)
EXTENDS Integers, Sequences, FiniteSets, SequencesExt

CONSTANTS
    Result,            \* results of checks
    BatchSize,         \* vector_batch_size
    CounterRange,      \* values of a usize; pending_items is counted modulo it
    MaxRetries         \* bound: num_of_retries is counted up to here

ASSUME VectorAssumption ==
    /\ BatchSize \in Nat \ {0}
    /\ CounterRange \in Nat \ {0}
    /\ MaxRetries \in Nat \ {0}

VARIABLES
    channel,           \* the mpsc channel
    retry_forever,     \* the setting retry_vector_errors_forever
    endpoint_ok,       \* a request to the setting vector_endpoint can be built
    uncounted,         \* results sent and not yet added to pending_items
    pending_items,     \* the AtomicUsize behind the gauge
    closed,            \* every VectorResultsProducer was dropped
    worker,            \* where the worker is
    chunk,             \* items of chunks_timeout not emitted yet
    batch,             \* the chunk in send_batch
    num_of_retries,
    delay,             \* milliseconds of the current sleep
    sent,              \* history: results in the order of their sends
    left,              \* history: results the worker is done with, in order
    answer             \* history: what Vector made of each result

settings == <<retry_forever, endpoint_ok>>
producerVars == <<settings, uncounted, closed, sent>>
sendVars == <<num_of_retries, delay>>
vars == <<channel, producerVars, pending_items, worker, chunk, batch, sendVars, left, answer>>

\* collect: in chunk_stream.next(); send: a request is out; backoff: in sleep.
Worker == { "collect", "send", "backoff", "ended" }
\* none: no answer, or one that reports a server error.
Answer == { "none", "refused", "took" }

TypeOK ==
    /\ channel \in Seq(Result)
    /\ retry_forever \in BOOLEAN /\ endpoint_ok \in BOOLEAN
    /\ uncounted \subseteq Result
    /\ pending_items \in 0 .. CounterRange - 1
    /\ closed \in BOOLEAN
    /\ worker \in Worker
    /\ chunk \in Seq(Result) /\ Len(chunk) <= BatchSize
    /\ batch \in Seq(Result) /\ Len(batch) <= BatchSize
    /\ batch # <<>> <=> worker \in { "send", "backoff" }
    /\ num_of_retries \in 0 .. MaxRetries
    /\ delay \in 0 .. 2000
    /\ sent \in Seq(Result)
    /\ left \in Seq(Result)
    /\ answer \in [Result -> Answer]

Init ==
    /\ channel = <<>>
    /\ retry_forever \in BOOLEAN /\ endpoint_ok \in BOOLEAN
    /\ uncounted = {}
    /\ pending_items = 0
    /\ closed = FALSE
    /\ worker = "collect"
    /\ chunk = <<>>
    /\ batch = <<>>
    /\ num_of_retries = 0
    /\ delay = 0
    /\ sent = <<>>
    /\ left = <<>>
    /\ answer = [r \in Result |-> "none"]

------------------------------------------------------------------------------
(* produce_checker_result.                                                  *)

SendResult(r) ==
    /\ ~ closed /\ r \notin ToSet(sent)
    /\ channel' = Append(channel, r)
    /\ sent' = Append(sent, r)
    /\ uncounted' = uncounted \cup {r}
    /\ UNCHANGED <<settings, pending_items, closed, worker, chunk, batch, sendVars, left,
                   answer>>

CountResult(r) ==
    /\ r \in uncounted
    /\ uncounted' = uncounted \ {r}
    /\ pending_items' = (pending_items + 1) % CounterRange
    /\ UNCHANGED <<settings, channel, closed, worker, chunk, batch, sendVars, sent, left,
                   answer>>

\* The executor ended and with it the last reference to the producer.
DropProducer ==
    /\ ~ closed /\ uncounted = {}
    /\ closed' = TRUE
    /\ UNCHANGED <<settings, channel, uncounted, pending_items, worker, chunk, batch, sendVars,
                   sent, left, answer>>

------------------------------------------------------------------------------
(* The worker: chunks_timeout.                                              *)

TakeItem ==
    /\ worker = "collect"
    /\ channel # <<>> /\ Len(chunk) < BatchSize
    /\ chunk' = Append(chunk, Head(channel))
    /\ channel' = Tail(channel)
    /\ UNCHANGED <<producerVars, pending_items, worker, batch, sendVars, left, answer>>

\* Mutant of EmitChunk: only a full chunk is emitted.
EmitFullChunk ==
    /\ worker = "collect"
    /\ Len(chunk) = BatchSize
    /\ pending_items' = (pending_items - Len(chunk)) % CounterRange
    /\ batch' = chunk
    /\ chunk' = <<>>
    /\ num_of_retries' = 0
    /\ worker' = "send"
    /\ UNCHANGED <<channel, producerVars, delay, left, answer>>

\* The chunk is full, its timeout fired, or the channel is closed and empty.
EmitChunk ==
    /\ worker = "collect"
    /\ chunk # <<>>
    /\ pending_items' = (pending_items - Len(chunk)) % CounterRange
    /\ batch' = chunk
    /\ chunk' = <<>>
    /\ num_of_retries' = 0
    /\ worker' = "send"
    /\ UNCHANGED <<channel, producerVars, delay, left, answer>>

\* Mutant of EndWorker: the last chunk is not flushed.
EndWorkerUnflushed ==
    /\ worker = "collect"
    /\ closed /\ channel = <<>>
    /\ chunk' = <<>>
    /\ worker' = "ended"
    /\ UNCHANGED <<channel, producerVars, pending_items, batch, sendVars, left, answer>>

EndWorker ==
    /\ worker = "collect"
    /\ closed /\ channel = <<>> /\ chunk = <<>>
    /\ worker' = "ended"
    /\ UNCHANGED <<channel, producerVars, pending_items, chunk, batch, sendVars, left, answer>>

------------------------------------------------------------------------------
(* send_batch.                                                              *)

\* The batch is done with: the worker goes round.
BatchLeaves ==
    /\ left' = left \o batch
    /\ batch' = <<>>
    /\ worker' = "collect"

\* What is known of each result after an answer to the batch.
Answered(a) ==
    [r \in Result |-> IF r \in ToSet(batch) /\ answer[r] # "took" /\ a # "none"
                     THEN a ELSE answer[r]]

\* build() fails: the endpoint is not a URL.  The error leaves send_batch before
\* anything is sent or retried, whatever retry_vector_errors_forever is, and the
\* worker logs it and goes round.
BuildFails ==
    /\ worker = "send" /\ ~ endpoint_ok
    /\ BatchLeaves
    /\ UNCHANGED <<channel, producerVars, pending_items, chunk, sendVars, answer>>

\* An answer below 500.  Vector took the batch, or refused it for good; both
\* count as sent.
VectorAnswers(took) ==
    /\ worker = "send" /\ endpoint_ok
    /\ answer' = Answered(IF took THEN "took" ELSE "refused")
    /\ BatchLeaves
    /\ UNCHANGED <<channel, producerVars, pending_items, chunk, sendVars>>

\* BASE_DELAY_MS * 2_u64.pow(num_of_retries.min(63)), capped at MAX_DELAY_MS.
\* A u64 is the set of its one bits: 100 is {2, 5, 6}, and the product drops the
\* bits from 64 on.  Bit 11 and higher is over the cap of 2000.
Delay(retries) ==
    LET exponent == IF retries < 63 THEN retries ELSE 63
        product  == { b + exponent : b \in { 2, 5, 6 } } \cap (0 .. 63)
    IN  IF \E b \in product : b > 10 THEN 2000
        ELSE LET bit(b) == IF b \in product THEN 2^b ELSE 0
                 value  == bit(2) + bit(3) + bit(4) + bit(5) + bit(6) + bit(7) + bit(8)
                             + bit(9) + bit(10)
             IN  IF value < 2000 THEN value ELSE 2000

CountRetry == IF num_of_retries < MaxRetries THEN num_of_retries + 1 ELSE num_of_retries

\* Mutant of RequestFails: the body was moved into the first request, so a retry
\* finds only the last line of the batch.
RequestFailsPartialBody(took) ==
    /\ worker = "send" /\ endpoint_ok /\ retry_forever
    /\ answer' = Answered(IF took THEN "took" ELSE "none")
    /\ num_of_retries' = CountRetry
    /\ delay' = Delay(num_of_retries)
    /\ worker' = "backoff"
    /\ batch' = << batch[Len(batch)] >>
    /\ UNCHANGED <<channel, producerVars, pending_items, chunk, left>>

\* A server error, no connection, or no answer within 30 seconds, in which case
\* Vector may have taken the batch all the same.
RequestFails(took) ==
    /\ worker = "send" /\ endpoint_ok /\ retry_forever
    /\ answer' = Answered(IF took THEN "took" ELSE "none")
    /\ num_of_retries' = CountRetry
    /\ delay' = Delay(num_of_retries)
    /\ worker' = "backoff"
    /\ UNCHANGED <<channel, producerVars, pending_items, chunk, batch, left>>

\* Without retry_vector_errors_forever the first failure gives the batch up.
RequestGivesUp(took) ==
    /\ worker = "send" /\ endpoint_ok /\ ~ retry_forever
    /\ answer' = Answered(IF took THEN "took" ELSE "none")
    /\ num_of_retries' = CountRetry
    /\ delay' = Delay(num_of_retries)
    /\ BatchLeaves
    /\ UNCHANGED <<channel, producerVars, pending_items, chunk>>

\* Mutant of RetryAfterDelay: the loop gives up instead of going round.
RetryAfterDelayGivesUp ==
    /\ worker = "backoff"
    /\ BatchLeaves
    /\ UNCHANGED <<channel, producerVars, pending_items, chunk, sendVars, answer>>

RetryAfterDelay ==
    /\ worker = "backoff"
    /\ worker' = "send"
    /\ UNCHANGED <<channel, producerVars, pending_items, chunk, batch, sendVars, left, answer>>

\* Every result was produced or the producer is gone, and the worker is idle.
Idle ==
    /\ worker = "ended"
    /\ UNCHANGED vars

WorkerStep ==
    \/ TakeItem \/ EmitChunk \/ EndWorker \/ BuildFails \/ RetryAfterDelay
    \/ \E took \in BOOLEAN : VectorAnswers(took) \/ RequestFails(took) \/ RequestGivesUp(took)

Next ==
    \/ \E r \in Result : SendResult(r) \/ CountResult(r)
    \/ DropProducer
    \/ WorkerStep
    \/ Idle

\* tokio runs the worker, every request ends within its timeout, and Vector is
\* not down forever: a batch that is sent again and again is answered.
Fairness ==
    /\ \A r \in Result : WF_vars(CountResult(r))
    /\ WF_vars(WorkerStep)
    /\ SF_vars(\E took \in BOOLEAN : VectorAnswers(took))

Safety == Init /\ [][Next]_vars
Spec == Safety /\ Fairness

------------------------------------------------------------------------------
(* Properties.                                                              *)

\* Between the send and the worker's last look at it every result is in one
\* place, once, and nothing overtakes: chunking, timeouts, retries and the
\* closing of the channel neither lose, repeat nor reorder a result.
PipelineKeepsOrder == left \o batch \o chunk \o channel = sent

\* pending_items may wrap while a send is not counted yet, but does not drift:
\* with the uncounted sends it is always what waits in front of send_batch.
PendingDoesNotDrift ==
    (pending_items + Cardinality(uncounted)) % CounterRange
        = (Len(channel) + Len(chunk)) % CounterRange

\* With retry_vector_errors_forever, a batch leaves only with an answer from
\* Vector: an outage, however long, gives no result up.  The one way out of the
\* loop without an answer is a request that cannot be built (160-165), and that
\* depends on the endpoint alone.
NothingGivenUp ==
    retry_forever => \A r \in ToSet(left) : answer[r] # "none" \/ ~ endpoint_ok

\* Every result that was sent is brought to Vector, also when the producer is
\* dropped before the chunk is full.
EveryResultLeaves == \A r \in Result : r \in ToSet(sent) ~> r \in ToSet(left)

\* The worker ends once the producer is dropped, which the stop of the process
\* waits for.
WorkerEnds == closed ~> worker = "ended"

\* The delay the comment at vector_producer.rs:169 describes, "with a maximum
\* cap": it doubles up to MAX_DELAY_MS and stays there.
CappedBackoff ==
    worker = "backoff" =>
        delay = IF num_of_retries > 5 THEN 2000 ELSE 100 * 2^(num_of_retries - 1)

==============================================================================
