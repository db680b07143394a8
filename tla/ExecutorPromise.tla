--------------------------- MODULE ExecutorPromise ---------------------------
(***************************************************************************)
(* What the check executor promises the scheduler, for every checker       *)
(* process in Proc: an accepted check ends in exactly one of two ways,     *)
(* unless the process ends first.  Either its result is handed to the      *)
(* producer and then the oneshot of the check is resolved, or the oneshot  *)
(* is dropped unresolved, which happens only once the executor has closed  *)
(* its queue.                                                              *)
(*                                                                         *)
(* CheckExecutor is shown to implement this module and Scheduler is built  *)
(* on it.                                                                  *)
(***************************************************************************)
CONSTANTS
    Proc,              \* checker processes
    Check              \* scheduled checks

VARIABLES
    status,            \* status[p][k]: how far process p has brought check k
    open,              \* open[p]: the receiver of p's check queue is alive
    produced           \* checks whose result some process gave the producer

promiseVars == <<status, open, produced>>

Status == { "none", "pending", "published", "settled", "dropped" }

PromiseTypeOK ==
    /\ status \in [Proc -> [Check -> Status]]
    /\ open \in [Proc -> BOOLEAN]
    /\ produced \subseteq Check

PromiseInit ==
    /\ status = [p \in Proc |-> [k \in Check |-> "none"]]
    /\ open = [p \in Proc |-> TRUE]
    /\ produced = {}

\* Check k of process p moves from one of the statuses in from to to.
Move(p, k, from, to) ==
    /\ status[p][k] \in from
    /\ status' = [status EXCEPT ![p][k] = to]

\* CheckSender::queue_check succeeds.
Accept(p, k) ==
    /\ open[p]
    /\ Move(p, k, {"none"}, "pending")
    /\ UNCHANGED <<open, produced>>

\* A final result reaches produce_checker_result, which succeeds ...
Publish(p, k) ==
    /\ Move(p, k, {"pending"}, "published")
    /\ produced' = produced \cup {k}
    /\ UNCHANGED open

\* ... or fails, which do_check logs and otherwise ignores.
PublishFails(p, k) ==
    /\ Move(p, k, {"pending"}, "published")
    /\ UNCHANGED <<open, produced>>

\* record_result.
Settle(p, k) ==
    /\ Move(p, k, {"published"}, "settled")
    /\ UNCHANGED <<open, produced>>

\* The oneshots of some checks are dropped: those that were queued when the
\* queue closed, or one that could not be queued again.
Drop(p, K) ==
    /\ ~ open[p]
    /\ \A k \in K : status[p][k] = "pending"
    /\ status' = [status EXCEPT ![p] = [k \in Check |-> IF k \in K THEN "dropped" ELSE @[k]]]
    /\ UNCHANGED <<open, produced>>

\* The executor stops taking checks and drops the queue with what is in it.
Close(p, K) ==
    /\ open[p]
    /\ \A k \in K : status[p][k] = "pending"
    /\ open' = [open EXCEPT ![p] = FALSE]
    /\ status' = [status EXCEPT ![p] = [k \in Check |-> IF k \in K THEN "dropped" ELSE @[k]]]
    /\ UNCHANGED produced

\* A panic aborts the process in the release profile: nothing in memory is left.
Abort(p) ==
    /\ status' = [status EXCEPT ![p] = [k \in Check |-> "none"]]
    /\ open' = [open EXCEPT ![p] = FALSE]
    /\ UNCHANGED produced

PromiseNext ==
    \E p \in Proc :
        \/ \E k \in Check :
              \/ Accept(p, k)
              \/ Publish(p, k)
              \/ PublishFails(p, k)
              \/ Settle(p, k)
        \/ \E K \in SUBSET Check : Close(p, K) \/ Drop(p, K)
        \/ Abort(p)

\* An accepted check does not stay unresolved forever.
PromiseFairness ==
    \A p \in Proc, k \in Check :
        WF_promiseVars(Publish(p, k) \/ PublishFails(p, k) \/ Settle(p, k) \/ Drop(p, {k}))

PromiseSafety == PromiseInit /\ [][PromiseNext]_promiseVars

PromiseSpec == PromiseSafety /\ PromiseFairness

==============================================================================
