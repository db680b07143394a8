---------------------------- MODULE PartitionBoot ----------------------------
(***************************************************************************)
(* When a partition starts to run its checks (config_waiter.rs, with the   *)
(* initial load of redis_config_provider.rs).  All partitions are          *)
(* registered first, each with a waiter; then the monitor loads their      *)
(* configs, one partition after the other.  A waiter looks at the config   *)
(* store at every tick of its interval and lets the scheduler start when   *)
(* the store has been idle for long enough.                                *)
(*                                                                         *)
(* The unit of time is half of BOOT_IDLE_TIMEOUT, a quarter of a second.   *)
(* Instants are kept as ages, and an age stops growing where the code does *)
(* not tell it from a higher one, so that time goes on for ever.  The      *)
(* configs of a partition arrive in one answer and are stored in one loop  *)
(* without an await, so storing them is one step.                          *)
(***************************************************************************)
EXTENDS Partitions, Integers, FiniteSets

CONSTANTS
    BootIdle,          \* BOOT_IDLE_TIMEOUT
    BootMaxIdle,       \* BOOT_MAX_IDLE
    MaxLatency         \* bound: how long Redis takes to connect or to answer, at
                       \* most redis_timeouts_ms

ASSUME BootAssumption ==
    /\ BootIdle \in Nat /\ BootMaxIdle \in Nat /\ BootIdle <= BootMaxIdle
    /\ MaxLatency \in Nat
    /\ None \notin Nat

VARIABLES
    elapsed,           \* time since the partitions were registered
    connected,         \* get_async_connection has returned
    unloaded,          \* partitions whose configs have not arrived
    asked,             \* how long the monitor has waited for Redis, or None
    updated,           \* how long ago each config store was updated, or None
    cancelled,         \* partitions whose service was told to stop
    waiter,            \* state of each waiter
    ticked             \* waiters that have had the tick of this instant

loadVars == <<connected, unloaded, asked, updated>>
waiterVars == <<waiter, ticked>>
bootVars == <<elapsed, loadVars, cancelled, waiterVars>>

Waiter == { "waiting", "leaving", "started", "cancelled" }

BootTypeOK ==
    /\ elapsed \in 0 .. BootMaxIdle
    /\ connected \in BOOLEAN
    /\ unloaded \subseteq Partition
    /\ asked \in (0 .. MaxLatency) \cup {None}
    /\ ~ connected => unloaded = Partition /\ asked # None
    /\ updated \in [Partition -> (0 .. BootIdle) \cup {None}]
    /\ cancelled \subseteq Partition
    /\ waiter \in [Partition -> Waiter]
    /\ ticked \subseteq Partition

\* update_partitions has registered every partition, and the monitor asks for
\* its connection.
BootInit ==
    /\ elapsed = 0
    /\ connected = FALSE /\ unloaded = Partition /\ asked = 0
    /\ updated = [p \in Partition |-> None]
    /\ cancelled = {}
    /\ waiter = [p \in Partition |-> "waiting"]
    /\ ticked = {}

------------------------------------------------------------------------------
(* The monitor.                                                             *)

\* get_async_connection returns.
Connect ==
    /\ ~ connected
    /\ connected' = TRUE
    /\ asked' = None
    /\ UNCHANGED <<elapsed, unloaded, updated, cancelled, waiterVars>>

AskForConfigs ==
    /\ connected /\ unloaded # {} /\ asked = None
    /\ asked' = 0
    /\ UNCHANGED <<elapsed, connected, unloaded, updated, cancelled, waiterVars>>

\* The answer for partition p, which may have no configs: add_config for each.
LoadPartition(p) ==
    /\ connected /\ asked # None /\ p \in unloaded
    /\ unloaded' = unloaded \ {p}
    /\ asked' = None
    /\ \/ updated' = [updated EXCEPT ![p] = 0]
       \/ UNCHANGED updated
    /\ UNCHANGED <<elapsed, connected, cancelled, waiterVars>>

\* The monitor has loaded every partition and applies an update, at any time
\* and as often as there are any.
UpdateStore(p) ==
    /\ unloaded = {}
    /\ updated' = [updated EXCEPT ![p] = 0]
    /\ UNCHANGED <<elapsed, connected, unloaded, asked, cancelled, waiterVars>>

\* PartitionedService::stop.
CancelService(p) ==
    /\ waiter[p] \in { "waiting", "leaving" } /\ p \notin cancelled
    /\ cancelled' = cancelled \cup {p}
    /\ UNCHANGED <<elapsed, loadVars, waiterVars>>

------------------------------------------------------------------------------
(* The waiter of a partition.                                               *)

\* The store has not been updated at all for BOOT_MAX_IDLE, or not since
\* BOOT_IDLE_TIMEOUT.  Mutants: an empty store is waited for forever, and an
\* empty store is no different from an idle one.
IsIdleOnlyOnceUpdated(p) == updated[p] # None /\ updated[p] >= BootIdle

IsIdleWhenEmpty(p) ==
    IF updated[p] = None THEN elapsed >= BootIdle ELSE updated[p] >= BootIdle

IsIdle(p) ==
    IF updated[p] = None THEN elapsed >= BootMaxIdle ELSE updated[p] >= BootIdle

\* One tick of the interval and the test of the loop after it.
Tick(p) ==
    /\ waiter[p] = "waiting" /\ p \notin ticked
    /\ ticked' = ticked \cup {p}
    /\ waiter' = [waiter EXCEPT ![p] = IF IsIdle(p) \/ p \in cancelled THEN "leaving" ELSE @]
    /\ UNCHANGED <<elapsed, loadVars, cancelled>>

\* After the loop: the token decides what the scheduler is told.
Answer(p) ==
    /\ waiter[p] = "leaving"
    /\ waiter' = [waiter EXCEPT ![p] = IF p \in cancelled THEN "cancelled" ELSE "started"]
    /\ UNCHANGED <<elapsed, loadVars, cancelled, ticked>>

------------------------------------------------------------------------------
\* An age one unit later, if there is one.
Older(age, limit) == IF age = None \/ age = limit THEN age ELSE age + 1

\* Every waiter gets its tick, one that leaves its loop does not wait for
\* anything, and Redis connects and answers within its bound.
ClockTick ==
    /\ \A p \in Partition :
          waiter[p] # "leaving" /\ (waiter[p] = "waiting" => p \in ticked)
    /\ unloaded # {} => asked # None /\ asked < MaxLatency
    /\ elapsed' = Older(elapsed, BootMaxIdle)
    /\ asked' = Older(asked, MaxLatency)
    /\ updated' = [p \in Partition |-> Older(updated[p], BootIdle)]
    /\ ticked' = {}
    /\ UNCHANGED <<connected, unloaded, cancelled, waiter>>

BootNext ==
    \/ Connect \/ AskForConfigs
    \/ \E p \in Partition :
          LoadPartition(p) \/ UpdateStore(p) \/ CancelService(p) \/ Tick(p) \/ Answer(p)
    \/ ClockTick

\* Time passes, timers fire, tasks that are ready run and Redis answers.
BootFairness ==
    /\ WF_bootVars(Connect) /\ WF_bootVars(AskForConfigs) /\ WF_bootVars(ClockTick)
    /\ WF_bootVars(\E p \in Partition : LoadPartition(p))
    /\ \A p \in Partition : WF_bootVars(Tick(p)) /\ WF_bootVars(Answer(p))

BootSafety == BootInit /\ [][BootNext]_bootVars
BootSpec == BootSafety /\ BootFairness

------------------------------------------------------------------------------
(* Properties.                                                              *)

\* config_waiter.rs:29 is sure that all of the backlog has been read when the
\* store starts idling: a scheduler is told "started" only after the configs of
\* its partition were loaded.  Otherwise it runs its first ticks, and the ones
\* since the watermark, without them, and those checks are never made.
StartsAfterBacklog == \A p \in Partition : waiter[p] = "started" => p \notin unloaded

\* From some instant on the store of p is never seen idle: each instant ends less
\* than BOOT_IDLE_TIMEOUT after an update.
KeepsBeingUpdated(p) ==
    <>[][ClockTick => updated[p] # None /\ updated[p] < BootIdle]_bootVars

\* The scheduler of every partition gets its answer, also that of a partition
\* without configs, one that is updated now and then, and one that is stopped, in
\* the middle of updates too.  Only updates that keep coming within
\* BOOT_IDLE_TIMEOUT, for ever, hold a waiter up (config_waiter.rs:34-35), and
\* then only until it is told to stop.
EveryWaiterAnswers ==
    \A p \in Partition :
        \/ <> (waiter[p] \in { "started", "cancelled" })
        \/ [] (p \notin cancelled) /\ KeepsBeingUpdated(p)

==============================================================================
