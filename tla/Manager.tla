------------------------------- MODULE Manager -------------------------------
(***************************************************************************)
(* The tasks of one checker process and how it starts and stops            *)
(* (manager.rs, app.rs and the tasks of redis_config_provider.rs).  The    *)
(* config provider is two tasks: the monitor, which registers the          *)
(* partitions, loads their configs and then polls for updates, and the     *)
(* provider, which waits for the token or for the monitor's end.  What the *)
(* executor, the schedulers and the producer do is left to their own       *)
(* modules; here they run and end.                                         *)
(*                                                                         *)
(* The manager lives as long as the provider or the monitor does: both     *)
(* hold an Arc of it.  A panic anywhere aborts the process (the release    *)
(* profile).                                                               *)
(***************************************************************************)
EXTENDS Partitions, Integers, FiniteSets, Sequences

CONSTANTS
    StopDuringBoot,    \* the signal may come before the configs are loaded
    FatalErrors        \* schedulers may return an error, Redis may be down

ASSUME ManagerAssumption ==
    /\ None \notin Partition
    /\ StopDuringBoot \in BOOLEAN
    /\ FatalErrors \in BOOLEAN

VARIABLES
    read_only,         \* redis_readonly: configs are loaded and never polled
    process,           \* up, stopping, exited or aborted
    awaiting,          \* stop(): the join handle being awaited
    token,             \* the manager's cancellation token
    ended,             \* the tasks that have returned
    monitor,           \* where the monitor is
    todo,              \* partitions of the monitor's current loop
    at,                \* partition the monitor is working on
    held,              \* the monitor holds an Arc of at's service
    provider,          \* where the provider is
    removing,          \* partitions update_partitions has yet to unregister
    services,          \* keys of the services map
    shutdown,          \* services sent to the shutdown stream
    stopping,          \* services whose stop() is running
    told,              \* partitions whose token is cancelled
    scheduler          \* scheduler task of each partition

monitorVars == <<monitor, todo, at, held>>
providerVars == <<provider, removing>>
serviceVars == <<services, shutdown, stopping, told, scheduler>>
mainVars == <<read_only, process, awaiting, token>>
vars == <<mainVars, ended, monitorVars, providerVars, serviceVars>>

\* The handles in the order in which stop() awaits them.
Awaited == << "endpoint", "provider", "worker", "services", "executor" >>
Task == { Awaited[i] : i \in 1 .. Len(Awaited) } \cup { "monitor" }
Monitor == { "start", "register", "load", "poll", "ended" }

TypeOK ==
    /\ process \in { "up", "stopping", "exited", "aborted" }
    /\ read_only \in BOOLEAN
    /\ awaiting \in 1 .. Len(Awaited) + 1
    /\ token \in BOOLEAN
    /\ ended \subseteq Task
    /\ monitor \in Monitor
    /\ todo \subseteq Partition
    /\ at \in Partition \cup {None}
    /\ held \in BOOLEAN
    /\ held => at # None
    /\ provider \in { "select", "unregister", "ended" }
    /\ removing \subseteq services
    /\ services \subseteq Partition
    /\ shutdown \subseteq Partition
    /\ stopping \subseteq told
    /\ told \subseteq Partition
    /\ scheduler \in [Partition -> { "none", "running", "ended" }]

Init ==
    /\ read_only \in BOOLEAN
    /\ process = "up" /\ awaiting = 1 /\ token = FALSE
    /\ ended = {}
    /\ monitor = "start" /\ todo = {} /\ at = None /\ held = FALSE
    /\ provider = "select" /\ removing = {}
    /\ services = {} /\ shutdown = {} /\ stopping = {} /\ told = {}
    /\ scheduler = [p \in Partition |-> "none"]

Alive == process \in { "up", "stopping" }

Panic ==
    /\ process' = "aborted"
    /\ UNCHANGED <<read_only, awaiting, token, ended, monitorVars, providerVars, serviceVars>>

------------------------------------------------------------------------------
(* The monitor: monitor_configs.                                            *)

\* update_partitions reads the known partitions under one lock and registers
\* the others one by one, each under a lock of its own.
MonitorStarts ==
    /\ Alive /\ monitor = "start"
    /\ monitor' = "register"
    /\ todo' = Partition \ services
    /\ UNCHANGED <<mainVars, ended, at, held, providerVars, serviceVars>>

\* register_partition starts the partition's scheduler.
RegisterPartition(p) ==
    /\ Alive /\ monitor = "register" /\ p \in todo
    /\ services' = services \cup {p}
    /\ scheduler' = [scheduler EXCEPT ![p] = "running"]
    /\ todo' = todo \ {p}
    /\ UNCHANGED <<mainVars, ended, monitor, at, held, providerVars, shutdown, stopping, told>>

BeginLoad ==
    /\ Alive /\ monitor = "register" /\ todo = {}
    /\ monitor' = "load"
    /\ todo' = Partition
    /\ UNCHANGED <<mainVars, ended, at, held, providerVars, serviceVars>>

\* Redis is not available, or read_configs fails.
LoadPanics ==
    /\ Alive /\ FatalErrors
    /\ monitor = "load" /\ todo # {} /\ at = None
    /\ Panic

\* The configs or the updates of partition p have arrived.
BeginPartition(p) ==
    /\ Alive /\ monitor \in { "load", "poll" }
    /\ at = None /\ p \in todo
    /\ at' = p
    /\ UNCHANGED <<mainVars, ended, monitor, todo, held, providerVars, serviceVars>>

\* get_service clones the Arc, which lives to the end of the statement that
\* changes the config store.
GetService ==
    /\ Alive /\ at # None /\ ~ held
    /\ at \in services
    /\ held' = TRUE
    /\ UNCHANGED <<mainVars, ended, monitor, todo, at, providerVars, serviceVars>>

\* The partition has been unregistered.
GetServicePanics ==
    /\ Alive /\ at # None /\ ~ held
    /\ at \notin services
    /\ Panic

ChangeStore ==
    /\ Alive /\ held
    /\ held' = FALSE
    /\ UNCHANGED <<mainVars, ended, monitor, todo, at, providerVars, serviceVars>>

EndPartition ==
    /\ Alive /\ at # None /\ ~ held
    /\ todo' = todo \ {at}
    /\ at' = None
    /\ UNCHANGED <<mainVars, ended, monitor, held, providerVars, serviceVars>>

\* The loop's test of the token, after the load and after each round.
GoRound ==
    IF read_only \/ token
    THEN monitor' = "ended" /\ todo' = {} /\ ended' = ended \cup {"monitor"}
    ELSE monitor' = "poll" /\ todo' = Partition /\ UNCHANGED ended

EndRound ==
    /\ Alive /\ monitor \in { "load", "poll" } /\ at = None /\ todo = {}
    /\ GoRound
    /\ UNCHANGED <<mainVars, at, held, providerVars, serviceVars>>

\* A Redis error ends the round; the monitor sleeps and tries again.
PollFails ==
    /\ Alive /\ FatalErrors
    /\ monitor = "poll" /\ ~ held /\ todo # {}
    /\ GoRound
    /\ at' = None
    /\ UNCHANGED <<mainVars, held, providerVars, serviceVars>>

------------------------------------------------------------------------------
(* The provider: run_config_provider.                                       *)

\* The token is cancelled: update_partitions with no partition.
ShutdownRequested ==
    /\ Alive /\ provider = "select" /\ token
    /\ provider' = "unregister"
    /\ removing' = services
    /\ UNCHANGED <<mainVars, ended, monitorVars, serviceVars>>

UnregisterPartition(p) ==
    /\ Alive /\ provider = "unregister" /\ p \in removing
    /\ ~ (held /\ at = p)
    /\ services' = services \ {p}
    /\ shutdown' = shutdown \cup {p}
    /\ removing' = removing \ {p}
    /\ UNCHANGED <<mainVars, ended, monitorVars, provider, stopping, told, scheduler>>

\* Arc::into_inner finds the monitor's reference.
UnregisterPanics(p) ==
    /\ Alive /\ provider = "unregister" /\ p \in removing
    /\ held /\ at = p
    /\ Panic

ProviderEnds ==
    /\ Alive
    /\ \/ provider = "unregister" /\ removing = {}
       \/ provider = "select" /\ monitor = "ended"
    /\ provider' = "ended"
    /\ ended' = ended \cup {"provider"}
    /\ UNCHANGED <<mainVars, monitorVars, removing, serviceVars>>

------------------------------------------------------------------------------
(* The partitioned services and the other tasks.                            *)

\* Mutant of StopService: the partition's token is not cancelled.
StopServiceUntold(p) ==
    /\ Alive /\ "services" \notin ended
    /\ p \in shutdown
    /\ shutdown' = shutdown \ {p}
    /\ stopping' = stopping \cup {p}
    /\ UNCHANGED <<mainVars, ended, monitorVars, providerVars, services, told, scheduler>>

\* The shutdown stream starts stop(), which cancels the partition's token.
StopService(p) ==
    /\ Alive /\ "services" \notin ended
    /\ p \in shutdown
    /\ shutdown' = shutdown \ {p}
    /\ stopping' = stopping \cup {p}
    /\ told' = told \cup {p}
    /\ UNCHANGED <<mainVars, ended, monitorVars, providerVars, services, scheduler>>

ServiceStopped(p) ==
    /\ Alive /\ p \in stopping /\ scheduler[p] = "ended"
    /\ stopping' = stopping \ {p}
    /\ UNCHANGED <<mainVars, ended, monitorVars, providerVars, services, shutdown, told, scheduler>>

\* Mutant of ServicesEnd: the stops that are running are not waited for.
ServicesEndUnwaited ==
    /\ Alive /\ "services" \notin ended
    /\ {"provider", "monitor"} \subseteq ended
    /\ shutdown = {}
    /\ ended' = ended \cup {"services"}
    /\ UNCHANGED <<mainVars, monitorVars, providerVars, serviceVars>>

\* The stream ends when the manager, and with it the sender, is dropped.
ServicesEnd ==
    /\ Alive /\ "services" \notin ended
    /\ {"provider", "monitor"} \subseteq ended
    /\ shutdown = {} /\ stopping = {}
    /\ ended' = ended \cup {"services"}
    /\ UNCHANGED <<mainVars, monitorVars, providerVars, serviceVars>>

\* The scheduler was told to stop, met the closed queue of the executor, or
\* failed.
SchedulerEnds(p) ==
    /\ Alive /\ scheduler[p] = "running"
    /\ p \in told \/ "executor" \in ended \/ FatalErrors
    /\ scheduler' = [scheduler EXCEPT ![p] = "ended"]
    /\ UNCHANGED <<mainVars, ended, monitorVars, providerVars, services, shutdown, stopping, told>>

Returns(task) ==
    /\ Alive /\ task \notin ended
    /\ ended' = ended \cup {task}
    /\ UNCHANGED <<mainVars, monitorVars, providerVars, serviceVars>>

EndpointEnds == token /\ Returns("endpoint")

\* The port is taken: the task logs the error and returns.
EndpointFails == FatalErrors /\ Returns("endpoint")

ExecutorEnds == token /\ Returns("executor")

\* The Vector worker ends with the executor, which held the last producer.
WorkerEnds == "executor" \in ended /\ Returns("worker")

------------------------------------------------------------------------------
(* The main task: app.rs and ManagerHandle::stop.                           *)

\* SIGINT or SIGTERM, or a scheduler has returned.
Stop ==
    /\ process = "up"
    /\ \/ StopDuringBoot \/ monitor \in { "poll", "ended" }
       \/ \E p \in Partition : scheduler[p] = "ended"
    /\ process' = "stopping"
    /\ token' = TRUE
    /\ UNCHANGED <<read_only, awaiting, ended, monitorVars, providerVars, serviceVars>>

AwaitNext ==
    /\ process = "stopping"
    /\ Awaited[awaiting] \in ended
    /\ awaiting' = awaiting + 1
    /\ process' = IF awaiting = Len(Awaited) THEN "exited" ELSE "stopping"
    /\ UNCHANGED <<read_only, token, ended, monitorVars, providerVars, serviceVars>>

Down ==
    /\ ~ Alive
    /\ UNCHANGED vars

MonitorStep ==
    \/ MonitorStarts \/ BeginLoad \/ LoadPanics \/ GetService \/ GetServicePanics
    \/ ChangeStore \/ EndPartition \/ EndRound \/ PollFails
    \/ \E p \in Partition : RegisterPartition(p) \/ BeginPartition(p)

ProviderStep ==
    \/ ShutdownRequested \/ ProviderEnds
    \/ \E p \in Partition : UnregisterPartition(p) \/ UnregisterPanics(p)

ServicesStep ==
    ServicesEnd \/ \E p \in Partition : StopService(p) \/ ServiceStopped(p)

Next ==
    \/ MonitorStep \/ ProviderStep \/ ServicesStep
    \/ \E p \in Partition : SchedulerEnds(p)
    \/ EndpointEnds \/ EndpointFails \/ ExecutorEnds \/ WorkerEnds
    \/ Stop \/ AwaitNext
    \/ Down

\* tokio runs every task that is ready.  A round of the monitor has finitely
\* many configs: a partition is not worked on forever.
Fairness ==
    /\ WF_vars(MonitorStep) /\ WF_vars(ProviderStep) /\ WF_vars(ServicesStep)
    /\ SF_vars(EndPartition) /\ SF_vars(EndRound)
    /\ \A p \in Partition : WF_vars(p \in told /\ SchedulerEnds(p))
    /\ WF_vars(EndpointEnds) /\ WF_vars(ExecutorEnds) /\ WF_vars(WorkerEnds)
    /\ WF_vars(AwaitNext)

Safety == Init /\ [][Next]_vars
Spec == Safety /\ Fairness

------------------------------------------------------------------------------
(* Properties.                                                              *)

\* A stop ends: no task that stop() awaits waits for one that is awaited later,
\* and none for the main task.
StopEnds == token ~> ~ Alive

\* When the process exits, nothing that still has something to save is running:
\* the executor and the producer's worker have ended, the monitor and the
\* provider have let the manager go, and the scheduler of every partition that
\* was unregistered has drained.
ExitIsOrderly ==
    process = "exited" =>
        /\ { "monitor", "provider", "executor", "worker" } \subseteq ended
        /\ shutdown = {}
        /\ \A p \in told : scheduler[p] = "ended"

\* manager.rs:299 says that all services must be shut down before the manager is
\* completely stopped.
AllServicesShutDown ==
    process = "exited" => \A p \in Partition : scheduler[p] # "running"

\* The expect of unregister_partition says that there are no outstanding
\* references to the service.
NoOutstandingReferences ==
    \A p \in removing : provider = "unregister" => ~ (held /\ at = p)

\* The expect of get_service says that the partition has been registered
\* whenever the monitor has changes to its store.
PartitionIsRegistered == Alive /\ at # None => at \in services

==============================================================================
