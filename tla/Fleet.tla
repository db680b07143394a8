-------------------------------- MODULE Fleet --------------------------------
(***************************************************************************)
(* A fleet of checkers: how each process gets its settings (app/config.rs),*)
(* which partitions it owns by them (determine_owned_partitions), and what *)
(* becomes of the changes of configs in Redis when processes come and go   *)
(* while the fleet is scaled.                                              *)
(*                                                                         *)
(* The orchestrator is outside the repository: it gives all processes one  *)
(* file, and each an environment with its number; during a deploy old and  *)
(* new processes may run at once.  Of the configs of a partition one is    *)
(* followed, and represented by the number of its last change; a change    *)
(* and its update are one step of the writer (ConfigProvider takes them    *)
(* apart, and the load of a partition too).                                *)
(***************************************************************************)
EXTENDS Integers, FiniteSets

CONSTANTS
    None,
    Process,
    Readers,           \* processes whose environment sets redis_readonly
    TotalPartitions,   \* config_provider_redis_total_partitions
    MaxCheckers,       \* bound: the size of the fleet
    MaxChanges,        \* bound: changes of configs
    MaxDeploys         \* bound: times the fleet is scaled

Partition == 0 .. TotalPartitions - 1

ASSUME FleetAssumption ==
    /\ Readers \subseteq Process
    /\ TotalPartitions \in Nat
    /\ MaxCheckers \in Nat \ {0}
    /\ MaxChanges \in Nat
    /\ MaxDeploys \in Nat
    /\ None \notin Int \cup BOOLEAN

VARIABLES
    total,             \* total_checkers in the file
    deploys, changes,
    number,            \* the number the orchestrator gave a running process, or None
    config,            \* the Config of a running process, or None
    loaded,            \* partitions it has loaded
    fetching,          \* the partition whose updates it has consumed and not applied
    lost,              \* auxiliary: partitions whose update it took and could not apply
    store,             \* the configs it holds
    configs, updates,  \* Redis: the configs of each partition, and if an update waits
    shared             \* auxiliary: partitions another process could consume meanwhile

processVars == <<number, config, loaded, fetching, lost, store, shared>>
redisVars == <<configs, updates>>
vars == <<total, deploys, changes, processVars, redisVars>>

------------------------------------------------------------------------------
(* Settings.                                                                *)

\* The settings of a process that ownership depends on
Config == [checker_number : Nat, total_checkers : Nat, redis_readonly : BOOLEAN]

DefaultConfig == [checker_number |-> 0, total_checkers |-> 1, redis_readonly |-> FALSE]

\* Figment::merge: what the later provider sets
Merge(builder, provider) ==
    [setting \in DOMAIN builder |->
        IF provider[setting] = None THEN builder[setting] ELSE provider[setting]]

\* Mutant of Extract: the file overrides the environment.
ExtractFileLast(file, env) == Merge(Merge(DefaultConfig, env), file)

\* Config::extract: defaults, file, environment
Extract(file, env) == Merge(Merge(DefaultConfig, file), env)

\* The file all processes share, with the default number in it
File == [checker_number |-> 0, total_checkers |-> total, redis_readonly |-> None]

Env(p, n) ==
    [checker_number |-> n, total_checkers |-> None,
     redis_readonly |-> IF p \in Readers THEN TRUE ELSE None]

\* (checker_number .. total_partitions).step_by(total_checkers)
DetermineOwnedPartitions(checker_number, total_checkers) ==
    { part \in Partition :
        \E k \in 0 .. part : part = checker_number + k * total_checkers }

Owned(p) ==
    IF config[p] = None THEN {}
    ELSE DetermineOwnedPartitions(config[p].checker_number, config[p].total_checkers)

------------------------------------------------------------------------------

Nothing == [part \in Partition |-> 0]

TypeOK ==
    /\ total \in 1 .. MaxCheckers
    /\ deploys \in 0 .. MaxDeploys /\ changes \in 0 .. MaxChanges
    /\ config \in [Process -> Config \cup {None}]
    /\ number \in [Process -> Nat \cup {None}]
    /\ loaded \in [Process -> SUBSET Partition] /\ fetching \in [Process -> SUBSET Partition]
    /\ \A p \in Process : fetching[p] \subseteq loaded[p] /\ loaded[p] \subseteq Owned(p)
    /\ lost \in [Process -> SUBSET Partition]
    /\ store \in [Process -> [Partition -> 0 .. MaxChanges]]
    /\ configs \in [Partition -> 0 .. MaxChanges]
    /\ updates \in [Partition -> BOOLEAN]
    /\ shared \in [Process -> SUBSET Partition]

Init ==
    /\ total \in 1 .. MaxCheckers
    /\ deploys = 0 /\ changes = 0
    /\ number = [p \in Process |-> None]
    /\ config = [p \in Process |-> None]
    /\ loaded = [p \in Process |-> {}]
    /\ fetching = [p \in Process |-> {}]
    /\ lost = [p \in Process |-> {}]
    /\ store = [p \in Process |-> Nothing]
    /\ configs = Nothing
    /\ updates = [part \in Partition |-> FALSE]
    /\ shared = [p \in Process |-> {}]

\* The writer changes a config of a partition.
Change(part) ==
    /\ changes < MaxChanges
    /\ changes' = changes + 1
    /\ configs' = [configs EXCEPT ![part] = changes + 1]
    /\ updates' = [updates EXCEPT ![part] = TRUE]
    /\ UNCHANGED <<total, deploys, processVars>>

\* The file of the processes that start from now on has another size.
Deploy(n) ==
    /\ deploys < MaxDeploys /\ n # total
    /\ deploys' = deploys + 1
    /\ total' = n
    /\ UNCHANGED <<changes, processVars, redisVars>>

\* The partitions of c that one of the processes may consume
Contended(c, processes) ==
    { part \in DetermineOwnedPartitions(c.checker_number, c.total_checkers) :
        \E q \in processes : part \in Owned(q) /\ ~ config[q].redis_readonly }

\* execute reads the settings and starts the manager, and it the config provider.  A
\* number that is not below the total is a panic: the process does not start.
StartProcess(p, n) ==
    LET c == Extract(File, Env(p, n))
    IN /\ config[p] = None
       /\ c.checker_number < c.total_checkers
       /\ number' = [number EXCEPT ![p] = n]
       /\ config' = [config EXCEPT ![p] = c]
       /\ shared' = [q \in Process |->
              IF q = p THEN Contended(c, Process)
              ELSE IF c.redis_readonly THEN shared[q]
              ELSE shared[q] \cup
                   (Owned(q) \cap DetermineOwnedPartitions(c.checker_number, c.total_checkers))]
       /\ UNCHANGED <<total, deploys, changes, loaded, fetching, lost, store, redisVars>>

\* A stop, a crash or the end of a pod: nothing is kept.
StopProcess(p) ==
    /\ config[p] # None
    /\ number' = [number EXCEPT ![p] = None]
    /\ config' = [config EXCEPT ![p] = None]
    /\ loaded' = [loaded EXCEPT ![p] = {}]
    /\ fetching' = [fetching EXCEPT ![p] = {}]
    /\ lost' = [lost EXCEPT ![p] = {}]
    /\ store' = [store EXCEPT ![p] = Nothing]
    /\ shared' = [shared EXCEPT ![p] = {}]
    /\ UNCHANGED <<total, deploys, changes, redisVars>>

\* load_initial_configs, for one partition
LoadInitialConfigs(p, part) ==
    /\ part \in Owned(p) \ loaded[p]
    /\ store' = [store EXCEPT ![p][part] = configs[part]]
    /\ loaded' = [loaded EXCEPT ![p] = @ \cup {part}]
    /\ UNCHANGED <<total, deploys, changes, number, config, fetching, lost, shared, redisVars>>

\* monitor_configs polls once all is loaded, unless the client is read-only.
Polls(p) == config[p] # None /\ ~ config[p].redis_readonly /\ loaded[p] = Owned(p)

\* The monitor visits one partition at a time.
Visits(p, part) == Polls(p) /\ part \in Owned(p) /\ fetching[p] = {}

ConsumeConfigUpdates(p, part) ==
    /\ Visits(p, part)
    /\ updates[part]
    /\ updates' = [updates EXCEPT ![part] = FALSE]
    /\ fetching' = [fetching EXCEPT ![p] = {part}]
    /\ lost' = [lost EXCEPT ![p] = @ \ {part}]
    /\ UNCHANGED <<total, deploys, changes, number, config, loaded, store, shared, configs>>

\* The update is taken from Redis for nothing: the answer of the transaction is
\* lost, and monitor_updates returns the error, or the update does not parse.  (A
\* transaction that was not executed changes nothing.)
ConsumeFails(p, part) ==
    /\ Visits(p, part)
    /\ updates[part]
    /\ updates' = [updates EXCEPT ![part] = FALSE]
    /\ lost' = [lost EXCEPT ![p] = @ \cup {part}]
    /\ UNCHANGED <<total, deploys, changes, number, config, loaded, fetching, store, shared, configs>>

\* Mutant of GetConfigKeyPayloads: a config the store already has is left as it is.
GetConfigKeyPayloadsKeepOld(p, part) ==
    /\ part \in fetching[p]
    /\ fetching' = [fetching EXCEPT ![p] = {}]
    /\ UNCHANGED <<total, deploys, changes, number, config, loaded, lost, store, shared, redisVars>>

GetConfigKeyPayloads(p, part) ==
    /\ part \in fetching[p]
    /\ store' = [store EXCEPT ![p][part] = configs[part]]
    /\ fetching' = [fetching EXCEPT ![p] = {}]
    /\ UNCHANGED <<total, deploys, changes, number, config, loaded, lost, shared, redisVars>>

\* The payloads do not arrive: monitor_updates returns the error and forgets what it
\* had consumed.
GetPayloadsFails(p, part) ==
    /\ part \in fetching[p]
    /\ fetching' = [fetching EXCEPT ![p] = {}]
    /\ lost' = [lost EXCEPT ![p] = @ \cup {part}]
    /\ UNCHANGED <<total, deploys, changes, number, config, loaded, store, shared, redisVars>>

Next ==
    \/ \E part \in Partition : Change(part)
    \/ \E n \in 1 .. MaxCheckers : Deploy(n)
    \/ \E p \in Process :
        \/ \E n \in 0 .. MaxCheckers - 1 : StartProcess(p, n)
        \/ StopProcess(p)
        \/ \E part \in Partition :
               \/ LoadInitialConfigs(p, part)
               \/ ConsumeConfigUpdates(p, part) \/ ConsumeFails(p, part)
               \/ GetConfigKeyPayloads(p, part) \/ GetPayloadsFails(p, part)

Spec == Init /\ [][Next]_vars

------------------------------------------------------------------------------
(* Properties.                                                              *)

Running == { p \in Process : config[p] # None }

\* The deploy is over: one process for every number, all with the size of the file.
Complete ==
    /\ \A p \in Running : config[p].total_checkers = total
    /\ \A n \in 0 .. total - 1 :
        \E p \in Running : /\ number[p] = n
                           /\ \A q \in Running : number[q] = n => q = p

\* When a deploy is over every partition has exactly one owner: no config goes
\* unchecked, and no update is consumed by a process that is not its only owner.
OneOwner ==
    Complete =>
        \A part \in Partition :
            \E p \in Running : \A q \in Running : part \in Owned(q) <=> q = p

\* A process that polls falls behind Redis for good only where another that polls had
\* the partition too, while both ran, or where it took the update itself and could not
\* apply it (redis_config_provider.rs:236 and 268, redis.rs:87-93).  What a process
\* consumed, or lost, before it died, and what was changed when a partition had no
\* owner, is found by the next owner; a read-only process beside it takes nothing from
\* it; and a lost update does no harm once the next one arrives.
BehindOnlyWhenSharedOrLost ==
    \A p \in Running, part \in Partition :
        /\ ~ config[p].redis_readonly /\ part \in loaded[p]
        /\ ~ updates[part] /\ part \notin fetching[p]
        => store[p][part] = configs[part] \/ part \in shared[p] \/ part \in lost[p]

===============================================================================
