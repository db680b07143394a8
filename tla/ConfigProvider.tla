---------------------------- MODULE ConfigProvider ----------------------------
(***************************************************************************)
(* How a change of a check configuration reaches the config stores         *)
(* (redis_config_provider.rs, redis.rs).  Redis keeps two hashes for each  *)
(* partition: the configs, and the updates, which name the subscriptions   *)
(* that have changed since a checker last asked.  A checker loads all      *)
(* configs when it starts and from then on consumes the updates.           *)
(*                                                                         *)
(* A config is represented by its version, the number of the write that    *)
(* made it.  The writer is outside the repository; it is modelled from the *)
(* tests' send_update and send_delete, which change the config first and   *)
(* then record the update.  The partitions of a process are visited in the *)
(* order of a HashSet, that is in any order.                               *)
(***************************************************************************)
EXTENDS Integers, FiniteSets

CONSTANTS
    Subscription,
    Partition,
    Home,              \* the partition of each subscription
    Process,           \* runs of the checker that own these partitions
    ReadOnly,          \* the ones that run with redis_readonly
    Invalid,           \* versions whose payload this checker cannot read
    None,
    RedisErrors,       \* commands may fail or time out once the configs are loaded
    MaxWrites,         \* bound: changes the writer makes
    MaxCrashes         \* bound: times a process dies

Version == 1 .. MaxWrites

ASSUME ProviderAssumption ==
    /\ Home \in [Subscription -> Partition]
    /\ ReadOnly \subseteq Process
    /\ RedisErrors \in BOOLEAN
    /\ MaxWrites \in Nat
    /\ MaxCrashes \in Nat
    /\ None \notin Version
    /\ None \notin Partition
    /\ None \notin { "upsert", "delete", "unreadable" }

VARIABLES
    configs,           \* Redis: the hashes uptime:configs
    updates,           \* Redis: the hashes uptime:updates
    unannounced,       \* the update the writer has yet to record
    writes,            \* changes made so far
    crashes,           \* deaths so far
    monitor,           \* what the monitor of a process is doing
    todo,              \* partitions left in its current round
    at,                \* partition it is working on
    upserts, deletes,  \* what consume_config_updates returned
    payloads,          \* configs it has received and not yet stored
    store,             \* the config stores of the process
    dropped            \* auxiliary: changes whose update was taken from Redis and went
                       \* with a failed command or because it did not parse

redisVars == <<configs, updates>>
writerVars == <<unannounced, writes>>
monitorVars == <<monitor, todo, at, upserts, deletes, payloads>>
vars == <<redisVars, writerVars, crashes, monitorVars, store, dropped>>

Action == { "upsert", "delete" }
\* An entry of the hash of updates, as this checker reads it.
Update == Action \cup { "unreadable" }
Monitor == { "down", "load", "poll", "ended" }
Nothing == [s \in Subscription |-> None]
Of(part) == { s \in Subscription : Home[s] = part }

TypeOK ==
    /\ configs \in [Subscription -> Version \cup {None}]
    /\ updates \in [Subscription -> Update \cup {None}]
    /\ unannounced \in [Subscription -> Action \cup {None}]
    /\ writes \in 0 .. MaxWrites
    /\ crashes \in 0 .. MaxCrashes
    /\ monitor \in [Process -> Monitor]
    /\ todo \in [Process -> SUBSET Partition]
    /\ at \in [Process -> Partition \cup {None}]
    /\ upserts \in [Process -> SUBSET Subscription]
    /\ deletes \in [Process -> SUBSET Subscription]
    /\ payloads \in [Process -> [Subscription -> Version \cup {None}]]
    /\ store \in [Process -> [Subscription -> (Version \ Invalid) \cup {None}]]
    /\ dropped \in [Process -> SUBSET Subscription]

Init ==
    /\ configs = Nothing
    /\ updates = Nothing
    /\ unannounced = Nothing
    /\ writes = 0 /\ crashes = 0
    /\ monitor = [p \in Process |-> "down"]
    /\ todo = [p \in Process |-> {}]
    /\ at = [p \in Process |-> None]
    /\ upserts = [p \in Process |-> {}]
    /\ deletes = [p \in Process |-> {}]
    /\ payloads = [p \in Process |-> Nothing]
    /\ store = [p \in Process |-> Nothing]
    /\ dropped = [p \in Process |-> {}]

------------------------------------------------------------------------------
(* The writer.                                                              *)

Write(s, config, action) ==
    /\ writes < MaxWrites /\ unannounced[s] = None
    /\ configs' = [configs EXCEPT ![s] = config]
    /\ unannounced' = [unannounced EXCEPT ![s] = action]
    /\ writes' = writes + 1
    /\ UNCHANGED <<updates, crashes, monitorVars, store, dropped>>

WriteConfig(s) == Write(s, writes + 1, "upsert")

DeleteConfig(s) == Write(s, None, "delete")

\* The hash of updates keeps one entry for a subscription, the latest.  It may be
\* one that this checker cannot parse.
Announce(s) ==
    /\ unannounced[s] # None
    /\ \E update \in { unannounced[s], "unreadable" } : updates' = [updates EXCEPT ![s] = update]
    /\ unannounced' = [unannounced EXCEPT ![s] = None]
    /\ UNCHANGED <<configs, writes, crashes, monitorVars, store, dropped>>

------------------------------------------------------------------------------
(* The life of a process.                                                   *)

Start(p) ==
    /\ monitor[p] = "down"
    /\ monitor' = [monitor EXCEPT ![p] = "load"]
    /\ todo' = [todo EXCEPT ![p] = Partition]
    /\ UNCHANGED <<redisVars, writerVars, crashes, at, upserts, deletes, payloads, store, dropped>>

\* A stop, a crash or the panic of a failed initial load: nothing is persisted.
Crash(p) ==
    /\ monitor[p] # "down" /\ crashes < MaxCrashes
    /\ crashes' = crashes + 1
    /\ monitor' = [monitor EXCEPT ![p] = "down"]
    /\ todo' = [todo EXCEPT ![p] = {}]
    /\ at' = [at EXCEPT ![p] = None]
    /\ upserts' = [upserts EXCEPT ![p] = {}]
    /\ deletes' = [deletes EXCEPT ![p] = {}]
    /\ payloads' = [payloads EXCEPT ![p] = Nothing]
    /\ store' = [store EXCEPT ![p] = Nothing]
    /\ dropped' = [dropped EXCEPT ![p] = {}]
    /\ UNCHANGED <<redisVars, writerVars>>

------------------------------------------------------------------------------
(* The initial load.                                                        *)

Fetched(subscriptions) ==
    [s \in Subscription |-> IF s \in subscriptions THEN configs[s] ELSE None]

\* read_configs: the whole hash of the partition.
ReadConfigs(p, part) ==
    /\ monitor[p] = "load" /\ at[p] = None /\ part \in todo[p]
    /\ at' = [at EXCEPT ![p] = part]
    /\ payloads' = [payloads EXCEPT ![p] = Fetched(Of(part))]
    /\ UNCHANGED <<redisVars, writerVars, crashes, monitor, todo, upserts, deletes, store, dropped>>

\* A payload that cannot be parsed is logged and skipped.
AddConfig(p, s) ==
    /\ payloads[p][s] # None
    /\ store' = IF payloads[p][s] \in Invalid THEN store
                ELSE [store EXCEPT ![p][s] = payloads[p][s]]
    /\ payloads' = [payloads EXCEPT ![p][s] = None]
    /\ UNCHANGED <<redisVars, writerVars, crashes, monitor, todo, at, upserts, deletes, dropped>>

\* Mutant of EndPartition: a partition without upserts is done before its
\* deletes are applied.
EndPartitionEarly(p) ==
    /\ at[p] # None
    /\ upserts[p] = {} /\ payloads[p] = Nothing
    /\ todo' = [todo EXCEPT ![p] = @ \ {at[p]}]
    /\ at' = [at EXCEPT ![p] = None]
    /\ deletes' = [deletes EXCEPT ![p] = {}]
    /\ UNCHANGED <<redisVars, writerVars, crashes, monitor, upserts, payloads, store, dropped>>

EndPartition(p) ==
    /\ at[p] # None
    /\ deletes[p] = {} /\ upserts[p] = {} /\ payloads[p] = Nothing
    /\ todo' = [todo EXCEPT ![p] = @ \ {at[p]}]
    /\ at' = [at EXCEPT ![p] = None]
    /\ UNCHANGED <<redisVars, writerVars, crashes, monitor, upserts, deletes, payloads, store, dropped>>

\* A read-only checker does not poll.
EndLoad(p) ==
    /\ monitor[p] = "load" /\ at[p] = None /\ todo[p] = {}
    /\ monitor' = [monitor EXCEPT ![p] = IF p \in ReadOnly THEN "ended" ELSE "poll"]
    /\ UNCHANGED <<redisVars, writerVars, crashes, todo, at, upserts, deletes, payloads, store, dropped>>

------------------------------------------------------------------------------
(* Polling.                                                                 *)

\* Mutant of BeginRound: the partitions are used up by the first round.
BeginRoundEmpty(p) ==
    /\ monitor[p] = "poll" /\ at[p] = None /\ todo[p] = {}
    /\ UNCHANGED vars

\* The interval ticks.
BeginRound(p) ==
    /\ monitor[p] = "poll" /\ at[p] = None /\ todo[p] = {}
    /\ todo' = [todo EXCEPT ![p] = Partition]
    /\ UNCHANGED <<redisVars, writerVars, crashes, monitor, at, upserts, deletes, payloads, store, dropped>>

\* The updates of a partition without those Redis has handed out.
Consumed(part) == [s \in Subscription |-> IF Home[s] = part THEN None ELSE updates[s]]

Pending(part, update) == { s \in Of(part) : updates[s] = update }

\* HVALS and DEL in one transaction.  An update that does not parse is logged and
\* passed over, and is gone from Redis all the same.
ConsumeConfigUpdates(p, part) ==
    /\ monitor[p] = "poll" /\ at[p] = None /\ part \in todo[p]
    /\ at' = [at EXCEPT ![p] = part]
    /\ upserts' = [upserts EXCEPT ![p] = Pending(part, "upsert")]
    /\ deletes' = [deletes EXCEPT ![p] = Pending(part, "delete")]
    /\ updates' = Consumed(part)
    /\ dropped' = [dropped EXCEPT ![p] = (@ \ { s \in Of(part) : updates[s] \in Action })
                                            \cup Pending(part, "unreadable")]
    /\ UNCHANGED <<configs, writerVars, crashes, monitor, todo, payloads, store>>

RemoveConfig(p, s) ==
    /\ s \in deletes[p]
    /\ store' = [store EXCEPT ![p][s] = None]
    /\ deletes' = [deletes EXCEPT ![p] = @ \ {s}]
    /\ UNCHANGED <<redisVars, writerVars, crashes, monitor, todo, at, upserts, payloads, dropped>>

\* get_config_key_payloads: a config that is gone by now yields nothing.
GetConfigKeyPayloads(p) ==
    /\ deletes[p] = {} /\ upserts[p] # {}
    /\ payloads' = [payloads EXCEPT ![p] = Fetched(upserts[p])]
    /\ upserts' = [upserts EXCEPT ![p] = {}]
    /\ UNCHANGED <<redisVars, writerVars, crashes, monitor, todo, at, deletes, store, dropped>>

\* monitor_updates returns the error; after a pause it begins again with a new
\* connection, from the first partition.
RoundFails(p, lost) ==
    /\ dropped' = [dropped EXCEPT ![p] = @ \cup lost]
    /\ todo' = [todo EXCEPT ![p] = Partition]
    /\ at' = [at EXCEPT ![p] = None]
    /\ upserts' = [upserts EXCEPT ![p] = {}]
    /\ UNCHANGED <<configs, writerVars, crashes, monitor, deletes, payloads, store>>

\* The transaction was not executed, or it was and its answer is lost.
ConsumeFails(p, part) ==
    /\ RedisErrors
    /\ monitor[p] = "poll" /\ at[p] = None /\ part \in todo[p]
    /\ \/ UNCHANGED updates /\ RoundFails(p, {})
       \/ /\ updates' = Consumed(part)
          /\ RoundFails(p, { s \in Of(part) : updates[s] # None })

\* The payloads of consumed upserts do not arrive.
GetPayloadsFails(p) ==
    /\ RedisErrors
    /\ deletes[p] = {} /\ upserts[p] # {}
    /\ UNCHANGED updates
    /\ RoundFails(p, upserts[p])

MonitorStep(p) ==
    \/ Start(p) \/ EndLoad(p) \/ BeginRound(p) \/ EndPartition(p)
    \/ GetConfigKeyPayloads(p) \/ GetPayloadsFails(p)
    \/ \E part \in Partition :
           ReadConfigs(p, part) \/ ConsumeConfigUpdates(p, part) \/ ConsumeFails(p, part)
    \/ \E s \in Subscription : AddConfig(p, s) \/ RemoveConfig(p, s)

Next ==
    \/ \E s \in Subscription : WriteConfig(s) \/ DeleteConfig(s) \/ Announce(s)
    \/ \E p \in Process : MonitorStep(p) \/ Crash(p)

\* The monitor runs whenever it has something to do, the writer records the
\* update of a change it has made, and Redis is not down forever: a partition
\* whose updates are asked for again and again is answered.
Fairness ==
    /\ \A p \in Process : WF_vars(MonitorStep(p))
    /\ \A p \in Process, part \in Partition : SF_vars(ConsumeConfigUpdates(p, part))
    /\ \A s \in Subscription : WF_vars(Announce(s))

Safety == Init /\ [][Next]_vars
Spec == Safety /\ Fairness

------------------------------------------------------------------------------
(* Properties.                                                              *)

\* The store of a process holds what Redis holds.  A version that the checker
\* cannot read leaves the one before it in the store.
InSync(p, s) == configs[s] \in Invalid \/ store[p][s] = configs[s]

\* Something is still to come that tells process p of the latest change of s.
Underway(p, s) ==
    \/ unannounced[s] # None
    \/ updates[s] # None
    \/ s \in upserts[p] \cup deletes[p]
    \/ payloads[p][s] # None /\ payloads[p][s] = configs[s]

\* The configs of s have been read by process p.
Loaded(p, s) ==
    \/ monitor[p] = "poll"
    \/ monitor[p] = "load" /\ (Home[s] = at[p] \/ Home[s] \notin todo[p])

\* redis_config_provider.rs:134 answers an error of Redis with a pause and a
\* retry: no change of a config is lost, while a process is behind Redis
\* something is on its way to it.
NoChangeIsLost ==
    \A p \in Process \ ReadOnly, s \in Subscription :
        Loaded(p, s) => InSync(p, s) \/ Underway(p, s)

\* A process that has its partitions to itself loses a change only with the
\* answer of a failed command or with an update that does not parse
\* (redis.rs:87-93), and until the next readable update or the next start:
\* otherwise a store behind Redis has something on its way to it.  It would
\* fail if a config changed between the load and the first poll, or between
\* consuming an update and reading the config, went unnoticed, and if what was
\* consumed were applied in part or in the wrong order.
OnlyErrorsLose ==
    \A p \in Process \ ReadOnly, s \in Subscription :
        Loaded(p, s) => InSync(p, s) \/ Underway(p, s) \/ s \in dropped[p]

\* Once the writer and the crashes are done, every store of a polling process
\* comes to hold what Redis holds, except where the update went with a failed
\* command or did not parse.
StoreConverges ==
    <>[] (\A p \in Process \ ReadOnly, s \in Subscription :
              monitor[p] = "poll" /\ (InSync(p, s) \/ s \in dropped[p]))

==============================================================================
