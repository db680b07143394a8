----------------------------- MODULE ConfigStore -----------------------------
(***************************************************************************)
(* The ConfigStore of one partition (config_store.rs): every check         *)
(* configuration, kept twice, by subscription and by the tick buckets it   *)
(* runs in.  Each method runs under the store's RwLock, so a method is one *)
(* action.                                                                 *)
(***************************************************************************)
EXTENDS CheckSchedule, FiniteSets

CONSTANTS
    None,              \* the absent Option
    MaxClock           \* bound: the last instant modelled

ASSUME NoneAssumption == None \notin CheckConfig

ASSUME ClockAssumption == MaxClock \in Nat /\ None \notin 0 .. MaxClock

VARIABLES
    tick_buckets,      \* bucket of each slot: a set of configs
    configs,           \* subscription id -> its config, or None
    last_update,       \* instant of the last change, or None
    clock              \* Instant::now()

vars == <<tick_buckets, configs, last_update, clock>>

StoreTypeOK ==
    /\ tick_buckets \in [Slot -> SUBSET CheckConfig]
    /\ configs \in [Subscription -> CheckConfig \cup {None}]
    /\ last_update \in (0 .. MaxClock) \cup {None}
    /\ clock \in 0 .. MaxClock

Init ==
    /\ tick_buckets = [s \in Slot |-> {}]
    /\ configs = [id \in Subscription |-> None]
    /\ last_update = None
    /\ clock = 0

\* The buckets without, and with, a config in each of its slots.
Without(buckets, config) ==
    [s \in Slot |-> IF s \in Slots(config) THEN buckets[s] \ {config} ELSE buckets[s]]

With(buckets, config) ==
    [s \in Slot |-> IF s \in Slots(config) THEN buckets[s] \cup {config} ELSE buckets[s]]

\* What remove_config leaves of the buckets.
Removed(buckets, id) ==
    IF configs[id] = None THEN buckets ELSE Without(buckets, configs[id])

\* Mutant of AddConfig: an older version of the config is not removed first.
AddConfigOverOld(config) ==
    /\ configs' = [configs EXCEPT ![config.subscription_id] = config]
    /\ tick_buckets' = With(tick_buckets, config)
    /\ last_update' = clock
    /\ UNCHANGED clock

AddConfig(config) ==
    LET id == config.subscription_id
    IN  /\ configs' = [configs EXCEPT ![id] = config]
        /\ tick_buckets' = With(Removed(tick_buckets, id), config)
        /\ last_update' = clock
        /\ UNCHANGED clock

\* Removing an unknown id returns early and is not an update.
RemoveConfig(id) ==
    /\ configs[id] # None
    /\ configs' = [configs EXCEPT ![id] = None]
    /\ tick_buckets' = Removed(tick_buckets, id)
    /\ last_update' = clock
    /\ UNCHANGED clock

RemoveUnknown(id) ==
    /\ configs[id] = None
    /\ UNCHANGED vars

ClockTick ==
    /\ clock < MaxClock
    /\ clock' = clock + 1
    /\ UNCHANGED <<tick_buckets, configs, last_update>>

Next ==
    \/ \E config \in CheckConfig : AddConfig(config)
    \/ \E id \in Subscription : RemoveConfig(id) \/ RemoveUnknown(id)
    \/ ClockTick

Spec == Init /\ [][Next]_vars

\* ConfigStore::get_configs for the tick at a time.
GetConfigs(time) == tick_buckets[TickIndex(time)]

------------------------------------------------------------------------------
\* Times over which the schedule is examined: two turns of the buckets, so
\* that windows cross the wrap-around from the last slot to slot 0.
Horizon == 0 .. 2 * MaxInterval

\* The times of the window [from, from + length) at which a region runs config.
RunsIn(config, region, from, length) ==
    { t \in from .. from + length - 1 :
        config \in GetConfigs(t) /\ ShouldRun(config, t, region) }

\* The two indexes of the store agree: a bucket holds exactly the current
\* configs that have a slot there.  A replaced or deleted config that is left
\* in any bucket would go on being checked.
BucketsMatchConfigs ==
    \A s \in Slot :
        tick_buckets[s] =
            { c \in { configs[id] : id \in Subscription } \ {None} : s \in Slots(c) }

\* Whatever sequence of updates built the store, every window of one interval
\* holds exactly one tick whose bucket has the config: no check is skipped or
\* run twice where the buckets wrap around.
OncePerInterval ==
    \A id \in Subscription : configs[id] # None =>
        \A from \in Horizon :
            Cardinality({ t \in from .. from + configs[id].interval - 1 :
                            configs[id] \in GetConfigs(t) }) = 1

\* Round robin: over as many intervals as a config has regions, each of them
\* runs the check once, wherever the window starts.
RegionsTakeTurns ==
    \A id \in Subscription :
        LET config == configs[id] IN
        (config # None /\ config.scheduled_by_region /\ config.active_regions # <<>>) =>
            LET regions == config.active_regions
                round   == config.interval * Len(regions)
            IN  \A from \in Horizon, i \in 1 .. Len(regions) :
                    Cardinality(RunsIn(config, regions[i], from, round))
                        = Cardinality({ j \in 1 .. Len(regions) : regions[j] = regions[i] })

==============================================================================
