---------------------------- MODULE CheckSchedule ----------------------------
(***************************************************************************)
(* When a check runs: the pure functions of types/check_config.rs and of   *)
(* Tick in config_store.rs.                                                *)
(*                                                                         *)
(* Times are whole seconds of the Unix clock.  A subscription id matters   *)
(* only through the two UUIDv5 values the code hashes it to, which are the *)
(* constant functions SlotSeed and RegionSeed.                             *)
(***************************************************************************)
EXTENDS Naturals, Sequences

CONSTANTS
    Subscription,      \* subscription ids
    Interval,          \* CheckInterval, in seconds
    MaxInterval,       \* MAX_CHECK_INTERVAL_SECS
    Region,            \* region names
    RegionList,        \* the values active_regions takes; <<>> is None or empty
    Payload,           \* everything else a config carries (url, method, ...)
    SlotSeed,          \* UUIDv5 of the id in SUBSCRIPTION_SLOT_NAMESPACE
    RegionSeed         \* UUIDv5 of the id in SUBSCRIPTION_SHOULD_RUN_NAMESPACE

\* Every value of CheckInterval divides SixtyMinutes, the largest of them.
ASSUME IntervalAssumption ==
    /\ MaxInterval \in Nat \ {0}
    /\ Interval \subseteq Nat \ {0}
    /\ \A i \in Interval : MaxInterval % i = 0

ASSUME RegionAssumption == RegionList \subseteq Seq(Region)

ASSUME SeedAssumption ==
    /\ SlotSeed \in [Subscription -> Nat]
    /\ RegionSeed \in [Subscription -> Nat]

\* scheduled_by_region is region_schedule_mode.is_some(): the only mode is
\* round robin.
CheckConfig ==
    [subscription_id     : Subscription,
     interval            : Interval,
     active_regions      : RegionList,
     scheduled_by_region : BOOLEAN,
     payload             : Payload]

\* The positions of the TickBuckets.
Slot == 0 .. MaxInterval - 1

\* Tick::from_time: the bucket a second of the clock reads.
TickIndex(time) == time % MaxInterval

\* Mutant of Slots: the first position of the pattern is left out.
SlotsWithoutFirst(config) ==
    LET first_slot    == SlotSeed[config.subscription_id] % config.interval
        pattern_count == MaxInterval \div config.interval
    IN  { first_slot + config.interval * c : c \in 1 .. pattern_count - 1 }

\* CheckConfig::slots.
Slots(config) ==
    LET first_slot    == SlotSeed[config.subscription_id] % config.interval
        pattern_count == MaxInterval \div config.interval
    IN  { first_slot + config.interval * c : c \in 0 .. pattern_count - 1 }

\* Mutant of ShouldRun: turns are counted in seconds, not in intervals.
ShouldRunBySecond(config, time, region) ==
    \/ ~ config.scheduled_by_region
    \/ config.active_regions = <<>>
    \/ LET idx == (time + RegionSeed[config.subscription_id]) % Len(config.active_regions)
       IN  config.active_regions[idx + 1] = region

\* CheckConfig::should_run.
ShouldRun(config, time, region) ==
    \/ ~ config.scheduled_by_region
    \/ config.active_regions = <<>>
    \/ LET turn == (time \div config.interval) + RegionSeed[config.subscription_id]
           idx  == turn % Len(config.active_regions)
       IN  config.active_regions[idx + 1] = region

==============================================================================
