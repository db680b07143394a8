-------------------------- MODULE ConfigStoreProofs --------------------------
(***************************************************************************)
(* Proofs about ConfigStore: its two indexes agree after any sequence of   *)
(* updates, each check is in the bucket of exactly one tick of every       *)
(* interval, and its regions run it in turn, for all intervals, seeds,     *)
(* regions and configs.                                                    *)
(***************************************************************************)
EXTENDS ConfigStore, FiniteSetTheorems, FunctionTheorems, TLAPS

\* A config is filed under its own subscription.  BucketsMatchConfigs needs
\* this to be inductive: replacing a config must remove no other one.
FiledById ==
    \A id \in Subscription : configs[id] # None => configs[id].subscription_id = id

StoreInv == StoreTypeOK /\ FiledById /\ BucketsMatchConfigs

\* The bucket index, element by element.
LEMMA BucketMember ==
    ASSUME BucketsMatchConfigs, NEW s \in Slot, NEW c
    PROVE  c \in tick_buckets[s] <=>
             /\ \E id \in Subscription : configs[id] = c
             /\ c # None
             /\ s \in Slots(c)
  BY DEF BucketsMatchConfigs

\* Adding a config, over an older version or not, keeps the indexes equal.
LEMMA AddConfigInv ==
    ASSUME StoreInv, NEW config \in CheckConfig, AddConfig(config)
    PROVE  StoreInv'
<1> DEFINE id == config.subscription_id
<1> USE NoneAssumption, ClockAssumption
<1>0. id \in Subscription /\ config # None
  BY DEF CheckConfig
<1>1. configs' = [configs EXCEPT ![id] = config]
  BY DEF AddConfig
<1>2. FiledById'
  BY <1>0, <1>1 DEF StoreInv, StoreTypeOK, FiledById
<1>3. ASSUME NEW s \in Slot
      PROVE  tick_buckets'[s] = (tick_buckets[s] \ (IF s \in Slots(configs[id]) THEN {configs[id]} ELSE {}))
                                  \cup (IF s \in Slots(config) THEN {config} ELSE {})
  <2>1. Removed(tick_buckets, id)[s] =
            tick_buckets[s] \ (IF s \in Slots(configs[id]) THEN {configs[id]} ELSE {})
    <3>1. CASE configs[id] = None
      <4>1. None \notin tick_buckets[s]
        BY BucketMember DEF StoreInv
      <4>2. QED
        BY <3>1, <4>1 DEF Removed
    <3>2. CASE configs[id] # None
      BY <3>2 DEF Removed, Without
    <3>3. QED
      BY <3>1, <3>2
  <2>2. QED
    BY <2>1 DEF AddConfig, With
<1>4. ASSUME NEW s \in Slot, NEW c
      PROVE  c \in tick_buckets'[s] <=>
               (\E i \in Subscription : configs'[i] = c) /\ c # None /\ s \in Slots(c)
  <2>1. \A i \in Subscription : configs'[i] = IF i = id THEN config ELSE configs[i]
    BY <1>0, <1>1 DEF StoreInv, StoreTypeOK
  <2>2. c \in tick_buckets[s] <=>
             (\E i \in Subscription : configs[i] = c) /\ c # None /\ s \in Slots(c)
    BY BucketMember DEF StoreInv
  <2>3. \A i \in Subscription : configs[i] # None /\ configs[i] = configs[id] => i = id
    BY <1>0 DEF StoreInv, FiledById
  <2>4. CASE c = config
    BY <1>0, <1>3, <2>1, <2>2, <2>4
  <2>5. CASE c # config
    BY <1>0, <1>3, <2>1, <2>2, <2>3, <2>5
  <2>6. QED
    BY <2>4, <2>5
<1>5. BucketsMatchConfigs'
  BY <1>4 DEF BucketsMatchConfigs
<1>6. StoreTypeOK'
  <2>1. configs' \in [Subscription -> CheckConfig \cup {None}]
    BY <1>0, <1>1 DEF StoreInv, StoreTypeOK
  <2>2. tick_buckets' \in [Slot -> SUBSET CheckConfig]
    BY DEF AddConfig, With, Removed, Without, StoreInv, StoreTypeOK
  <2>3. QED
    BY <2>1, <2>2 DEF AddConfig, StoreInv, StoreTypeOK
<1>7. QED
  BY <1>2, <1>5, <1>6 DEF StoreInv

\* So does removing one.
LEMMA RemoveConfigInv ==
    ASSUME StoreInv, NEW id \in Subscription, RemoveConfig(id)
    PROVE  StoreInv'
<1> USE NoneAssumption, ClockAssumption
<1>1. \A i \in Subscription : configs'[i] = IF i = id THEN None ELSE configs[i]
  BY DEF RemoveConfig, StoreInv, StoreTypeOK
<1>2. FiledById'
  BY <1>1 DEF StoreInv, FiledById
<1>3. ASSUME NEW s \in Slot, NEW c
      PROVE  c \in tick_buckets'[s] <=>
               (\E i \in Subscription : configs'[i] = c) /\ c # None /\ s \in Slots(c)
  <2>1. c \in tick_buckets[s] <=>
             (\E i \in Subscription : configs[i] = c) /\ c # None /\ s \in Slots(c)
    BY BucketMember DEF StoreInv
  <2>2. \A i \in Subscription : configs[i] # None /\ configs[i] = configs[id] => i = id
    BY DEF StoreInv, FiledById
  <2>3. tick_buckets'[s] =
            IF s \in Slots(configs[id]) THEN tick_buckets[s] \ {configs[id]} ELSE tick_buckets[s]
    BY DEF RemoveConfig, Removed, Without
  <2>4. QED
    BY <1>1, <2>1, <2>2, <2>3 DEF RemoveConfig
<1>4. BucketsMatchConfigs'
  BY <1>3 DEF BucketsMatchConfigs
<1>5. StoreTypeOK'
  BY DEF RemoveConfig, Removed, Without, StoreInv, StoreTypeOK
<1>6. QED
  BY <1>2, <1>4, <1>5 DEF StoreInv

LEMMA StoreInvariant == Spec => []StoreInv
<1>1. Init => StoreInv
  <2>1. Init => StoreTypeOK /\ FiledById
    BY NoneAssumption, ClockAssumption DEF Init, StoreTypeOK, FiledById
  <2>2. Init => BucketsMatchConfigs
    BY DEF Init, BucketsMatchConfigs
  <2>3. QED
    BY <2>1, <2>2 DEF StoreInv
<1>2. StoreInv /\ [Next]_vars => StoreInv'
  <2> SUFFICES ASSUME StoreInv, [Next]_vars PROVE StoreInv'
    OBVIOUS
  <2>1. CASE ClockTick
    BY <2>1, ClockAssumption
    DEF ClockTick, StoreInv, StoreTypeOK, FiledById, BucketsMatchConfigs
  <2>2. CASE UNCHANGED vars
    BY <2>2 DEF vars, StoreInv, StoreTypeOK, FiledById, BucketsMatchConfigs
  <2>3. QED
    BY <2>1, <2>2, AddConfigInv, RemoveConfigInv DEF Next, RemoveUnknown
<1>3. QED
  BY <1>1, <1>2, PTL DEF Spec

\* Whatever updates arrive and in whatever order, the buckets the scheduler
\* reads hold exactly the current configs, each in its own slots.
THEOREM BucketsAlwaysMatch == Spec => []BucketsMatchConfigs
<1>1. StoreInv => BucketsMatchConfigs
  BY DEF StoreInv
<1>2. QED
  BY <1>1, StoreInvariant, PTL

------------------------------------------------------------------------------
(* Division with remainder.                                                 *)

LEMMA DivMod ==
    ASSUME NEW t \in Nat, NEW i \in Nat, i > 0
    PROVE  /\ t \div i \in Nat
           /\ t % i \in 0 .. i - 1
           /\ t = i * (t \div i) + (t % i)
  OBVIOUS

LEMMA ModOf ==
    ASSUME NEW a \in Nat, NEW i \in Nat \ {0}, NEW f \in 0 .. i - 1
    PROVE  (i * a + f) % i = f
  OBVIOUS

\* Two numbers with the same remainder and less than i apart are equal.
LEMMA SameResidue ==
    ASSUME NEW a \in Nat, NEW b \in Nat, NEW i \in Nat \ {0},
           i * a < i * b + i, i * b < i * a + i
    PROVE  a = b
<1>1. CASE a < b
  <2>1. i * b >= i * (a + 1) /\ i * (a + 1) = i * a + i
    BY <1>1
  <2>2. QED
    BY <2>1
<1>2. CASE b < a
  <2>1. i * a >= i * (b + 1) /\ i * (b + 1) = i * b + i
    BY <1>2
  <2>2. QED
    BY <2>1
<1>3. QED
  BY <1>1, <1>2

\* The bucket of time t is one of a config's slots exactly when t has the
\* remainder the config's seed has modulo its interval.
LEMMA SlotIffResidue ==
    ASSUME NEW config \in CheckConfig, NEW t \in Nat
    PROVE  TickIndex(t) \in Slots(config) <=>
             t % config.interval = SlotSeed[config.subscription_id] % config.interval
<1> DEFINE i == config.interval
           n == MaxInterval \div i
           f == SlotSeed[config.subscription_id] % i
           q == t \div MaxInterval
           r == t % MaxInterval
<1>1. i \in Nat \ {0} /\ MaxInterval \in Nat \ {0} /\ MaxInterval % i = 0
  BY IntervalAssumption DEF CheckConfig
<1>2. n \in Nat /\ MaxInterval = i * n
  BY <1>1, DivMod
<1>3. f \in 0 .. i - 1
  BY <1>1, SeedAssumption, DivMod DEF CheckConfig
<1>4. q \in Nat /\ r \in 0 .. MaxInterval - 1 /\ t = MaxInterval * q + r
  BY <1>1, DivMod
<1>5. TickIndex(t) \in Slots(config) <=> \E c \in 0 .. n - 1 : r = f + i * c
  BY DEF TickIndex, Slots
<1> HIDE DEF i, n, f, q, r
<1>6. ASSUME NEW c \in 0 .. n - 1, r = f + i * c PROVE t % i = f
  <2>1. (i * n) * q + i * c = i * (n * q + c) /\ n * q + c \in Nat
    BY <1>1, <1>2, <1>4
  <2>2. t = i * (n * q + c) + f
    BY <1>1, <1>2, <1>3, <1>4, <1>6, <2>1
  <2>3. QED
    BY <1>1, <1>3, <2>1, <2>2, ModOf
<1>7. ASSUME t % i = f PROVE \E c \in 0 .. n - 1 : r = f + i * c
  <2> DEFINE c == r \div i
             g == r % i
  <2>1. c \in Nat /\ g \in 0 .. i - 1 /\ r = i * c + g
    BY <1>1, <1>4, DivMod
  <2> HIDE DEF c, g
  <2>2. (i * n) * q + i * c = i * (n * q + c) /\ n * q + c \in Nat
    BY <1>1, <1>2, <1>4, <2>1
  <2>3. t = i * (n * q + c) + g
    BY <1>1, <1>2, <1>4, <2>1, <2>2
  <2>4. g = f
    BY <1>1, <1>7, <2>1, <2>2, <2>3, ModOf
  <2>5. c <= n - 1
    <3>1. i * c < i * n
      BY <1>1, <1>2, <1>4, <2>1
    <3>2. CASE c >= n
      <4>1. i * c >= i * n
        BY <1>1, <1>2, <2>1, <3>2
      <4>2. QED
        BY <1>1, <1>2, <2>1, <3>1, <4>1
    <3>3. QED
      BY <1>2, <2>1, <3>2
  <2>6. QED
    BY <1>1, <1>2, <1>3, <2>1, <2>4, <2>5
<1>8. QED
  BY <1>5, <1>6, <1>7 DEF i, f

\* Of i consecutive times exactly one has a given remainder modulo i.
LEMMA OneInWindow ==
    ASSUME NEW i \in Nat \ {0}, NEW f \in 0 .. i - 1, NEW from \in Nat
    PROVE  \E t \in from .. from + i - 1 :
              { u \in from .. from + i - 1 : u % i = f } = {t}
<1> DEFINE q == from \div i
           g == from % i
           t == IF g <= f THEN i * q + f ELSE i * (q + 1) + f
<1>1. q \in Nat /\ g \in 0 .. i - 1 /\ from = i * q + g
  BY DivMod
<1>2. t \in from .. from + i - 1 /\ t % i = f
  <2> HIDE DEF q, g
  <2>1. i * (q + 1) = i * q + i /\ i * q \in Nat
    BY <1>1
  <2>2. (i * q + f) % i = f /\ (i * (q + 1) + f) % i = f
    BY <1>1, ModOf
  <2>3. QED
    BY <1>1, <2>1, <2>2
<1> HIDE DEF q, g, t
<1>3. ASSUME NEW u \in from .. from + i - 1, u % i = f PROVE u = t
  <2>1. u \in Nat /\ t \in Nat
    BY <1>2
  <2>2. u \div i \in Nat /\ u = i * (u \div i) + f
    BY <1>3, <2>1, DivMod
  <2>3. t \div i \in Nat /\ t = i * (t \div i) + f
    BY <1>2, <2>1, DivMod
  <2>4. u \div i = t \div i
    <3> DEFINE a == u \div i
               b == t \div i
    <3>1. i * a \in Nat /\ i * b \in Nat
      BY <2>2, <2>3
    <3> HIDE DEF a, b
    <3>2. i * a < i * b + i /\ i * b < i * a + i
      BY <1>2, <2>1, <2>2, <2>3, <3>1 DEF a, b
    <3>3. a = b
      BY <2>2, <2>3, <3>2, SameResidue DEF a, b
    <3>4. QED
      BY <3>3 DEF a, b
  <2>5. QED
    BY <2>2, <2>3, <2>4
<1>4. QED
  BY <1>2, <1>3

\* Every check is in the bucket of exactly one tick of every window of its
\* interval, where the buckets wrap around too.
THEOREM OncePerIntervalHolds == Spec => []OncePerInterval
<1>1. StoreInv => OncePerInterval
  <2> SUFFICES ASSUME StoreInv, NEW id \in Subscription, configs[id] # None, NEW from \in Horizon
               PROVE  Cardinality({ t \in from .. from + configs[id].interval - 1 :
                                      configs[id] \in GetConfigs(t) }) = 1
    BY DEF OncePerInterval
  <2> DEFINE config == configs[id]
             i == config.interval
             f == SlotSeed[config.subscription_id] % i
             window == from .. from + i - 1
  <2>1. config \in CheckConfig
    BY DEF StoreInv, StoreTypeOK
  <2>2. i \in Nat \ {0} /\ from \in Nat
    <3>1. i \in Interval
      BY <2>1 DEF CheckConfig
    <3>2. from \in Nat
      BY IntervalAssumption DEF Horizon
    <3>3. QED
      BY <3>1, <3>2, IntervalAssumption
  <2>3. f \in 0 .. i - 1
    BY <2>1, <2>2, SeedAssumption, DivMod DEF CheckConfig
  <2>4. ASSUME NEW t \in window
        PROVE  config \in GetConfigs(t) <=> t % i = f
    <3>1. t \in Nat
      BY <2>2
    <3>2. TickIndex(t) \in Slot
      BY <3>1, IntervalAssumption DEF TickIndex, Slot
    <3>3. config \in GetConfigs(t) <=> TickIndex(t) \in Slots(config)
      BY <2>1, <3>2, BucketMember DEF GetConfigs, StoreInv
    <3>4. QED
      BY <2>1, <3>1, <3>3, SlotIffResidue
  <2>5. { t \in window : config \in GetConfigs(t) } = { t \in window : t % i = f }
    BY <2>4
  <2>6. PICK t \in window : { u \in window : u % i = f } = {t}
    BY <2>2, <2>3, OneInWindow
  <2>7. QED
    BY <2>5, <2>6, FS_Singleton
<1>2. QED
  BY <1>1, StoreInvariant, PTL

------------------------------------------------------------------------------
(* Round robin.                                                             *)

\* The ticks with residue f in the n intervals from a time on are those of n rounds
\* in a row, first the first of them.
RoundsFrom(first, i, f, n, from) ==
    \A t \in Nat :
        t \in from .. from + i * n - 1 /\ t % i = f
          <=> t = i * (t \div i) + f /\ t \div i \in first .. first + n - 1

\* Exactly one of these ticks has the turn m.
OneTick(i, f, n, from, seed, m) ==
    \E t \in from .. from + i * n - 1 :
        /\ t % i = f /\ ((t \div i) + seed) % n = m
        /\ \A u \in from .. from + i * n - 1 :
              u % i = f /\ ((u \div i) + seed) % n = m => u = t

\* The ticks of a config in a window of n intervals are n ticks in a row.
LEMMA TicksOfRound ==
    ASSUME NEW i \in Nat \ {0}, NEW f \in 0 .. i - 1, NEW n \in Nat \ {0}, NEW from \in Nat
    PROVE  \E first \in Nat : RoundsFrom(first, i, f, n, from)
<1>1. PICK t0 \in from .. from + i - 1 : { u \in from .. from + i - 1 : u % i = f } = {t0}
  BY OneInWindow
<1> DEFINE first == t0 \div i
<1>2. t0 \in Nat /\ t0 % i = f
  BY <1>1
<1>3. first \in Nat /\ t0 = i * first + f
  BY <1>2, DivMod
<1> HIDE DEF first
<1>4. ASSUME NEW t \in Nat
      PROVE  t \in from .. from + i * n - 1 /\ t % i = f
               <=> t = i * (t \div i) + f /\ t \div i \in first .. first + n - 1
  <2> DEFINE a == t \div i
  <2>1. a \in Nat /\ t % i \in 0 .. i - 1 /\ t = i * a + (t % i)
    BY DivMod
  <2>2. t % i = f <=> t = i * a + f
    BY <2>1
  <2> HIDE DEF a
  <2>3. i * n \in Nat /\ i * a \in Nat /\ i * first \in Nat
    BY <1>3, <2>1
  <2>4. ASSUME t = i * a + f, t \in from .. from + i * n - 1
        PROVE  a \in first .. first + n - 1
    <3>1. CASE a < first
      <4>1. i * a <= i * (first - 1) /\ i * (first - 1) = i * first - i
        BY <1>3, <2>1, <3>1
      <4> QED
        BY <1>1, <1>3, <2>3, <2>4, <4>1
    <3>2. CASE a >= first + n
      <4>1. i * a >= i * (first + n) /\ i * (first + n) = i * first + i * n
        BY <1>3, <2>1, <3>2
      <4> QED
        BY <1>1, <1>3, <2>3, <2>4, <4>1
    <3> QED
      BY <1>3, <2>1, <3>1, <3>2
  <2>5. ASSUME t = i * a + f, a \in first .. first + n - 1
        PROVE  t \in from .. from + i * n - 1
    <3>1. i * a >= i * first
      BY <1>3, <2>1, <2>5
    <3>2. i * a <= i * (first + n - 1) /\ i * (first + n - 1) = i * first + i * n - i
      BY <1>3, <2>1, <2>5
    <3> QED
      BY <1>1, <1>3, <2>3, <2>5, <3>1, <3>2
  <2> QED
    BY <2>2, <2>4, <2>5 DEF a
<1>5. RoundsFrom(first, i, f, n, from)
  BY <1>4 DEF RoundsFrom
<1> QED
  BY <1>3, <1>5

\* In such a window every turn comes exactly once.
LEMMA OneTickPerTurn ==
    ASSUME NEW i \in Nat \ {0}, NEW f \in 0 .. i - 1, NEW n \in Nat \ {0}, NEW from \in Nat,
           NEW seed \in Nat, NEW m \in 0 .. n - 1
    PROVE  OneTick(i, f, n, from, seed, m)
<1>0. PICK first \in Nat : RoundsFrom(first, i, f, n, from)
  BY TicksOfRound
<1>1. \A t \in Nat :
         t \in from .. from + i * n - 1 /\ t % i = f
           <=> t = i * (t \div i) + f /\ t \div i \in first .. first + n - 1
  BY <1>0 DEF RoundsFrom
<1> DEFINE low == first + seed
<1>2. low \in Nat
  OBVIOUS
<1>3. PICK v \in low .. low + n - 1 : { u \in low .. low + n - 1 : u % n = m } = {v}
  BY <1>2, OneInWindow
<1>4. v % n = m /\ v \in Nat /\ v \in first + seed .. first + seed + n - 1
  BY <1>2, <1>3
<1> DEFINE a == v - seed
           t == i * a + f
<1>5. a \in Nat /\ a \in first .. first + n - 1 /\ a + seed = v
  BY <1>4
<1> HIDE DEF a
<1>6. t \in Nat /\ t \div i = a /\ t % i = f
  <2>1. t \in Nat
    BY <1>5
  <2> HIDE DEF t
  <2>2. t \div i \in Nat /\ t % i \in 0 .. i - 1 /\ t = i * (t \div i) + (t % i)
    BY <2>1, DivMod
  <2>3. t = i * a + f
    BY DEF t
  <2>4. t % i = f
    BY <1>5, <2>3, ModOf
  <2> DEFINE b == t \div i
  <2> HIDE DEF b
  <2>5. i * a = i * b /\ b \in Nat /\ i * a \in Nat /\ i * b \in Nat
    BY <1>5, <2>1, <2>2, <2>3, <2>4 DEF b
  <2>6. a = b
    BY <1>5, <2>5, SameResidue
  <2> QED
    BY <2>1, <2>4, <2>6 DEF b
<1>7. t \in from .. from + i * n - 1
  BY <1>1, <1>5, <1>6
<1>8. ((t \div i) + seed) % n = m
  BY <1>4, <1>5, <1>6
<1>9. ASSUME NEW u \in from .. from + i * n - 1, u % i = f, ((u \div i) + seed) % n = m
      PROVE  u = t
  <2>1. u \in Nat /\ i * n \in Nat
    OBVIOUS
  <2>2. u = i * (u \div i) + f /\ u \div i \in first .. first + n - 1
    BY <1>1, <1>9, <2>1
  <2> DEFINE b == u \div i
  <2>3. b \in Nat /\ (b + seed) % n = m /\ b + seed \in low .. low + n - 1
    BY <1>9, <2>2
  <2>4. b + seed = v
    BY <1>3, <2>3
  <2> HIDE DEF b
  <2>5. b = a
    BY <1>5, <2>3, <2>4
  <2> QED
    BY <2>2, <2>5 DEF b
<1> HIDE DEF t
<1> QED
  BY <1>6, <1>7, <1>8, <1>9 DEF OneTick

\* Over as many intervals as a config has regions each of them runs it once for every
\* time it is named, wherever the window starts: should_run counts turns of the interval,
\* and the turns and the ticks of the buckets have the same period.
THEOREM RegionsTakeTurnsHolds == Spec => []RegionsTakeTurns
<1>1. StoreInv => RegionsTakeTurns
  <2> SUFFICES ASSUME StoreInv, NEW id \in Subscription, configs[id] # None,
                      configs[id].scheduled_by_region, configs[id].active_regions # <<>>,
                      NEW from \in Horizon, NEW k \in 1 .. Len(configs[id].active_regions)
               PROVE  Cardinality(RunsIn(configs[id], configs[id].active_regions[k], from,
                                         configs[id].interval * Len(configs[id].active_regions)))
                        = Cardinality({ j \in 1 .. Len(configs[id].active_regions) :
                              configs[id].active_regions[j] = configs[id].active_regions[k] })
    BY DEF RegionsTakeTurns
  <2> DEFINE config == configs[id]
             regions == config.active_regions
             region == regions[k]
             i == config.interval
             n == Len(regions)
             f == SlotSeed[config.subscription_id] % i
             seed == RegionSeed[config.subscription_id]
             window == from .. from + i * n - 1
             Turn(t) == ((t \div i) + seed) % n
             Runs == RunsIn(config, region, from, i * n)
             Named == { j \in 1 .. n : regions[j] = region }
  <2>1. config \in CheckConfig
    BY DEF StoreInv, StoreTypeOK
  <2>2. i \in Nat \ {0} /\ from \in Nat
    <3>1. i \in Interval
      BY <2>1 DEF CheckConfig
    <3>2. from \in Nat
      BY IntervalAssumption DEF Horizon
    <3> QED
      BY <3>1, <3>2, IntervalAssumption
  <2>3. f \in 0 .. i - 1 /\ seed \in Nat
    BY <2>1, <2>2, SeedAssumption, DivMod DEF CheckConfig
  <2>4. n \in Nat \ {0}
    <3>1. regions \in Seq(Region)
      BY <2>1, RegionAssumption DEF CheckConfig
    <3> QED
      BY <3>1
  <2>5. ASSUME NEW t \in window
        PROVE  /\ t \in Nat
               /\ config \in GetConfigs(t) <=> t % i = f
               /\ ShouldRun(config, t, region) <=> regions[Turn(t) + 1] = region
    <3>1. t \in Nat
      BY <2>2, <2>4
    <3>2. TickIndex(t) \in Slot
      BY <3>1, IntervalAssumption DEF TickIndex, Slot
    <3>3. config \in GetConfigs(t) <=> TickIndex(t) \in Slots(config)
      BY <2>1, <3>2, BucketMember DEF GetConfigs, StoreInv
    <3>4. config \in GetConfigs(t) <=> t % i = f
      BY <2>1, <3>1, <3>3, SlotIffResidue
    <3>5. ShouldRun(config, t, region) <=> regions[Turn(t) + 1] = region
      BY DEF ShouldRun
    <3> QED
      BY <3>1, <3>4, <3>5
  <2>6. Runs = { t \in window : t % i = f /\ regions[Turn(t) + 1] = region }
    BY <2>5 DEF RunsIn
  <2> HIDE DEF Runs
  <2>7. \A t \in window : Turn(t) \in 0 .. n - 1 /\ Turn(t) + 1 \in 1 .. n
    <3> SUFFICES ASSUME NEW t \in window
                 PROVE  Turn(t) \in 0 .. n - 1 /\ Turn(t) + 1 \in 1 .. n
      OBVIOUS
    <3> HIDE DEF i, f, seed, n, window
    <3>1. t \in Nat /\ t \div i \in Nat
      <4>1. t \in Nat
        BY <2>5
      <4> QED
        BY <2>2, <4>1, DivMod
    <3>2. (t \div i) + seed \in Nat
      BY <3>1, <2>3
    <3>3. Turn(t) \in 0 .. n - 1
      BY <3>2, <2>4, DivMod
    <3> QED
      BY <3>3, <2>4
  <2>8. \A m \in 0 .. n - 1 : \E t \in window :
           /\ t % i = f /\ Turn(t) = m
           /\ \A u \in window : u % i = f /\ Turn(u) = m => u = t
    <3> HIDE DEF i, f, seed, n
    <3>1. \A m \in 0 .. n - 1 : OneTick(i, f, n, from, seed, m)
      BY <2>2, <2>3, <2>4, OneTickPerTurn
    <3> QED
      BY <3>1, Zenon DEF OneTick
  <2> DEFINE F == [t \in Runs |-> Turn(t) + 1]
  <2>9. IsFiniteSet(Runs)
    <3>1. from \in Int /\ from + i * n - 1 \in Int
      BY <2>2, <2>4
    <3>2. IsFiniteSet(window)
      BY <3>1, FS_Interval
    <3>3. Runs \subseteq window
      BY <2>6
    <3> HIDE DEF window
    <3> QED
      BY <3>2, <3>3, FS_Subset
  <2>10. ExistsBijection(Runs, Named)
    <3> HIDE DEF config, regions, region, i, n, f, seed, window, Turn
    <3>1. F \in [Runs -> Named]
      BY <2>6, <2>7
    <3>2. ASSUME NEW t \in Runs, NEW u \in Runs, F[t] = F[u]
          PROVE  t = u
      <4>1. t \in window /\ u \in window /\ t % i = f /\ u % i = f
        BY <2>6
      <4>2. Turn(t) \in 0 .. n - 1 /\ Turn(u) \in 0 .. n - 1 /\ Turn(t) + 1 = Turn(u) + 1
        BY <2>7, <3>2, <4>1
      <4>3. Turn(t) = Turn(u)
        BY <2>4, <4>2
      <4> QED
        BY <2>8, <4>1, <4>2, <4>3
    <3>3. ASSUME NEW j \in Named
          PROVE  \E t \in Runs : F[t] = j
      <4>1. j \in 1 .. n /\ regions[j] = region /\ j - 1 \in 0 .. n - 1 /\ (j - 1) + 1 = j
        BY <2>4
      <4>2. PICK t \in window : t % i = f /\ Turn(t) = j - 1
        BY <2>8, <4>1
      <4>3. t \in Runs
        BY <2>6, <4>1, <4>2
      <4> QED
        BY <4>1, <4>2, <4>3
    <3> HIDE DEF F, Named
    <3>4. F \in Bijection(Runs, Named)
      BY <3>1, <3>2, <3>3, Fun_IsBij
    <3> QED
      BY <3>4 DEF ExistsBijection
  <2>11. Cardinality(Named) = Cardinality(Runs)
    <3> HIDE DEF Named
    <3> QED
      BY <2>9, <2>10, FS_Bijection
  <2> QED
    BY <2>11 DEF Runs
<1>2. QED
  BY <1>1, StoreInvariant, PTL

==============================================================================
