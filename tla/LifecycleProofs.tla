--------------------------- MODULE LifecycleProofs ---------------------------
(***************************************************************************)
(* Proofs about how a checker process starts and stops.                    *)
(*                                                                         *)
(* PartitionBoot: when Redis answers fast enough, no scheduler starts      *)
(* before the configs of its partition were loaded.  "Fast enough" is a    *)
(* bound for the connection and all partitions together, since they are    *)
(* loaded one after the other and every waiter counts from the start.      *)
(*                                                                         *)
(* Manager: an exit is orderly, whatever stopped the process and whenever. *)
(***************************************************************************)
EXTENDS PartitionBoot, Manager, FiniteSetTheorems, TLAPS

------------------------------------------------------------------------------
(* The start: PartitionBoot.                                                *)

\* The connection and the whole load take less than BOOT_MAX_IDLE.
RedisIsFast ==
    /\ IsFiniteSet(Partition)
    /\ (Cardinality(Partition) + 1) * MaxLatency < BootMaxIdle

\* What Redis has answered: the connection, and one read for each partition loaded.
Answers == Cardinality(Partition) - Cardinality(unloaded) + IF connected THEN 1 ELSE 0

\* When these answers must have arrived.
LoadedBy == Answers * MaxLatency

\* The load is on time: every answer has used at most its share.
OnTime ==
    unloaded # {} => elapsed <= LoadedBy + IF asked = None THEN 0 ELSE asked

\* A waiter leaves an empty store only because it was told to stop.
WaitsForLoad ==
    \A p \in unloaded :
        /\ updated[p] = None
        /\ waiter[p] # "started"
        /\ waiter[p] = "leaving" => p \in cancelled

BootInv == BootTypeOK /\ OnTime /\ WaitsForLoad

LEMMA TodoCount ==
    ASSUME RedisIsFast, BootTypeOK
    PROVE  /\ IsFiniteSet(unloaded) /\ Cardinality(unloaded) \in Nat /\ Cardinality(Partition) \in Nat
           /\ Cardinality(unloaded) <= Cardinality(Partition)
           /\ unloaded # {} => Cardinality(unloaded) > 0
           /\ Answers \in Nat /\ LoadedBy \in Nat
           /\ unloaded # {} => Answers <= Cardinality(Partition)
  <1>1. /\ IsFiniteSet(unloaded) /\ Cardinality(unloaded) \in Nat /\ Cardinality(Partition) \in Nat
        /\ Cardinality(unloaded) <= Cardinality(Partition)
    BY FS_Subset, FS_CardinalityType DEF RedisIsFast, BootTypeOK
  <1>2. unloaded # {} => Cardinality(unloaded) > 0
    BY <1>1, FS_EmptySet
  <1>3. Answers \in Nat /\ (unloaded # {} => Answers <= Cardinality(Partition))
    BY <1>1, <1>2 DEF Answers
  <1>4. LoadedBy \in Nat
    BY <1>3, BootAssumption DEF LoadedBy
  <1> QED
    BY <1>1, <1>2, <1>3, <1>4

\* As long as something is to be loaded, no store has been empty for BOOT_MAX_IDLE.
LEMMA LoadInTime ==
    ASSUME RedisIsFast, BootInv, unloaded # {}
    PROVE  elapsed < BootMaxIdle
  <1> DEFINE n == Cardinality(Partition)
             k == Answers
             l == MaxLatency
  <1>1. n \in Nat /\ k \in Nat /\ k <= n /\ l \in Nat /\ (n + 1) * l < BootMaxIdle
    BY TodoCount, BootAssumption DEF BootInv, RedisIsFast
  <1>2. elapsed \in Nat /\ elapsed <= k * l + l
    <2>1. elapsed \in Nat /\ LoadedBy = k * l /\ LoadedBy \in Nat
      BY TodoCount, BootAssumption DEF BootInv, BootTypeOK, LoadedBy
    <2>2. asked = None \/ (asked \in Nat /\ asked <= l)
      BY BootAssumption DEF BootInv, BootTypeOK
    <2>3. elapsed <= LoadedBy + IF asked = None THEN 0 ELSE asked
      BY DEF BootInv, OnTime
    <2>4. elapsed <= LoadedBy + MaxLatency
      <3>1. elapsed \in Nat /\ LoadedBy \in Nat /\ MaxLatency \in Nat
        BY <2>1, BootAssumption
      <3>2. CASE asked = None
        BY <2>3, <3>1, <3>2
      <3>3. CASE asked # None
        BY <2>2, <2>3, <3>1, <3>3
      <3> QED
        BY <3>2, <3>3
    <2> QED
      BY <2>1, <2>4
  <1> HIDE DEF n, k, l
  <1>3. k * l + l = (k + 1) * l /\ (n + 1) * l - (k + 1) * l = (n - k) * l
    BY <1>1
  <1>4. (n - k) * l >= 0
    BY <1>1
  <1>5. k * l \in Int /\ (n + 1) * l \in Int /\ (k + 1) * l \in Int /\ (n - k) * l \in Int /\ BootMaxIdle \in Int
    BY <1>1, BootAssumption
  <1> QED
    BY <1>1, <1>2, <1>3, <1>4, <1>5

LEMMA BootInvInit == RedisIsFast /\ BootInit => BootInv
  <1> SUFFICES ASSUME RedisIsFast, BootInit PROVE BootInv
    OBVIOUS
  <1>1. BootTypeOK
    <2>1. elapsed \in 0 .. BootMaxIdle /\ asked \in (0 .. MaxLatency) \cup {None} /\ asked # None
      BY BootAssumption DEF BootInit
    <2>2. waiter \in [Partition -> Waiter] /\ updated \in [Partition -> (0 .. BootIdle) \cup {None}]
      BY DEF BootInit, Waiter
    <2>3. connected \in BOOLEAN
      BY DEF BootInit
    <2> QED
      BY <2>1, <2>2, <2>3 DEF BootInit, BootTypeOK
  <1>2. OnTime
    <2>1. LoadedBy \in Nat
      BY <1>1, TodoCount
    <2> QED
      BY <2>1, BootAssumption DEF BootInit, OnTime
  <1>3. WaitsForLoad
    BY DEF BootInit, WaitsForLoad
  <1> QED
    BY <1>1, <1>2, <1>3 DEF BootInv

\* Redis answers: its time is added to what the load may have taken.
LEMMA AnswerInTime ==
    ASSUME RedisIsFast, BootInv, BootTypeOK', unloaded # {}, asked # None, asked' = None,
           elapsed' = elapsed, Answers' = Answers + 1
    PROVE  OnTime'
  <1> DEFINE k == Answers
             l == MaxLatency
  <1>1. k \in Nat /\ l \in Nat /\ elapsed \in Nat /\ asked \in Nat /\ asked <= l
    BY TodoCount, BootAssumption DEF BootInv, BootTypeOK
  <1>2. elapsed <= k * l + asked
    BY DEF BootInv, OnTime, LoadedBy
  <1>3. LoadedBy' = (k + 1) * l
    BY DEF LoadedBy
  <1> HIDE DEF k, l
  <1>4. (k + 1) * l = k * l + l /\ k * l \in Int
    BY <1>1
  <1>5. elapsed <= LoadedBy' /\ LoadedBy' \in Int
    BY <1>1, <1>2, <1>3, <1>4
  <1> QED
    BY <1>5 DEF OnTime

LEMMA ConnectInv ==
    ASSUME RedisIsFast, BootInv, Connect
    PROVE  BootInv'
  <1> USE DEF BootInv
  <1>1. /\ ~ connected /\ connected' = TRUE /\ asked' = None
        /\ UNCHANGED <<elapsed, unloaded, updated, cancelled, waiter, ticked>>
    BY DEF Connect, waiterVars
  <1>2. BootTypeOK'
    BY <1>1 DEF BootTypeOK
  <1>3. asked # None
    BY <1>1 DEF BootTypeOK
  <1>4. Answers' = Answers + 1
    <2>1. Cardinality(unloaded) \in Nat /\ Cardinality(Partition) \in Nat
      BY TodoCount
    <2> QED
      BY <1>1, <2>1 DEF Answers
  <1>5. OnTime'
    <2>1. CASE unloaded = {}
      BY <1>1, <2>1 DEF OnTime
    <2>2. CASE unloaded # {}
      BY <1>1, <1>2, <1>3, <1>4, <2>2, AnswerInTime
    <2> QED
      BY <2>1, <2>2
  <1>6. WaitsForLoad'
    BY <1>1 DEF WaitsForLoad
  <1> QED
    BY <1>2, <1>5, <1>6

LEMMA LoadPartitionInv ==
    ASSUME RedisIsFast, BootInv, NEW p \in Partition, LoadPartition(p)
    PROVE  BootInv'
  <1> USE DEF BootInv
  <1>1. /\ connected /\ connected' = connected
        /\ asked # None /\ p \in unloaded /\ unloaded' = unloaded \ {p} /\ asked' = None
        /\ \/ updated' = [updated EXCEPT ![p] = 0]
           \/ updated' = updated
        /\ UNCHANGED <<elapsed, cancelled, waiter, ticked>>
    BY DEF LoadPartition, waiterVars
  <1>2. BootTypeOK'
    <2>1. updated' \in [Partition -> (0 .. BootIdle) \cup {None}]
      BY <1>1, BootAssumption DEF BootTypeOK
    <2> QED
      BY <1>1, <2>1 DEF BootTypeOK
  <1>3. OnTime'
    <2>1. Cardinality(unloaded) \in Nat /\ Cardinality(Partition) \in Nat
          /\ Cardinality(unloaded') = Cardinality(unloaded) - 1
      BY <1>1, TodoCount, FS_RemoveElement
    <2>2. Answers' = Answers + 1
      BY <1>1, <2>1 DEF Answers
    <2>3. unloaded # {}
      BY <1>1
    <2> QED
      BY <1>1, <1>2, <2>2, <2>3, AnswerInTime
  <1>4. WaitsForLoad'
    <2>1. \A q \in unloaded' : q # p /\ q \in unloaded /\ q \in Partition
      BY <1>1 DEF BootTypeOK
    <2>2. \A q \in unloaded' : updated'[q] = updated[q]
      BY <1>1, <2>1 DEF BootTypeOK
    <2> QED
      BY <1>1, <2>1, <2>2 DEF WaitsForLoad
  <1> QED
    BY <1>2, <1>3, <1>4

\* The waiters: the one that answers was told to stop, if its partition is not loaded.
LEMMA WaiterInv ==
    ASSUME RedisIsFast, BootInv, NEW p \in Partition, Tick(p) \/ Answer(p)
    PROVE  BootInv'
  <1> USE DEF BootInv
  <1>1. UNCHANGED <<elapsed, connected, unloaded, asked, updated, cancelled>>
    BY DEF Tick, Answer, loadVars
  <1>2. BootTypeOK'
    <2>1. waiter' \in [Partition -> Waiter] /\ ticked' \subseteq Partition
      BY DEF Tick, Answer, BootTypeOK, Waiter
    <2> QED
      BY <1>1, <2>1 DEF BootTypeOK
  <1>3. OnTime'
    BY <1>1 DEF OnTime, LoadedBy, Answers
  <1>4. WaitsForLoad'
    <2>1. SUFFICES ASSUME NEW q \in unloaded
                   PROVE  waiter'[q] # "started" /\ (waiter'[q] = "leaving" => q \in cancelled)
      BY <1>1 DEF WaitsForLoad
    <2>2. q \in Partition /\ updated[q] = None /\ waiter[q] # "started"
          /\ (waiter[q] = "leaving" => q \in cancelled)
      BY DEF WaitsForLoad, BootTypeOK
    <2>3. ~ IsIdle(q)
      <3>1. elapsed < BootMaxIdle
        BY LoadInTime
      <3> QED
        BY <2>2, <3>1, BootAssumption DEF IsIdle, BootTypeOK
    <2>4. CASE Tick(p)
      BY <2>2, <2>3, <2>4 DEF Tick, BootTypeOK
    <2>5. CASE Answer(p)
      BY <2>2, <2>5 DEF Answer, BootTypeOK
    <2> QED
      BY <2>4, <2>5
  <1> QED
    BY <1>2, <1>3, <1>4

LEMMA BootInvStep == RedisIsFast /\ BootInv /\ [BootNext]_bootVars => BootInv'
  <1> SUFFICES ASSUME RedisIsFast, BootInv, [BootNext]_bootVars PROVE BootInv'
    OBVIOUS
  <1> USE DEF BootInv
  <1>1. CASE AskForConfigs
    <2>1. /\ connected /\ asked = None /\ asked' = 0
          /\ UNCHANGED <<elapsed, connected, unloaded, updated, cancelled, waiter, ticked>>
      BY <1>1 DEF AskForConfigs, waiterVars
    <2>2. asked' \in (0 .. MaxLatency) \cup {None} /\ asked' # None
      BY <2>1, BootAssumption
    <2>3. LoadedBy' = LoadedBy
      BY <2>1 DEF LoadedBy, Answers
    <2>4. OnTime'
      BY <2>1, <2>2, <2>3 DEF OnTime
    <2> QED
      BY <2>1, <2>2, <2>4 DEF BootTypeOK, WaitsForLoad
  <1>2. CASE Connect \/ \E p \in Partition : LoadPartition(p)
    BY <1>2, ConnectInv, LoadPartitionInv
  <1>3. ASSUME NEW p \in Partition, UpdateStore(p)
        PROVE  BootInv'
    <2>1. /\ unloaded = {} /\ updated' = [updated EXCEPT ![p] = 0]
          /\ UNCHANGED <<elapsed, connected, unloaded, asked, cancelled, waiter, ticked>>
      BY <1>3 DEF UpdateStore, waiterVars
    <2>2. updated' \in [Partition -> (0 .. BootIdle) \cup {None}]
      BY <2>1, BootAssumption DEF BootTypeOK
    <2> QED
      BY <2>1, <2>2 DEF BootTypeOK, OnTime, WaitsForLoad
  <1>4. ASSUME NEW p \in Partition, CancelService(p)
        PROVE  BootInv'
    <2>1. /\ cancelled' = cancelled \cup {p}
          /\ UNCHANGED <<elapsed, connected, unloaded, asked, updated, waiter, ticked>>
      BY <1>4 DEF CancelService, loadVars, waiterVars
    <2>2. LoadedBy' = LoadedBy
      BY <2>1 DEF LoadedBy, Answers
    <2> QED
      BY <2>1, <2>2 DEF BootTypeOK, OnTime, WaitsForLoad
  <1>5. CASE \E p \in Partition : Tick(p) \/ Answer(p)
    BY <1>5, WaiterInv
  <1>6. CASE ClockTick
    <2>1. /\ unloaded # {} => asked # None /\ asked < MaxLatency
          /\ elapsed' = Older(elapsed, BootMaxIdle) /\ asked' = Older(asked, MaxLatency)
          /\ updated' = [p \in Partition |-> Older(updated[p], BootIdle)]
          /\ ticked' = {}
          /\ UNCHANGED <<connected, unloaded, cancelled, waiter>>
      BY <1>6 DEF ClockTick
    <2>2. /\ elapsed \in Nat /\ elapsed' \in 0 .. BootMaxIdle /\ elapsed' <= elapsed + 1
          /\ asked' \in (0 .. MaxLatency) \cup {None} /\ (asked' = None <=> asked = None)
      BY <2>1, BootAssumption DEF Older, BootTypeOK
    <2>3. BootTypeOK'
      <3>1. updated' \in [Partition -> (0 .. BootIdle) \cup {None}]
        BY <2>1, BootAssumption DEF Older, BootTypeOK
      <3> QED
        BY <2>1, <2>2, <3>1 DEF BootTypeOK
    <2>4. OnTime'
      <3>1. LoadedBy' = LoadedBy /\ LoadedBy \in Nat
        BY <2>1, TodoCount DEF LoadedBy, Answers
      <3>2. ASSUME unloaded # {}
            PROVE  elapsed' <= LoadedBy + asked' /\ asked' # None
        <4>1. asked \in Nat /\ asked < MaxLatency /\ asked # None /\ asked' = asked + 1
          BY <2>1, <3>2, BootAssumption DEF Older, BootTypeOK
        <4>2. elapsed <= LoadedBy + asked
          BY <3>2, <4>1 DEF OnTime
        <4>3. asked' # None
          BY <2>2, <4>1
        <4> QED
          BY <2>2, <3>1, <4>1, <4>2, <4>3
      <3> QED
        BY <2>1, <3>1, <3>2 DEF OnTime
    <2>5. WaitsForLoad'
      BY <2>1 DEF WaitsForLoad, Older, BootTypeOK
    <2> QED
      BY <2>3, <2>4, <2>5
  <1>7. CASE UNCHANGED bootVars
    BY <1>7 DEF bootVars, loadVars, waiterVars, BootTypeOK, OnTime, LoadedBy, Answers, WaitsForLoad
  <1> QED
    BY <1>1, <1>2, <1>3, <1>4, <1>5, <1>6, <1>7 DEF BootNext

\* wait_for_partition_boot is right about the backlog when the connection and the load of
\* all partitions take less than BOOT_MAX_IDLE: no scheduler starts before its configs are
\* there, however many updates follow.
THEOREM StartsAfterBacklogHolds == RedisIsFast /\ BootSafety => []StartsAfterBacklog
  <1>1. BootInv => StartsAfterBacklog
    BY DEF BootInv, WaitsForLoad, StartsAfterBacklog
  <1>2. RedisIsFast => (BootSafety => []StartsAfterBacklog)
    <2> SUFFICES ASSUME RedisIsFast PROVE BootSafety => []StartsAfterBacklog
      OBVIOUS
    <2>1. BootInit => BootInv
      BY BootInvInit
    <2>2. BootInv /\ [BootNext]_bootVars => BootInv'
      BY BootInvStep
    <2> QED
      BY <1>1, <2>1, <2>2, PTL DEF BootSafety
  <1> QED
    BY <1>2

------------------------------------------------------------------------------
(* The stop: Manager.                                                       *)

\* stop() has awaited the handles in their order.
AwaitedInOrder ==
    /\ awaiting \in 1 .. 6
    /\ process = "exited" => awaiting = 6
    /\ Alive => awaiting # 6
    /\ \A i \in 1 .. 5 : i < awaiting => Awaited[i] \in ended

\* The tasks that returned stay so, and the services' task only after the manager was
\* dropped and every service it was sent has stopped.
TasksEnd ==
    /\ "monitor" \in ended <=> monitor = "ended"
    /\ "provider" \in ended <=> provider = "ended"
    /\ "worker" \in ended => "executor" \in ended
    /\ "services" \in ended =>
          {"provider", "monitor"} \subseteq ended /\ shutdown = {} /\ stopping = {}

\* A partition is registered once: the monitor has yet to register only what was never
\* a service, so no scheduler is started again after it was told to stop.
RegisteredOnce ==
    /\ monitor = "start" => services = {} /\ shutdown = {} /\ told = {}
    /\ monitor = "register" => todo \cap (services \cup shutdown \cup told) = {}
    /\ removing \subseteq services
    /\ scheduler \in [Partition -> { "none", "running", "ended" }]
    /\ shutdown \subseteq Partition
    /\ services \subseteq Partition

\* A scheduler that was told to stop has ended or its service waits for it.
ToldIsAwaited == \A p \in told : p \in Partition /\ (p \in stopping \/ scheduler[p] = "ended")

LifeInv == AwaitedInOrder /\ TasksEnd /\ RegisteredOnce /\ ToldIsAwaited

LEMMA AwaitedTasks ==
    /\ Awaited[1] = "endpoint" /\ Awaited[2] = "provider" /\ Awaited[3] = "worker"
    /\ Awaited[4] = "services" /\ Awaited[5] = "executor"
    /\ Len(Awaited) = 5
  BY DEF Awaited

LEMMA LifeInvInit == Init => LifeInv
  BY DEF Init, LifeInv, AwaitedInOrder, Alive, TasksEnd, RegisteredOnce, ToldIsAwaited

\* A task that returns is one more that stop() need not wait for.
LEMMA AwaitedGrows ==
    ASSUME AwaitedInOrder, UNCHANGED awaiting, ended \subseteq ended',
           process' = process \/ (process = "up" /\ process' = "stopping")
    PROVE  AwaitedInOrder'
  BY DEF AwaitedInOrder, Alive

LEMMA MonitorInv ==
    ASSUME LifeInv, MonitorStep
    PROVE  LifeInv'
  <1> USE DEF LifeInv
  <1>1. CASE LoadPanics \/ GetServicePanics
    <2>1. /\ process' = "aborted"
          /\ UNCHANGED <<awaiting, ended, monitor, todo, provider, removing, services,
                         shutdown, stopping, told, scheduler>>
      BY <1>1 DEF LoadPanics, GetServicePanics, Panic, monitorVars,
                  providerVars, serviceVars
    <2> QED
      BY <2>1 DEF AwaitedInOrder, Alive, TasksEnd, RegisteredOnce, ToldIsAwaited
  <1>2. CASE MonitorStarts
    <2>1. /\ monitor = "start" /\ monitor' = "register" /\ todo' = Partition \ services
          /\ UNCHANGED <<process, awaiting, ended, provider, removing, services,
                         shutdown, stopping, told, scheduler>>
      BY <1>2 DEF MonitorStarts, mainVars, providerVars, serviceVars
    <2> QED
      BY <2>1, AwaitedGrows DEF TasksEnd, RegisteredOnce, ToldIsAwaited
  <1>3. ASSUME NEW p \in Partition, RegisterPartition(p)
        PROVE  LifeInv'
    <2>1. /\ monitor = "register" /\ p \in todo
          /\ services' = services \cup {p}
          /\ scheduler' = [scheduler EXCEPT ![p] = "running"]
          /\ todo' = todo \ {p}
          /\ UNCHANGED <<process, awaiting, ended, monitor, provider, removing, shutdown, stopping, told>>
      BY <1>3 DEF RegisterPartition, mainVars, providerVars
    <2>2. AwaitedInOrder' /\ TasksEnd'
      BY <2>1, AwaitedGrows DEF TasksEnd
    <2>3. RegisteredOnce'
      BY <2>1 DEF RegisteredOnce
    <2>4. ToldIsAwaited'
      BY <2>1 DEF RegisteredOnce, ToldIsAwaited
    <2> QED
      BY <2>2, <2>3, <2>4
  <1>4. CASE \/ BeginLoad \/ GetService \/ ChangeStore \/ EndPartition
             \/ \E p \in Partition : BeginPartition(p)
    <2>1. UNCHANGED <<process, awaiting, ended, provider, removing, services, shutdown, stopping,
                      told, scheduler>>
      BY <1>4 DEF BeginLoad, GetService, ChangeStore, EndPartition,
                  BeginPartition, mainVars, providerVars, serviceVars
    <2>2. \/ monitor' = monitor /\ todo' \subseteq todo
          \/ monitor = "register" /\ monitor' = "load"
      BY <1>4 DEF BeginLoad, GetService, ChangeStore, EndPartition,
                  BeginPartition
    <2> QED
      BY <2>1, <2>2, AwaitedGrows DEF TasksEnd, RegisteredOnce, ToldIsAwaited
  <1>5. CASE EndRound \/ PollFails
    <2>1. /\ monitor \in { "load", "poll" }
          /\ UNCHANGED <<process, awaiting, provider, removing, services, shutdown, stopping, told,
                         scheduler>>
      BY <1>5 DEF EndRound, PollFails, mainVars, providerVars, serviceVars
    <2>2. \/ monitor' = "ended" /\ ended' = ended \cup {"monitor"}
          \/ monitor' = "poll" /\ ended' = ended
      BY <1>5 DEF EndRound, PollFails, GoRound
    <2>3. AwaitedInOrder'
      BY <2>1, <2>2, AwaitedGrows
    <2>4. TasksEnd'
      BY <2>1, <2>2 DEF TasksEnd
    <2>5. RegisteredOnce' /\ ToldIsAwaited'
      BY <2>1, <2>2 DEF RegisteredOnce, ToldIsAwaited
    <2> QED
      BY <2>3, <2>4, <2>5
  <1> QED
    BY <1>1, <1>2, <1>3, <1>4, <1>5 DEF MonitorStep

LEMMA ProviderInv ==
    ASSUME LifeInv, ProviderStep
    PROVE  LifeInv'
  <1> USE DEF LifeInv
  <1>1. CASE ShutdownRequested
    <2>1. /\ provider = "select" /\ provider' = "unregister" /\ removing' = services
          /\ UNCHANGED <<process, awaiting, ended, monitor, todo, services, shutdown,
                         stopping, told, scheduler>>
      BY <1>1 DEF ShutdownRequested, mainVars, monitorVars, serviceVars
    <2> QED
      BY <2>1, AwaitedGrows DEF TasksEnd, RegisteredOnce, ToldIsAwaited
  <1>2. CASE ProviderEnds
    <2>1. /\ provider' = "ended" /\ ended' = ended \cup {"provider"}
          /\ UNCHANGED <<process, awaiting, monitor, todo, removing, services, shutdown,
                         stopping, told, scheduler>>
      BY <1>2 DEF ProviderEnds, mainVars, monitorVars, serviceVars
    <2>2. AwaitedInOrder'
      BY <2>1, AwaitedGrows
    <2> QED
      BY <2>1, <2>2 DEF TasksEnd, RegisteredOnce, ToldIsAwaited
  <1>3. ASSUME NEW p \in Partition, UnregisterPartition(p)
        PROVE  LifeInv'
    <2>1. /\ provider = "unregister" /\ p \in removing
          /\ services' = services \ {p} /\ shutdown' = shutdown \cup {p} /\ removing' = removing \ {p}
          /\ UNCHANGED <<process, awaiting, ended, monitor, todo, provider, stopping, told,
                         scheduler>>
      BY <1>3 DEF UnregisterPartition, mainVars, monitorVars
    <2>2. AwaitedInOrder' /\ TasksEnd'
      BY <2>1, AwaitedGrows DEF TasksEnd
    <2>3. RegisteredOnce' /\ ToldIsAwaited'
      BY <2>1 DEF RegisteredOnce, ToldIsAwaited
    <2> QED
      BY <2>2, <2>3
  <1>4. ASSUME NEW p \in Partition, UnregisterPanics(p)
        PROVE  LifeInv'
    <2>1. /\ process' = "aborted"
          /\ UNCHANGED <<awaiting, ended, monitor, todo, provider, removing, services,
                         shutdown, stopping, told, scheduler>>
      BY <1>4 DEF UnregisterPanics, Panic, monitorVars, providerVars,
                  serviceVars
    <2> QED
      BY <2>1 DEF AwaitedInOrder, Alive, TasksEnd, RegisteredOnce, ToldIsAwaited
  <1> QED
    BY <1>1, <1>2, <1>3, <1>4 DEF ProviderStep

LEMMA ServicesInv ==
    ASSUME LifeInv, ServicesStep \/ \E p \in Partition : SchedulerEnds(p)
    PROVE  LifeInv'
  <1> USE DEF LifeInv
  <1>1. CASE ServicesEnd
    <2>1. /\ {"provider", "monitor"} \subseteq ended /\ shutdown = {} /\ stopping = {}
          /\ ended' = ended \cup {"services"}
          /\ UNCHANGED <<process, awaiting, monitor, todo, provider, removing, services,
                         shutdown, stopping, told, scheduler>>
      BY <1>1 DEF ServicesEnd, mainVars, monitorVars, providerVars,
                  serviceVars
    <2>2. AwaitedInOrder'
      BY <2>1, AwaitedGrows
    <2> QED
      BY <2>1, <2>2 DEF TasksEnd, RegisteredOnce, ToldIsAwaited
  <1>2. ASSUME NEW p \in Partition,
               StopService(p) \/ ServiceStopped(p) \/ SchedulerEnds(p)
        PROVE  LifeInv'
    <2>1. UNCHANGED <<process, awaiting, ended, monitor, todo, provider, removing, services>>
      BY <1>2 DEF StopService, ServiceStopped, SchedulerEnds, mainVars,
                  monitorVars, providerVars
    <2>2. AwaitedInOrder'
      BY <2>1, AwaitedGrows
    <2>3. CASE StopService(p)
      <3>1. /\ "services" \notin ended /\ p \in shutdown
            /\ shutdown' = shutdown \ {p} /\ stopping' = stopping \cup {p} /\ told' = told \cup {p}
            /\ UNCHANGED scheduler
        BY <2>3 DEF StopService
      <3> QED
        BY <2>1, <2>2, <3>1 DEF TasksEnd, RegisteredOnce, ToldIsAwaited
    <2>4. CASE ServiceStopped(p)
      <3>1. scheduler[p] = "ended" /\ stopping' = stopping \ {p} /\ UNCHANGED <<shutdown, told, scheduler>>
        BY <2>4 DEF ServiceStopped
      <3> QED
        BY <2>1, <2>2, <3>1 DEF TasksEnd, RegisteredOnce, ToldIsAwaited
    <2>5. CASE SchedulerEnds(p)
      <3>1. scheduler' = [scheduler EXCEPT ![p] = "ended"] /\ UNCHANGED <<shutdown, stopping, told>>
        BY <2>5 DEF SchedulerEnds
      <3> QED
        BY <2>1, <2>2, <3>1 DEF TasksEnd, RegisteredOnce, ToldIsAwaited
    <2> QED
      BY <1>2, <2>3, <2>4, <2>5
  <1> QED
    BY <1>1, <1>2 DEF ServicesStep

LEMMA MainInv ==
    ASSUME LifeInv,
           \/ EndpointEnds \/ EndpointFails \/ ExecutorEnds \/ WorkerEnds
           \/ Stop \/ AwaitNext \/ Down \/ UNCHANGED vars
    PROVE  LifeInv'
  <1> USE DEF LifeInv
  <1>1. UNCHANGED <<monitor, todo, provider, removing, services, shutdown, stopping, told,
                    scheduler>>
    BY DEF EndpointEnds, EndpointFails, ExecutorEnds, WorkerEnds, Returns,
           Stop, AwaitNext, Down, vars, monitorVars, providerVars,
           serviceVars
  <1>2. RegisteredOnce' /\ ToldIsAwaited'
    BY <1>1 DEF RegisteredOnce, ToldIsAwaited
  <1>3. CASE EndpointEnds \/ EndpointFails \/ ExecutorEnds \/ WorkerEnds
    <2>1. /\ \/ ended' = ended \cup {"endpoint"}
             \/ ended' = ended \cup {"executor"}
             \/ ended' = ended \cup {"worker"} /\ "executor" \in ended
          /\ UNCHANGED <<process, awaiting>>
      BY <1>3 DEF EndpointEnds, EndpointFails, ExecutorEnds, WorkerEnds,
                  Returns, mainVars
    <2>2. AwaitedInOrder'
      BY <2>1, AwaitedGrows
    <2>3. TasksEnd'
      BY <1>1, <2>1 DEF TasksEnd
    <2> QED
      BY <1>2, <2>2, <2>3
  <1>4. CASE Stop \/ Down \/ UNCHANGED vars
    <2>1. /\ UNCHANGED <<awaiting, ended>>
          /\ process' = process \/ (process = "up" /\ process' = "stopping")
      BY <1>4 DEF Stop, Down, vars, mainVars
    <2>2. AwaitedInOrder' /\ TasksEnd'
      BY <1>1, <2>1, AwaitedGrows DEF TasksEnd
    <2> QED
      BY <1>2, <2>2
  <1>5. CASE AwaitNext
    <2>1. /\ process = "stopping" /\ Awaited[awaiting] \in ended /\ awaiting' = awaiting + 1
          /\ process' = IF awaiting = 5 THEN "exited" ELSE "stopping"
          /\ UNCHANGED ended
      BY <1>5, AwaitedTasks DEF AwaitNext
    <2>2. TasksEnd'
      BY <1>1, <2>1 DEF TasksEnd
    <2>3. AwaitedInOrder'
      BY <2>1 DEF AwaitedInOrder, Alive
    <2> QED
      BY <1>2, <2>2, <2>3
  <1> QED
    BY <1>3, <1>4, <1>5

LEMMA LifeInvariant == Safety => []LifeInv
  <1>1. LifeInv /\ [Next]_vars => LifeInv'
    BY MonitorInv, ProviderInv, ServicesInv, MainInv DEF Next
  <1> QED
    BY <1>1, LifeInvInit, PTL DEF Safety

\* When ManagerHandle::stop has returned, the executor and the producer's worker have
\* ended, the manager was dropped, and every scheduler that was told to stop has drained.
THEOREM ExitIsOrderlyHolds == Safety => []ExitIsOrderly
  <1>1. LifeInv => ExitIsOrderly
    BY AwaitedTasks DEF LifeInv, AwaitedInOrder, TasksEnd, ToldIsAwaited, ExitIsOrderly
  <1> QED
    BY <1>1, LifeInvariant, PTL

LEMMA TypeInit == Init => TypeOK
  <1>1. 1 \in 1 .. Len(Awaited) + 1
    BY AwaitedTasks
  <1> QED
    BY <1>1 DEF Init, TypeOK, Monitor

LEMMA MonitorTypes ==
    ASSUME TypeOK, MonitorStep
    PROVE  TypeOK'
  <1> USE DEF TypeOK, Monitor, mainVars, providerVars, serviceVars, monitorVars
  <1>1. CASE LoadPanics \/ GetServicePanics
    BY <1>1 DEF LoadPanics, GetServicePanics, Panic
  <1>2. CASE MonitorStarts \/ BeginLoad
    BY <1>2 DEF MonitorStarts, BeginLoad
  <1>3. ASSUME NEW p \in Partition, RegisterPartition(p)
        PROVE  TypeOK'
    BY <1>3 DEF RegisterPartition
  <1>4. ASSUME NEW p \in Partition, BeginPartition(p)
        PROVE  TypeOK'
    BY <1>4, ManagerAssumption DEF BeginPartition
  <1>5. CASE GetService \/ ChangeStore \/ EndPartition
    <2>1. held' \in BOOLEAN
      BY <1>5 DEF GetService, ChangeStore, EndPartition
    <2>2. held' => at' # None
      BY <1>5 DEF GetService, ChangeStore, EndPartition
    <2> QED
      BY <1>5, <2>1, <2>2 DEF GetService, ChangeStore, EndPartition
  <1>6. CASE EndRound \/ PollFails
    BY <1>6 DEF EndRound, PollFails, GoRound, Task
  <1> QED
    BY <1>1, <1>2, <1>3, <1>4, <1>5, <1>6 DEF MonitorStep

LEMMA ServiceTypes ==
    ASSUME TypeOK, ProviderStep \/ ServicesStep \/ \E p \in Partition : SchedulerEnds(p)
    PROVE  TypeOK'
  <1> USE DEF TypeOK, mainVars, providerVars, serviceVars, monitorVars
  <1>1. {"provider", "services"} \subseteq Task
    BY AwaitedTasks DEF Task
  <1>2. CASE ShutdownRequested \/ ProviderEnds \/ ServicesEnd
    BY <1>1, <1>2 DEF ShutdownRequested, ProviderEnds, ServicesEnd
  <1>3. ASSUME NEW p \in Partition, UnregisterPartition(p) \/ UnregisterPanics(p)
        PROVE  TypeOK'
    BY <1>3 DEF UnregisterPartition, UnregisterPanics, Panic
  <1>4. ASSUME NEW p \in Partition, StopService(p) \/ ServiceStopped(p) \/ SchedulerEnds(p)
        PROVE  TypeOK'
    BY <1>4 DEF StopService, ServiceStopped, SchedulerEnds
  <1> QED
    BY <1>2, <1>3, <1>4 DEF ProviderStep, ServicesStep

LEMMA MainTypes ==
    ASSUME TypeOK, AwaitedInOrder,
           \/ EndpointEnds \/ EndpointFails \/ ExecutorEnds \/ WorkerEnds
           \/ Stop \/ AwaitNext \/ Down \/ UNCHANGED vars
    PROVE  TypeOK'
  <1> USE AwaitedTasks DEF TypeOK, mainVars, providerVars, serviceVars, monitorVars
  <1>1. {"endpoint", "executor", "worker"} \subseteq Task
    BY DEF Task
  <1>2. CASE EndpointEnds \/ EndpointFails \/ ExecutorEnds \/ WorkerEnds
    BY <1>1, <1>2 DEF EndpointEnds, EndpointFails, ExecutorEnds, WorkerEnds, Returns
  <1>3. CASE Stop
    <2>1. token' \in BOOLEAN
      BY <1>3 DEF Stop
    <2> QED
      BY <1>3, <2>1 DEF Stop
  <1>4. CASE Down \/ UNCHANGED vars
    BY <1>4 DEF Down, vars
  <1>5. CASE AwaitNext
    <2>1. awaiting' \in 1 .. Len(Awaited) + 1
      BY <1>5 DEF AwaitNext, AwaitedInOrder, Alive
    <2> QED
      BY <1>5, <2>1 DEF AwaitNext
  <1> QED
    BY <1>2, <1>3, <1>4, <1>5

\* Type correctness of the life cycle: what is being unregistered is registered, a service
\* that is stopping was told to, and stop() never awaits past its last handle.
THEOREM ManagerTypeCorrect == Safety => []TypeOK
  <1>1. TypeOK /\ AwaitedInOrder /\ [Next]_vars => TypeOK'
    BY MonitorTypes, ServiceTypes, MainTypes DEF Next
  <1>2. LifeInv => AwaitedInOrder
    BY DEF LifeInv
  <1> QED
    BY <1>1, <1>2, TypeInit, LifeInvariant, PTL DEF Safety

==============================================================================
