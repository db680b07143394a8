----------------------------- MODULE FleetProofs -----------------------------
(***************************************************************************)
(* Proofs about Fleet: for every number of partitions and every size of    *)
(* the fleet, each partition has one owner when a deploy is over, and a    *)
(* process falls behind Redis only where another shared its partition or   *)
(* where a failure took its update.                                        *)
(***************************************************************************)
EXTENDS Fleet, TLAPS

\* checker_number .. total_partitions in steps of total_checkers are the partitions
\* with the remainder checker_number.
LEMMA OwnedByRemainder ==
    ASSUME NEW total_checkers \in Nat \ {0}, NEW checker_number \in 0 .. total_checkers - 1,
           NEW part \in Partition
    PROVE  part \in DetermineOwnedPartitions(checker_number, total_checkers)
             <=> part % total_checkers = checker_number
  <1> DEFINE n == total_checkers
             c == checker_number
  <1>1. part \in Nat
    BY FleetAssumption DEF Partition
  <1>2. part \in DetermineOwnedPartitions(c, n) <=> \E k \in 0 .. part : part = c + k * n
    BY DEF DetermineOwnedPartitions
  <1>3. ASSUME NEW k \in 0 .. part, part = c + k * n
        PROVE  part % n = c
    <2>1. (n * k + c) % n = c
      OBVIOUS
    <2> QED
      BY <1>3, <2>1
  <1>4. ASSUME part % n = c
        PROVE  \E k \in 0 .. part : part = c + k * n
    <2> DEFINE k == part \div n
    <2>1. k \in Nat /\ part = n * k + c
      BY <1>1, <1>4
    <2> HIDE DEF k
    <2>2. n * k >= k
      BY <2>1
    <2> QED
      BY <1>1, <2>1, <2>2
  <1> QED
    BY <1>2, <1>3, <1>4

\* A process has the number of its environment and the size in the file.
LEMMA ExtractedConfig ==
    ASSUME TypeOK, NEW p \in Process, NEW n \in Nat
    PROVE  /\ Extract(File, Env(p, n)) \in Config
           /\ Extract(File, Env(p, n)).checker_number = n
           /\ Extract(File, Env(p, n)).total_checkers = total
  <1> DEFINE keys == { "checker_number", "total_checkers", "redis_readonly" }
             filed == Merge(DefaultConfig, File)
             c == Extract(File, Env(p, n))
  <1>1. total # None /\ n # None /\ total \in Nat
    BY FleetAssumption DEF TypeOK
  <1>2. TRUE # None /\ FALSE # None
    BY FleetAssumption, Zenon
  <1>3. DOMAIN DefaultConfig = keys
    BY DEF DefaultConfig
  <1>4. /\ DOMAIN filed = keys
        /\ filed["checker_number"] \in Nat
        /\ filed["total_checkers"] = total
    BY <1>1, <1>3 DEF Merge, DefaultConfig, File
  <1>5. filed["redis_readonly"] = FALSE
    BY <1>2, <1>3 DEF Merge, DefaultConfig, File
  <1>6. c = [k \in keys |-> IF Env(p, n)[k] = None THEN filed[k] ELSE Env(p, n)[k]]
    BY <1>4 DEF Extract, Merge
  <1>7. /\ Env(p, n)["checker_number"] = n
        /\ Env(p, n)["total_checkers"] = None
        /\ Env(p, n)["redis_readonly"] \in { TRUE, None }
    BY DEF Env
  <1>8. c["redis_readonly"] \in BOOLEAN
    BY <1>5, <1>6, <1>7
  <1>9. c["checker_number"] = n /\ c["total_checkers"] = total
    BY <1>1, <1>4, <1>6, <1>7
  <1> HIDE DEF c
  <1> QED
    BY <1>1, <1>6, <1>8, <1>9 DEF Config, c

\* A running process has its own number, below the size of its fleet.
NumberedBelowTotal ==
    \A p \in Running :
        /\ number[p] = config[p].checker_number
        /\ config[p].checker_number < config[p].total_checkers

\* A partition that another running process could take updates of is noted.
SharingIsNoted ==
    \A p \in Running, q \in Running :
        p # q /\ ~ config[q].redis_readonly => Owned(p) \cap Owned(q) \subseteq shared[p]

\* A process works on the updates of one partition.
OneAtATime == \A p \in Process : \A x, y \in fetching[p] : x = y

FleetInv ==
    TypeOK /\ NumberedBelowTotal /\ SharingIsNoted /\ OneAtATime /\ BehindOnlyWhenSharedOrLost

LEMMA FleetInvInit == Init => FleetInv
  <1> SUFFICES ASSUME Init PROVE FleetInv
    OBVIOUS
  <1> USE FleetAssumption
  <1>1. Running = {}
    BY DEF Init, Running
  <1>2. TypeOK
    BY DEF Init, TypeOK, Nothing, Owned
  <1> QED
    BY <1>1, <1>2 DEF Init, FleetInv, NumberedBelowTotal, SharingIsNoted, OneAtATime,
           BehindOnlyWhenSharedOrLost

\* A new process is noted by those that have a partition of its, and notes them.
LEMMA StartProcessInv ==
    ASSUME FleetInv, NEW p \in Process, NEW n \in 0 .. MaxCheckers - 1, StartProcess(p, n)
    PROVE  FleetInv'
  <1> DEFINE c == Extract(File, Env(p, n))
             mine == DetermineOwnedPartitions(c.checker_number, c.total_checkers)
  <1> USE FleetAssumption DEF FleetInv
  <1>1. c \in Config /\ c.checker_number = n /\ c.checker_number < c.total_checkers
    BY ExtractedConfig DEF StartProcess
  <1>2. /\ config[p] = None /\ config' = [config EXCEPT ![p] = c]
        /\ number' = [number EXCEPT ![p] = n]
        /\ UNCHANGED <<total, deploys, changes, loaded, fetching, lost, store, configs, updates>>
    BY DEF StartProcess, redisVars
  <1>3. Owned(p) = {} /\ loaded[p] = {} /\ fetching[p] = {}
    BY <1>2 DEF Owned, TypeOK
  <1>4. \A q \in Process : /\ q # p => config'[q] = config[q] /\ Owned(q)' = Owned(q)
                           /\ q = p => config'[q] = c
    BY <1>2 DEF Owned, TypeOK
  <1>5. Owned(p)' \subseteq mine /\ mine \subseteq Partition
    BY <1>4 DEF Owned, DetermineOwnedPartitions
  <1> HIDE DEF c, mine
  <1>6. /\ shared'[p] = Contended(c, Process)
        /\ \A q \in Process \ {p} :
              /\ shared[q] \subseteq shared'[q]
              /\ ~ c.redis_readonly => Owned(q) \cap mine \subseteq shared'[q]
    BY DEF StartProcess, c, mine
  <1>7. TypeOK'
    <2>1. shared' \in [Process -> SUBSET Partition]
      <3>1. \A q \in Process : Owned(q) \subseteq Partition
        BY DEF Owned, DetermineOwnedPartitions
      <3>2. Contended(c, Process) \subseteq Partition
        BY <1>5 DEF Contended, mine
      <3> QED
        BY <3>1, <3>2 DEF StartProcess, TypeOK, c
    <2>2. \A q \in Process : fetching'[q] \subseteq loaded'[q] /\ loaded'[q] \subseteq Owned(q)'
      BY <1>2, <1>3, <1>4 DEF TypeOK
    <2>3. config' \in [Process -> Config \cup {None}] /\ number' \in [Process -> Nat \cup {None}]
      BY <1>1, <1>2 DEF TypeOK
    <2> QED
      BY <1>2, <2>1, <2>2, <2>3 DEF TypeOK
  <1>8. NumberedBelowTotal'
    BY <1>1, <1>2, <1>4 DEF NumberedBelowTotal, Running, TypeOK
  <1>9. SharingIsNoted'
    <2> SUFFICES ASSUME NEW q \in Process, NEW r \in Process, q # r,
                        config'[q] # None, config'[r] # None, ~ config'[r].redis_readonly,
                        NEW part \in Owned(q)', part \in Owned(r)'
                 PROVE  part \in shared'[q]
      BY DEF SharingIsNoted, Running
    <2>1. CASE q = p
      BY <1>4, <1>5, <1>6, <2>1 DEF Contended, mine
    <2>2. CASE r = p
      BY <1>4, <1>5, <1>6, <2>2
    <2>3. CASE q # p /\ r # p
      BY <1>4, <1>6, <2>3 DEF SharingIsNoted, Running
    <2> QED
      BY <2>1, <2>2, <2>3
  <1>10. BehindOnlyWhenSharedOrLost'
    BY <1>2, <1>3, <1>4, <1>6 DEF BehindOnlyWhenSharedOrLost, Running
  <1>11. OneAtATime'
    BY <1>2 DEF OneAtATime
  <1> QED
    BY <1>7, <1>8, <1>9, <1>10, <1>11

\* Updates are taken by a process that is their only owner, or that shares them, and are
\* applied next or noted as lost.
LEMMA ConsumeInv ==
    ASSUME FleetInv, NEW p \in Process, NEW part \in Partition,
           ConsumeConfigUpdates(p, part) \/ ConsumeFails(p, part)
    PROVE  FleetInv'
  <1> USE FleetAssumption DEF FleetInv
  <1>1. /\ UNCHANGED <<total, deploys, changes, number, config, loaded, store, shared, configs>>
        /\ updates' = [updates EXCEPT ![part] = FALSE]
        /\ part \in Owned(p) /\ loaded[p] = Owned(p) /\ fetching[p] = {}
        /\ config[p] # None /\ ~ config[p].redis_readonly
        /\ \/ fetching' = [fetching EXCEPT ![p] = {part}] /\ lost' = [lost EXCEPT ![p] = @ \ {part}]
           \/ fetching' = fetching /\ lost' = [lost EXCEPT ![p] = @ \cup {part}]
    BY DEF ConsumeConfigUpdates, ConsumeFails, Visits, Polls
  <1>2. TypeOK'
    <2>1. \A q \in Process : Owned(q)' = Owned(q)
      BY <1>1 DEF Owned
    <2>2. /\ fetching' \in [Process -> SUBSET Partition]
          /\ lost' \in [Process -> SUBSET Partition]
      <3>1. {part} \in SUBSET Partition
        OBVIOUS
      <3>2. lost[p] \ {part} \in SUBSET Partition /\ lost[p] \cup {part} \in SUBSET Partition
        BY DEF TypeOK
      <3>3. fetching' \in [Process -> SUBSET Partition]
        BY <1>1, <3>1 DEF TypeOK
      <3>4. lost' \in [Process -> SUBSET Partition]
        BY <1>1, <3>2 DEF TypeOK
      <3> QED
        BY <3>3, <3>4
    <2>3. \A q \in Process : fetching'[q] \subseteq loaded'[q] /\ loaded'[q] \subseteq Owned(q)'
      BY <1>1, <2>1 DEF TypeOK
    <2>4. updates' \in [Partition -> BOOLEAN]
      BY <1>1 DEF TypeOK
    <2> QED
      BY <1>1, <2>2, <2>3, <2>4 DEF TypeOK
  <1>3. NumberedBelowTotal' /\ SharingIsNoted' /\ OneAtATime'
    BY <1>1 DEF NumberedBelowTotal, SharingIsNoted, OneAtATime, Running, Owned, TypeOK
  <1>4. BehindOnlyWhenSharedOrLost'
    <2> SUFFICES ASSUME NEW q \in Running, NEW other \in Partition,
                        ~ config[q].redis_readonly, other \in loaded[q],
                        ~ updates'[other], other \notin fetching'[q]
                 PROVE  store[q][other] = configs[other] \/ other \in shared[q] \/ other \in lost'[q]
      BY <1>1 DEF BehindOnlyWhenSharedOrLost, Running
    <2>1. CASE other # part
      <3>1. q \in Process
        BY DEF Running
      <3>2. updates'[other] = updates[other]
        BY <1>1, <2>1 DEF TypeOK
      <3>3. other \in fetching[q] => other \in fetching'[q]
        BY <1>1, <3>1 DEF TypeOK
      <3>4. other \in lost[q] => other \in lost'[q]
        BY <1>1, <2>1, <3>1 DEF TypeOK
      <3> QED
        BY <3>2, <3>3, <3>4 DEF BehindOnlyWhenSharedOrLost
    <2>2. CASE other = part /\ q = p
      BY <1>1, <2>2 DEF TypeOK, Running
    <2>3. CASE other = part /\ q # p
      <3>1. other \in Owned(q) /\ other \in Owned(p)
        BY <1>1, <2>3 DEF TypeOK, Running
      <3> QED
        BY <1>1, <2>3, <3>1 DEF SharingIsNoted, Running
    <2> QED
      BY <2>1, <2>2, <2>3
  <1> QED
    BY <1>2, <1>3, <1>4

LEMMA FleetInvStep == FleetInv /\ [Next]_vars => FleetInv'
  <1> SUFFICES ASSUME FleetInv, [Next]_vars PROVE FleetInv'
    OBVIOUS
  <1> USE FleetAssumption DEF FleetInv
  <1>1. ASSUME NEW part \in Partition, Change(part)
        PROVE  FleetInv'
    <2>1. UNCHANGED <<number, config, loaded, fetching, lost, store, shared, total, deploys>>
      BY <1>1 DEF Change, processVars
    <2>2. TypeOK'
      BY <1>1, <2>1 DEF Change, TypeOK, Owned
    <2>3. NumberedBelowTotal' /\ SharingIsNoted' /\ OneAtATime'
      BY <2>1 DEF NumberedBelowTotal, SharingIsNoted, OneAtATime, Running, Owned
    <2>4. BehindOnlyWhenSharedOrLost'
      BY <1>1, <2>1 DEF Change, TypeOK, BehindOnlyWhenSharedOrLost, Running
    <2> QED
      BY <2>2, <2>3, <2>4
  <1>2. ASSUME NEW n \in 1 .. MaxCheckers, Deploy(n)
        PROVE  FleetInv'
    <2>1. UNCHANGED <<number, config, loaded, fetching, lost, store, shared, changes, configs, updates>>
      BY <1>2 DEF Deploy, processVars, redisVars
    <2>2. TypeOK'
      BY <1>2, <2>1 DEF Deploy, TypeOK, Owned
    <2> QED
      BY <2>1, <2>2 DEF NumberedBelowTotal, SharingIsNoted, OneAtATime, BehindOnlyWhenSharedOrLost, Running, Owned
  <1>3. ASSUME NEW p \in Process, NEW n \in 0 .. MaxCheckers - 1, StartProcess(p, n)
        PROVE  FleetInv'
    BY <1>3, StartProcessInv
  <1>4. ASSUME NEW p \in Process, StopProcess(p)
        PROVE  FleetInv'
    <2>1. \A q \in Process :
              /\ q # p => /\ config'[q] = config[q] /\ Owned(q)' = Owned(q)
                         /\ shared'[q] = shared[q] /\ store'[q] = store[q]
                         /\ loaded'[q] = loaded[q] /\ fetching'[q] = fetching[q]
                         /\ lost'[q] = lost[q]
                         /\ number'[q] = number[q]
              /\ q = p => config'[q] = None
      BY <1>4 DEF StopProcess, TypeOK, Owned
    <2>2. TypeOK'
      <3>1. store' \in [Process -> [Partition -> 0 .. MaxChanges]]
        BY <1>4 DEF StopProcess, TypeOK, Nothing
      <3>2. \A q \in Process : fetching'[q] \subseteq loaded'[q] /\ loaded'[q] \subseteq Owned(q)'
        BY <1>4, <2>1 DEF StopProcess, TypeOK
      <3> QED
        BY <1>4, <3>1, <3>2 DEF StopProcess, TypeOK, redisVars
    <2>3. NumberedBelowTotal' /\ SharingIsNoted'
      BY <2>1 DEF NumberedBelowTotal, SharingIsNoted, Running
    <2>4. OneAtATime'
      BY <1>4, <2>1 DEF StopProcess, OneAtATime, TypeOK
    <2>5. BehindOnlyWhenSharedOrLost'
      BY <1>4, <2>1 DEF StopProcess, redisVars, BehindOnlyWhenSharedOrLost, Running
    <2> QED
      BY <2>2, <2>3, <2>4, <2>5
  <1>5. ASSUME NEW p \in Process, NEW part \in Partition, LoadInitialConfigs(p, part)
        PROVE  FleetInv'
    <2>1. /\ UNCHANGED <<total, deploys, changes, number, config, fetching, lost, shared, configs, updates>>
          /\ store' = [store EXCEPT ![p][part] = configs[part]]
          /\ loaded' = [loaded EXCEPT ![p] = @ \cup {part}]
          /\ part \in Owned(p) \ loaded[p]
      BY <1>5 DEF LoadInitialConfigs, redisVars
    <2>2. TypeOK'
      BY <2>1 DEF TypeOK, Owned
    <2>3. NumberedBelowTotal' /\ SharingIsNoted' /\ OneAtATime'
      BY <2>1 DEF NumberedBelowTotal, SharingIsNoted, OneAtATime, Running, Owned
    <2>4. BehindOnlyWhenSharedOrLost'
      BY <2>1 DEF TypeOK, BehindOnlyWhenSharedOrLost, Running
    <2> QED
      BY <2>2, <2>3, <2>4
  <1>6. ASSUME NEW p \in Process, NEW part \in Partition,
               ConsumeConfigUpdates(p, part) \/ ConsumeFails(p, part)
        PROVE  FleetInv'
    BY <1>6, ConsumeInv
  <1>7. ASSUME NEW p \in Process, NEW part \in Partition,
               GetConfigKeyPayloads(p, part) \/ GetPayloadsFails(p, part)
        PROVE  FleetInv'
    <2>1. /\ UNCHANGED <<total, deploys, changes, number, config, loaded, shared, configs, updates>>
          /\ fetching' = [fetching EXCEPT ![p] = {}] /\ part \in fetching[p]
          /\ \/ store' = [store EXCEPT ![p][part] = configs[part]] /\ lost' = lost
             \/ store' = store /\ lost' = [lost EXCEPT ![p] = @ \cup {part}]
      BY <1>7 DEF GetConfigKeyPayloads, GetPayloadsFails, redisVars
    <2>2. TypeOK'
      <3>1. \A q \in Process : Owned(q)' = Owned(q)
        BY <2>1 DEF Owned
      <3>2. /\ fetching' \in [Process -> SUBSET Partition]
            /\ lost' \in [Process -> SUBSET Partition]
        <4>1. {} \in SUBSET Partition
          OBVIOUS
        <4>2. lost[p] \cup {part} \in SUBSET Partition
          BY DEF TypeOK
        <4>3. fetching' \in [Process -> SUBSET Partition]
          BY <2>1, <4>1 DEF TypeOK
        <4>4. lost' \in [Process -> SUBSET Partition]
          BY <2>1, <4>2 DEF TypeOK
        <4> QED
          BY <4>3, <4>4
      <3>3. store' \in [Process -> [Partition -> 0 .. MaxChanges]]
        <4>1. CASE store' = store
          BY <4>1 DEF TypeOK
        <4>2. CASE store' = [store EXCEPT ![p][part] = configs[part]]
          BY <4>2 DEF TypeOK
        <4> QED
          BY <2>1, <4>1, <4>2
      <3>4. \A q \in Process : fetching'[q] \subseteq loaded'[q] /\ loaded'[q] \subseteq Owned(q)'
        BY <2>1, <3>1 DEF TypeOK
      <3> QED
        BY <2>1, <3>2, <3>3, <3>4 DEF TypeOK
    <2>3. NumberedBelowTotal' /\ SharingIsNoted' /\ OneAtATime'
      BY <2>1 DEF NumberedBelowTotal, SharingIsNoted, OneAtATime, Running, Owned, TypeOK
    <2>4. \A other \in Partition : other \in fetching[p] => other = part
      BY <2>1 DEF OneAtATime
    <2>5. BehindOnlyWhenSharedOrLost'
      BY <2>1, <2>4 DEF TypeOK, BehindOnlyWhenSharedOrLost, Running
    <2> QED
      BY <2>2, <2>3, <2>5
  <1>8. CASE UNCHANGED vars
    BY <1>8 DEF vars, processVars, redisVars, TypeOK, NumberedBelowTotal, SharingIsNoted, OneAtATime,
           BehindOnlyWhenSharedOrLost, Running, Owned
  <1> QED
    BY <1>1, <1>2, <1>3, <1>4, <1>5, <1>6, <1>7, <1>8 DEF Next

LEMMA FleetInvariant == Spec => []FleetInv
  BY FleetInvInit, FleetInvStep, PTL DEF Spec

\* Once every process of a deploy runs, each partition has exactly one owner, for
\* every number of partitions and checkers.
THEOREM OneOwnerHolds == Spec => []OneOwner
  <1>1. FleetInv => OneOwner
    <2> SUFFICES ASSUME FleetInv, Complete, NEW part \in Partition
                 PROVE  \E p \in Running : \A q \in Running : part \in Owned(q) <=> q = p
      BY DEF OneOwner
    <2> DEFINE n == part % total
    <2>1. total \in Nat \ {0} /\ part \in Nat
      BY FleetAssumption DEF FleetInv, TypeOK, Partition
    <2>2. n \in 0 .. total - 1
      BY <2>1
    <2>3. ASSUME NEW q \in Running
          PROVE  part \in Owned(q) <=> number[q] = n
      <3>1. /\ config[q] \in Config /\ config[q] # None /\ config[q].total_checkers = total
            /\ config[q].checker_number = number[q] /\ number[q] < total
        BY DEF Running, Complete, FleetInv, TypeOK, NumberedBelowTotal
      <3>2. number[q] \in 0 .. total - 1
        BY <2>1, <3>1 DEF Config
      <3>3. Owned(q) = DetermineOwnedPartitions(number[q], total)
        BY <3>1 DEF Owned
      <3> QED
        BY <2>1, <3>2, <3>3, OwnedByRemainder
    <2>4. PICK p \in Running : number[p] = n /\ \A q \in Running : number[q] = n => q = p
      BY <2>2 DEF Complete
    <2> QED
      BY <2>3, <2>4
  <1> QED
    BY <1>1, FleetInvariant, PTL

\* A process that polls falls behind Redis only where another that polls had the
\* partition while both ran, or where a failed command or a payload that does not parse
\* took the update of a process that had it alone: a change consumed by a process that
\* died, or made when a partition had no owner, is not lost on the next owner.
THEOREM BehindOnlyWhenSharedOrLostHolds == Spec => []BehindOnlyWhenSharedOrLost
  <1>1. FleetInv => BehindOnlyWhenSharedOrLost
    BY DEF FleetInv
  <1> QED
    BY <1>1, FleetInvariant, PTL

==============================================================================
