------------------------ MODULE ConfigProviderProofs ------------------------
(***************************************************************************)
(* Proof that a checker that has its partitions to itself loses a change   *)
(* of a config only with a failed command or an update that does not       *)
(* parse, for any number of partitions, subscriptions, writes, crashes and *)
(* read-only checkers beside it.                                           *)
(***************************************************************************)
EXTENDS ConfigProvider, TLAPS

\* One run of the checker polls the partitions.
OneOwner == \A p, q \in Process \ ReadOnly : p = q

\* The latest recorded update of a subscription says what has become of it.
UpdatesAgree ==
    \A s \in Subscription :
        /\ unannounced[s] = "upsert" => configs[s] # None
        /\ unannounced[s] = "delete" => configs[s] = None
        /\ unannounced[s] = None /\ updates[s] = "upsert" => configs[s] # None
        /\ unannounced[s] = None /\ updates[s] = "delete" => configs[s] = None

\* A read-only process never polls.
ReadersDoNotPoll == \A p \in ReadOnly : monitor[p] # "poll"

\* What the monitor holds between two commands.
MonitorHolds ==
    \A p \in Process \ ReadOnly :
        /\ monitor[p] # "ended"
        /\ monitor[p] = "down" => at[p] = None
        /\ at[p] = None => upserts[p] = {} /\ deletes[p] = {} /\ payloads[p] = Nothing
        /\ upserts[p] # {} \/ deletes[p] # {} => monitor[p] = "poll" /\ payloads[p] = Nothing
        /\ \A s \in Subscription :
              /\ s \in upserts[p] \/ payloads[p][s] # None => Home[s] = at[p]
              /\ ~ Loaded(p, s) => store[p][s] = None

\* The next change of s is on its way.
Pends(s) == unannounced[s] # None \/ updates[s] # None

\* A payload or a consumed update that Redis has overtaken will be followed by
\* another.
OvertakenIsPending ==
    \A p \in Process \ ReadOnly, s \in Subscription :
        /\ payloads[p][s] # None => Pends(s) \/ payloads[p][s] = configs[s]
        /\ s \in upserts[p] => Pends(s) \/ configs[s] # None
        /\ s \in deletes[p] => Pends(s) \/ configs[s] = None

\* The inductive invariant.
ProviderInv ==
    /\ TypeOK
    /\ UpdatesAgree
    /\ ReadersDoNotPoll
    /\ MonitorHolds
    /\ OvertakenIsPending
    /\ OnlyErrorsLose

------------------------------------------------------------------------------
\* Every step keeps the types: in particular the stores never hold a version
\* that cannot be read.
LEMMA TypeOKStep == TypeOK /\ [Next]_vars => TypeOK'
  <1> SUFFICES ASSUME TypeOK, [Next]_vars PROVE TypeOK'
    OBVIOUS
  <1> USE ProviderAssumption DEF TypeOK, redisVars, writerVars, monitorVars
  <1>1. ASSUME NEW s \in Subscription, WriteConfig(s)
       PROVE  TypeOK'
    BY <1>1 DEF WriteConfig, Write, Version, Action
  <1>2. ASSUME NEW s \in Subscription, DeleteConfig(s)
       PROVE  TypeOK'
    BY <1>2 DEF DeleteConfig, Write, Action
  <1>3. ASSUME NEW s \in Subscription, Announce(s)
       PROVE  TypeOK'
    BY <1>3 DEF Announce, Update
  <1>4. ASSUME NEW p \in Process, Start(p)
       PROVE  TypeOK'
    BY <1>4 DEF Start, Monitor
  <1>5. ASSUME NEW p \in Process, Crash(p)
       PROVE  TypeOK'
    BY <1>5 DEF Crash, Monitor, Nothing
  <1>6. ASSUME NEW p \in Process, EndLoad(p)
       PROVE  TypeOK'
    BY <1>6 DEF EndLoad, Monitor
  <1>7. ASSUME NEW p \in Process, BeginRound(p)
       PROVE  TypeOK'
    BY <1>7 DEF BeginRound
  <1>8. ASSUME NEW p \in Process, EndPartition(p)
       PROVE  TypeOK'
    BY <1>8 DEF EndPartition
  <1>9. ASSUME NEW p \in Process, GetConfigKeyPayloads(p)
       PROVE  TypeOK'
    BY <1>9 DEF GetConfigKeyPayloads, Fetched
  <1>10. ASSUME NEW p \in Process, GetPayloadsFails(p)
       PROVE  TypeOK'
    BY <1>10 DEF GetPayloadsFails, RoundFails
  <1>11. ASSUME NEW p \in Process, NEW part \in Partition, ReadConfigs(p, part)
       PROVE  TypeOK'
    BY <1>11 DEF ReadConfigs, Fetched, Of
  <1>12. ASSUME NEW p \in Process, NEW part \in Partition, ConsumeConfigUpdates(p, part)
       PROVE  TypeOK'
    BY <1>12 DEF ConsumeConfigUpdates, Consumed, Pending, Of
  <1>13. ASSUME NEW p \in Process, NEW part \in Partition, ConsumeFails(p, part)
       PROVE  TypeOK'
    <2>1. updates' \in [Subscription -> Update \cup {None}]
      BY <1>13 DEF ConsumeFails, Consumed
    <2>2. PICK lost \in SUBSET Subscription : RoundFails(p, lost)
      BY <1>13 DEF ConsumeFails, Of
    <2> QED
      BY <2>1, <2>2 DEF RoundFails
  <1>14. ASSUME NEW p \in Process, NEW s \in Subscription, AddConfig(p, s)
       PROVE  TypeOK'
    BY <1>14 DEF AddConfig
  <1>15. ASSUME NEW p \in Process, NEW s \in Subscription, RemoveConfig(p, s)
       PROVE  TypeOK'
    BY <1>15 DEF RemoveConfig
  <1>16. CASE UNCHANGED vars
    BY <1>16 DEF vars
  <1> QED
    BY <1>1, <1>2, <1>3, <1>4, <1>5, <1>6, <1>7, <1>8, <1>9, <1>10, <1>11,
       <1>12, <1>13, <1>14, <1>15, <1>16
    DEF Next, MonitorStep

\* Every step keeps the invariant.
LEMMA ProviderInvStep ==
    ASSUME OneOwner
    PROVE  ProviderInv /\ [Next]_vars => ProviderInv'
  <1> SUFFICES ASSUME ProviderInv, [Next]_vars PROVE ProviderInv'
    OBVIOUS
  <1> USE ProviderAssumption DEF ProviderInv, TypeOK, redisVars, writerVars, monitorVars
  <1>0. TypeOK'
    BY TypeOKStep
  <1>1. ASSUME NEW s \in Subscription, WriteConfig(s)
       PROVE  ProviderInv'
    <2>1. UpdatesAgree' /\ ReadersDoNotPoll'
      BY <1>1 DEF UpdatesAgree, ReadersDoNotPoll, WriteConfig, Write, Version
    <2>2. MonitorHolds'
      BY <1>1 DEF MonitorHolds, Loaded, WriteConfig, Write
    <2>3. OvertakenIsPending'
      BY <1>1 DEF MonitorHolds, OvertakenIsPending, Pends, WriteConfig, Write
    <2>4. OnlyErrorsLose'
      BY <1>1 DEF MonitorHolds, OvertakenIsPending, OnlyErrorsLose, Loaded, InSync,
             Underway, Pends, WriteConfig, Write
    <2> QED
      BY <1>0, <2>1, <2>2, <2>3, <2>4
  <1>2. ASSUME NEW s \in Subscription, DeleteConfig(s)
       PROVE  ProviderInv'
    <2>1. UpdatesAgree' /\ ReadersDoNotPoll'
      BY <1>2 DEF UpdatesAgree, ReadersDoNotPoll, DeleteConfig, Write
    <2>2. MonitorHolds'
      BY <1>2 DEF MonitorHolds, Loaded, DeleteConfig, Write
    <2>3. OvertakenIsPending'
      BY <1>2 DEF MonitorHolds, OvertakenIsPending, Pends, DeleteConfig, Write
    <2>4. OnlyErrorsLose'
      BY <1>2 DEF MonitorHolds, OvertakenIsPending, OnlyErrorsLose, Loaded, InSync,
             Underway, Pends, DeleteConfig, Write
    <2> QED
      BY <1>0, <2>1, <2>2, <2>3, <2>4
  <1>3. ASSUME NEW s \in Subscription, Announce(s)
       PROVE  ProviderInv'
    <2>1. UpdatesAgree' /\ ReadersDoNotPoll'
      BY <1>3 DEF UpdatesAgree, ReadersDoNotPoll, Announce, Update, Action
    <2>2. MonitorHolds'
      BY <1>3 DEF MonitorHolds, Loaded, Announce
    <2>3. OvertakenIsPending'
      BY <1>3 DEF MonitorHolds, OvertakenIsPending, Pends, Announce
    <2>4. OnlyErrorsLose'
      BY <1>3 DEF MonitorHolds, OvertakenIsPending, OnlyErrorsLose, Loaded, InSync,
             Underway, Pends, Announce
    <2> QED
      BY <1>0, <2>1, <2>2, <2>3, <2>4
  <1>4. ASSUME NEW p \in Process, Start(p)
       PROVE  ProviderInv'
    <2>1. UpdatesAgree' /\ ReadersDoNotPoll'
      BY <1>4 DEF UpdatesAgree, ReadersDoNotPoll, Start
    <2>2. MonitorHolds'
      BY <1>4 DEF MonitorHolds, Loaded, Start
    <2>3. OvertakenIsPending'
      BY <1>4 DEF MonitorHolds, OvertakenIsPending, Pends, Start
    <2>4. OnlyErrorsLose'
      BY <1>4 DEF MonitorHolds, OvertakenIsPending, OnlyErrorsLose, Loaded, InSync,
             Underway, Pends, Start
    <2> QED
      BY <1>0, <2>1, <2>2, <2>3, <2>4
  <1>5. ASSUME NEW p \in Process, Crash(p)
       PROVE  ProviderInv'
    <2>1. UpdatesAgree' /\ ReadersDoNotPoll'
      BY <1>5 DEF UpdatesAgree, ReadersDoNotPoll, Crash
    <2>2. MonitorHolds'
      BY <1>5 DEF MonitorHolds, Loaded, Crash, Nothing
    <2>3. OvertakenIsPending'
      BY <1>5 DEF MonitorHolds, OvertakenIsPending, Pends, Crash, Nothing
    <2>4. OnlyErrorsLose'
      BY <1>5 DEF MonitorHolds, OvertakenIsPending, OnlyErrorsLose, Loaded, InSync,
             Underway, Pends, Crash, Nothing
    <2> QED
      BY <1>0, <2>1, <2>2, <2>3, <2>4
  <1>6. ASSUME NEW p \in Process, EndLoad(p)
       PROVE  ProviderInv'
    <2>1. UpdatesAgree' /\ ReadersDoNotPoll'
      BY <1>6 DEF UpdatesAgree, ReadersDoNotPoll, EndLoad
    <2>2. MonitorHolds'
      BY <1>6 DEF MonitorHolds, Loaded, EndLoad
    <2>3. OvertakenIsPending'
      BY <1>6 DEF MonitorHolds, OvertakenIsPending, Pends, EndLoad
    <2>4. OnlyErrorsLose'
      BY <1>6 DEF MonitorHolds, OvertakenIsPending, OnlyErrorsLose, Loaded, InSync,
             Underway, Pends, EndLoad
    <2> QED
      BY <1>0, <2>1, <2>2, <2>3, <2>4
  <1>7. ASSUME NEW p \in Process, BeginRound(p)
       PROVE  ProviderInv'
    <2>1. UpdatesAgree' /\ ReadersDoNotPoll'
      BY <1>7 DEF UpdatesAgree, ReadersDoNotPoll, BeginRound
    <2>2. MonitorHolds'
      BY <1>7 DEF MonitorHolds, Loaded, BeginRound
    <2>3. OvertakenIsPending'
      BY <1>7 DEF MonitorHolds, OvertakenIsPending, Pends, BeginRound
    <2>4. OnlyErrorsLose'
      BY <1>7 DEF MonitorHolds, OvertakenIsPending, OnlyErrorsLose, Loaded, InSync,
             Underway, Pends, BeginRound
    <2> QED
      BY <1>0, <2>1, <2>2, <2>3, <2>4
  <1>8. ASSUME NEW p \in Process, EndPartition(p)
       PROVE  ProviderInv'
    <2>1. UpdatesAgree' /\ ReadersDoNotPoll'
      BY <1>8 DEF UpdatesAgree, ReadersDoNotPoll, EndPartition
    <2>2. MonitorHolds'
      BY <1>8 DEF MonitorHolds, Loaded, EndPartition, Nothing
    <2>3. OvertakenIsPending'
      BY <1>8 DEF MonitorHolds, OvertakenIsPending, Pends, EndPartition, Nothing
    <2>4. OnlyErrorsLose'
      BY <1>8 DEF MonitorHolds, OvertakenIsPending, OnlyErrorsLose, Loaded, InSync,
             Underway, Pends, EndPartition, Nothing
    <2> QED
      BY <1>0, <2>1, <2>2, <2>3, <2>4
  <1>9. ASSUME NEW p \in Process, GetConfigKeyPayloads(p)
       PROVE  ProviderInv'
    <2>1. UpdatesAgree' /\ ReadersDoNotPoll'
      BY <1>9 DEF UpdatesAgree, ReadersDoNotPoll, GetConfigKeyPayloads, Fetched
    <2>2. MonitorHolds'
      BY <1>9 DEF MonitorHolds, Loaded, GetConfigKeyPayloads, Fetched, Nothing
    <2>3. OvertakenIsPending'
      BY <1>9 DEF MonitorHolds, OvertakenIsPending, Pends, GetConfigKeyPayloads,
             Fetched, Nothing
    <2>4. OnlyErrorsLose'
      BY <1>9 DEF MonitorHolds, OvertakenIsPending, OnlyErrorsLose, Loaded, InSync,
             Underway, Pends, GetConfigKeyPayloads, Fetched, Nothing
    <2> QED
      BY <1>0, <2>1, <2>2, <2>3, <2>4
  <1>10. ASSUME NEW p \in Process, GetPayloadsFails(p)
       PROVE  ProviderInv'
    <2>1. UpdatesAgree' /\ ReadersDoNotPoll'
      BY <1>10 DEF UpdatesAgree, ReadersDoNotPoll, GetPayloadsFails, RoundFails
    <2>2. MonitorHolds'
      BY <1>10 DEF MonitorHolds, Loaded, GetPayloadsFails, RoundFails, Nothing
    <2>3. OvertakenIsPending'
      BY <1>10 DEF MonitorHolds, OvertakenIsPending, Pends, GetPayloadsFails,
             RoundFails, Nothing
    <2>4. OnlyErrorsLose'
      BY <1>10 DEF MonitorHolds, OvertakenIsPending, OnlyErrorsLose, Loaded, InSync,
             Underway, Pends, GetPayloadsFails, RoundFails, Nothing
    <2> QED
      BY <1>0, <2>1, <2>2, <2>3, <2>4
  <1>11. ASSUME NEW p \in Process, NEW part \in Partition, ReadConfigs(p, part)
       PROVE  ProviderInv'
    <2>1. UpdatesAgree' /\ ReadersDoNotPoll'
      BY <1>11 DEF UpdatesAgree, ReadersDoNotPoll, ReadConfigs, Fetched, Of
    <2>2. MonitorHolds'
      BY <1>11 DEF MonitorHolds, Loaded, ReadConfigs, Fetched, Of, Nothing
    <2>3. OvertakenIsPending'
      BY <1>11 DEF MonitorHolds, OvertakenIsPending, Pends, ReadConfigs, Fetched,
             Of, Nothing
    <2>4. OnlyErrorsLose'
      BY <1>11 DEF MonitorHolds, OvertakenIsPending, OnlyErrorsLose, Loaded, InSync,
             Underway, Pends, ReadConfigs, Fetched, Of, Nothing
    <2> QED
      BY <1>0, <2>1, <2>2, <2>3, <2>4
  <1>12. ASSUME NEW p \in Process, NEW part \in Partition, ConsumeConfigUpdates(p, part)
       PROVE  ProviderInv'
    <2>1. UpdatesAgree' /\ ReadersDoNotPoll'
      BY <1>12 DEF UpdatesAgree, ReadersDoNotPoll, ConsumeConfigUpdates, Consumed,
             Pending, Of
    <2>2. MonitorHolds'
      BY <1>12 DEF ReadersDoNotPoll, MonitorHolds, Loaded, ConsumeConfigUpdates,
             Consumed, Pending, Of, Nothing
    <2>3. OvertakenIsPending'
      BY <1>12 DEF OneOwner, ReadersDoNotPoll, UpdatesAgree, MonitorHolds,
             OvertakenIsPending, Pends, ConsumeConfigUpdates, Consumed, Pending, Of,
             Nothing
    <2>4. OnlyErrorsLose'
      BY <1>12 DEF OneOwner, ReadersDoNotPoll, MonitorHolds, OvertakenIsPending,
             OnlyErrorsLose, Loaded, InSync, Underway, Pends, ConsumeConfigUpdates,
             Consumed, Pending, Of, Nothing, Update, Action
    <2> QED
      BY <1>0, <2>1, <2>2, <2>3, <2>4
  <1>13. ASSUME NEW p \in Process, NEW part \in Partition, ConsumeFails(p, part)
       PROVE  ProviderInv'
    <2>1. UpdatesAgree' /\ ReadersDoNotPoll'
      BY <1>13 DEF UpdatesAgree, ReadersDoNotPoll, ConsumeFails, Consumed,
             RoundFails, Of
    <2>2. MonitorHolds'
      <3>1. PICK lost : RoundFails(p, lost)
        BY <1>13 DEF ConsumeFails
      <3>2. monitor[p] = "poll" /\ at[p] = None
        BY <1>13 DEF ConsumeFails
      <3> QED
        BY <3>1, <3>2 DEF ReadersDoNotPoll, MonitorHolds, Loaded, RoundFails, Nothing
    <2>3. OvertakenIsPending'
      BY <1>13 DEF OneOwner, ReadersDoNotPoll, UpdatesAgree, MonitorHolds,
             OvertakenIsPending, Pends, ConsumeFails, Consumed, RoundFails, Of,
             Nothing
    <2>4. OnlyErrorsLose'
      BY <1>13 DEF OneOwner, ReadersDoNotPoll, MonitorHolds, OvertakenIsPending,
             OnlyErrorsLose, Loaded, InSync, Underway, Pends, ConsumeFails,
             Consumed, RoundFails, Of, Nothing, Update, Action
    <2> QED
      BY <1>0, <2>1, <2>2, <2>3, <2>4
  <1>14. ASSUME NEW p \in Process, NEW s \in Subscription, AddConfig(p, s)
       PROVE  ProviderInv'
    <2>1. UpdatesAgree' /\ ReadersDoNotPoll'
      BY <1>14 DEF UpdatesAgree, ReadersDoNotPoll, AddConfig
    <2>2. MonitorHolds'
      BY <1>14 DEF MonitorHolds, Loaded, AddConfig, Nothing, Monitor
    <2>3. OvertakenIsPending'
      BY <1>14 DEF MonitorHolds, OvertakenIsPending, Pends, AddConfig, Nothing
    <2>4. OnlyErrorsLose'
      BY <1>14 DEF MonitorHolds, OvertakenIsPending, OnlyErrorsLose, Loaded, InSync,
             Underway, Pends, AddConfig, Nothing
    <2> QED
      BY <1>0, <2>1, <2>2, <2>3, <2>4
  <1>15. ASSUME NEW p \in Process, NEW s \in Subscription, RemoveConfig(p, s)
       PROVE  ProviderInv'
    <2>1. UpdatesAgree' /\ ReadersDoNotPoll'
      BY <1>15 DEF UpdatesAgree, ReadersDoNotPoll, RemoveConfig
    <2>2. MonitorHolds'
      BY <1>15 DEF MonitorHolds, Loaded, RemoveConfig, Nothing
    <2>3. OvertakenIsPending'
      BY <1>15 DEF MonitorHolds, OvertakenIsPending, Pends, RemoveConfig, Nothing
    <2>4. OnlyErrorsLose'
      BY <1>15 DEF MonitorHolds, OvertakenIsPending, OnlyErrorsLose, Loaded, InSync,
             Underway, Pends, RemoveConfig, Nothing
    <2> QED
      BY <1>0, <2>1, <2>2, <2>3, <2>4
  <1>16. CASE UNCHANGED vars
    BY <1>16 DEF vars, UpdatesAgree, ReadersDoNotPoll, MonitorHolds,
           OvertakenIsPending, OnlyErrorsLose, Loaded, InSync, Underway, Pends
  <1> QED
    BY <1>1, <1>2, <1>3, <1>4, <1>5, <1>6, <1>7, <1>8, <1>9, <1>10, <1>11,
       <1>12, <1>13, <1>14, <1>15, <1>16
    DEF Next, MonitorStep

\* The type invariant holds for every value of the constants.
THEOREM ProviderTypeCorrect == Safety => []TypeOK
  <1>1. Init => TypeOK
    BY ProviderAssumption DEF Init, TypeOK, Monitor, Version, Nothing
  <1> QED
    BY <1>1, TypeOKStep, PTL DEF Safety

\* Where one run of the checker polls the partitions, a change of a config is
\* lost only with the answer of a failed command or with an update that consume_config_updates
\* cannot parse.
THEOREM ChangesReachTheStore ==
    ASSUME OneOwner
    PROVE  Safety => []OnlyErrorsLose
  <1>1. Init => ProviderInv
    <2> SUFFICES ASSUME Init PROVE ProviderInv
      OBVIOUS
    <2>1. TypeOK
      BY ProviderAssumption DEF Init, TypeOK, Monitor, Version, Nothing
    <2>2. UpdatesAgree /\ ReadersDoNotPoll /\ OvertakenIsPending
      BY ProviderAssumption DEF Init, UpdatesAgree, ReadersDoNotPoll, OvertakenIsPending, Nothing
    <2>3. MonitorHolds /\ OnlyErrorsLose
      BY ProviderAssumption DEF Init, MonitorHolds, OnlyErrorsLose, Loaded, Nothing
    <2> QED
      BY <2>1, <2>2, <2>3 DEF ProviderInv
  <1>2. ProviderInv => OnlyErrorsLose
    BY DEF ProviderInv
  <1> QED
    BY <1>1, <1>2, ProviderInvStep, PTL DEF Safety

==============================================================================
