--------------------------- MODULE SchedulerProofs ---------------------------
(***************************************************************************)
(* Proofs about Scheduler: its types, and that the watermark never covers  *)
(* a tick with a missing result unless a process is told to stop or the    *)
(* producer fails.                                                         *)
(***************************************************************************)
EXTENDS Scheduler, TLAPS

\* The definitions every step of the type proof expands.
LEMMA InitType == Init => TypeOK
  BY SchedulerAssumption
  DEF Init, PromiseInit, TypeOK, PromiseTypeOK, Tick, Status, SchedState, ProcessorState

LEMMA ResumeType == TypeOK => Resume \in Tick
  BY SchedulerAssumption DEF TypeOK, Resume, Tick

LEMMA TickFacts ==
    /\ 1 \in Tick
    /\ \A t \in Tick : t \in Int /\ t \in 1 .. MaxTick + 1 /\ t + 1 \in 1 .. MaxTick + 1
    /\ \A t, u \in 1 .. MaxTick + 1 : t < u => t \in Tick
  BY SchedulerAssumption DEF Tick

\* Every step of Scheduler leaves all its state within its types.
LEMMA NextType == TypeOK /\ [Next]_vars => TypeOK'
<1> SUFFICES ASSUME TypeOK, [Next]_vars PROVE TypeOK'
  OBVIOUS
<1> USE SchedulerAssumption
<1> USE DEF TypeOK, PromiseTypeOK, promiseVars, redisVars, tickerVars, processorVars, tokenVars,
        SchedState, ProcessorState
<1>1. ASSUME NEW p \in Proc, StartProcess(p) PROVE TypeOK'
  BY <1>1 DEF StartProcess
<1>2. ASSUME NEW p \in Proc, ReadWatermark(p) PROVE TypeOK'
  <2>1. Resume \in Tick /\ Resume \in 1 .. MaxTick + 1
    BY ResumeType, TickFacts
  <2>2. LoopTest(p) \in { "wait", "drain" }
    BY DEF LoopTest
  <2>3. QED
    BY <1>2, <2>1, <2>2 DEF ReadWatermark
<1>3. ASSUME NEW p \in Proc, ReadFails(p) PROVE TypeOK'
  BY <1>3 DEF ReadFails
<1>4. ASSUME NEW p \in Proc, BeginTick(p) PROVE TypeOK'
  <2>1. next[p] \in Tick
    BY <1>4 DEF BeginTick, Tick
  <2>2. Due[next[p]] \in SUBSET Config
    BY <2>1
  <2>3. QED
    BY <1>4, <2>1, <2>2 DEF BeginTick
<1>5. ASSUME NEW p \in Proc, NEW c \in Config, QueueCheck(p, c) PROVE TypeOK'
  BY <1>5 DEF QueueCheck, Accept, Move, Status
<1>6. ASSUME NEW p \in Proc, QueueFails(p) PROVE TypeOK'
  BY <1>6 DEF QueueFails
<1>7. ASSUME NEW p \in Proc, SendBundle(p) PROVE TypeOK'
  <2>1. next[p] + 1 \in 1 .. MaxTick + 1
    BY <1>7, TickFacts DEF SendBundle
  <2>2. LoopTest(p) \in { "wait", "drain" }
    BY DEF LoopTest
  <2>3. QED
    BY <1>7, <2>1, <2>2 DEF SendBundle
<1>8. ASSUME NEW p \in Proc, SendFails(p) PROVE TypeOK'
  BY <1>8 DEF SendFails
<1>9. ASSUME NEW p \in Proc, FinishScheduler(p) PROVE TypeOK'
  BY <1>9 DEF FinishScheduler
<1>10. ASSUME NEW p \in Proc, ReceiveBatch(p) PROVE TypeOK'
  BY <1>10 DEF ReceiveBatch
<1>11. ASSUME NEW p \in Proc, ChannelClosed(p) PROVE TypeOK'
  BY <1>11 DEF ChannelClosed
<1>12. ASSUME NEW p \in Proc, TickCompletes(p) PROVE TypeOK'
  <2>1. head[p] \in Tick /\ head[p] + 1 \in 1 .. MaxTick + 1
    BY <1>12, TickFacts DEF TickCompletes
  <2>2. QED
    BY <1>12, <2>1 DEF TickCompletes
<1>13. ASSUME NEW p \in Proc, TickAborts(p) PROVE TypeOK'
  BY <1>13 DEF TickAborts
<1>14. ASSUME NEW p \in Proc, SaveWatermark(p) PROVE TypeOK'
  BY <1>14 DEF SaveWatermark, NextBatch
<1>15. ASSUME NEW p \in Proc, SaveTimesOut(p) PROVE TypeOK'
  BY <1>15 DEF SaveTimesOut, NextBatch
<1>16. ASSUME NEW p \in Proc, NEW b \in BOOLEAN, SaveDisconnects(p, b) PROVE TypeOK'
  BY <1>16 DEF SaveDisconnects
<1>17. ASSUME NEW p \in Proc, NEW b \in BOOLEAN, Reconnect(p, b) PROVE TypeOK'
  BY <1>17 DEF Reconnect, NextBatch
<1>18. ASSUME NEW p \in Proc, SaveIsFatal(p) PROVE TypeOK'
  BY <1>18 DEF SaveIsFatal
<1>19. ASSUME NEW p \in Proc, CloseExecutor(p) PROVE TypeOK'
  BY <1>19 DEF CloseExecutor, Close, Status
<1>20. ASSUME NEW p \in Proc, NEW k \in Check, RunCheck(p, k) PROVE TypeOK'
  <2>1. CASE Publish(p, k)
    BY <1>20, <2>1 DEF RunCheck, ProduceResult, RecordResult, Publish, Move, Status
  <2>2. CASE PublishFails(p, k)
    BY <1>20, <2>2 DEF RunCheck, ProduceResult, RecordResult, PublishFails, Move, Status
  <2>3. CASE Settle(p, k)
    BY <1>20, <2>3 DEF RunCheck, ProduceResult, RecordResult, Settle, Move, Status
  <2>4. QED
    BY <1>20, <2>1, <2>2, <2>3 DEF RunCheck, ProduceResult, RecordResult
<1>21. ASSUME NEW p \in Proc, NEW k \in Check, DropRetry(p, k) PROVE TypeOK'
  BY <1>21 DEF DropRetry, Drop, Status
<1>22. ASSUME NEW p \in Proc, Cancel(p) PROVE TypeOK'
  BY <1>22 DEF Cancel
<1>23. ASSUME NEW p \in Proc, StopPartition(p) PROVE TypeOK'
  BY <1>23 DEF StopPartition
<1>24. ASSUME NEW p \in Proc, Vanish(p) PROVE TypeOK'
  <2>1. 1 \in 1 .. MaxTick + 1
    OBVIOUS
  <2>2. [k \in Check |-> "none"] \in [Check -> Status]
    BY DEF Status
  <2>3. PromiseTypeOK'
    BY <1>24, <2>2 DEF Vanish, Abort
  <2>4. QED
    BY <1>24, <2>1, <2>3 DEF Vanish
<1>25. CASE ClockTick
  <2>1. now + 1 \in Tick
    BY <1>25 DEF ClockTick, Tick
  <2>2. QED
    BY <1>25, <2>1 DEF ClockTick
<1>26. ASSUME NEW t \in Tick, ApplyDelayed(t) PROVE TypeOK'
  BY <1>26 DEF ApplyDelayed
<1>27. CASE Expire
  BY <1>27 DEF Expire
<1>28. CASE UNCHANGED vars
  BY <1>28 DEF vars
<1>29. QED
  BY <1>1, <1>2, <1>3, <1>4, <1>5, <1>6, <1>7, <1>8, <1>9, <1>10, <1>11, <1>12, <1>13,
     <1>14, <1>15, <1>16, <1>17, <1>18, <1>19, <1>20, <1>21, <1>22, <1>23, <1>24, <1>25,
     <1>26, <1>27, <1>28
  DEF Next, SchedulerStep, ProcessorStep, Panic, Crash, Exit, Quiet

\* Whatever the environment does, the state keeps its types: in particular a
\* processor that is about to save always has a completed tick to save.
THEOREM TypeCorrect == Safety => []TypeOK
  BY InitType, NextType, PTL DEF Safety

------------------------------------------------------------------------------
\* The environment of NoHoles: no process is told to stop while it works, and
\* the producer takes every result.
Uninterrupted == "sigterm" \notin Faults /\ "produce" \notin Faults

LEMMA InitCovered == Init => SavesCovered
  BY SchedulerAssumption
  DEF Init, PromiseInit, SavesCovered, ExecutorOutlivesScheduler, ProcessorWithinScheduler,
      OneshotMeaning, BatchCovered, DelayedCovered, NoHoles

LEMMA ChecksOfType == \A t \in Tick : ChecksOf(t) \subseteq Check
  BY SchedulerAssumption DEF ChecksOf

\* A processor about to save has a tick that may be saved.
LEMMA LastCovered ==
    ASSUME TypeOK, SavesCovered, NEW p \in Proc, processor[p] = "save"
    PROVE  last[p] \in Tick /\ Covered(last[p])
<1>1. last[p] \in Tick /\ last[p] # None
  BY SchedulerAssumption, TickFacts DEF TypeOK
<1>2. Covered(head[p] - 1) /\ last[p] < head[p]
  BY <1>1 DEF SavesCovered, BatchCovered
<1>3. last[p] \in Int /\ head[p] \in Int /\ base \in Int
  BY <1>1, TickFacts DEF TypeOK
<1>4. QED
  BY <1>1, <1>2, <1>3 DEF Covered

\* A completed tick extends what is covered.
LEMMA CompletedCovered ==
    ASSUME TypeOK, SavesCovered, NEW p \in Proc, TickCompletes(p)
    PROVE  Covered(head[p])
<1>1. head[p] \in Tick /\ head[p] \in Int /\ base \in Int
  BY TickFacts DEF TypeOK, TickCompletes
<1>2. Covered(head[p] - 1)
  BY DEF SavesCovered, BatchCovered, TickCompletes
<1>3. Done(head[p])
  BY <1>1, ChecksOfType DEF Done, SavesCovered, OneshotMeaning, TickCompletes
<1>4. QED
  BY <1>1, <1>2, <1>3 DEF Covered

\* Without stops no processor ever finds a dropped check.
LEMMA NoAbort ==
    ASSUME TypeOK, SavesCovered, NEW p \in Proc
    PROVE  ~ TickAborts(p)
<1> SUFFICES ASSUME TickAborts(p) PROVE FALSE
  OBVIOUS
<1>1. head[p] \in Tick
  BY TickFacts DEF TypeOK, TickAborts
<1>2. PICK k \in ChecksOf(head[p]) : status[p][k] = "dropped"
  BY DEF TickAborts
<1>3. ~ open[p]
  BY <1>1, <1>2, ChecksOfType DEF SavesCovered, OneshotMeaning
<1>4. QED
  BY <1>3 DEF SavesCovered, ExecutorOutlivesScheduler, ProcessorWithinScheduler, TickAborts

\* A process resumes where everything before is covered.
LEMMA ResumeCovered ==
    ASSUME TypeOK, SavesCovered, NEW p \in Proc, ReadWatermark(p)
    PROVE  /\ base' \in Int /\ base <= base' /\ base' <= now
           /\ \A u \in base' .. Resume - 1 : Done(u)
           /\ \A t \in Int : Covered(t) => \A u \in base' .. t : Done(u)
<1>1. base \in Int /\ now \in Int /\ Resume \in Int /\ base <= now
  BY ResumeType, TickFacts DEF TypeOK, SavesCovered
<1>2. base' \in Int /\ base <= base' /\ base' <= now
  BY <1>1 DEF ReadWatermark
<1>3. \A t \in Int : Covered(t) => \A u \in base' .. t : Done(u)
  BY <1>1, <1>2 DEF Covered
<1>4. ASSUME watermark = None PROVE \A u \in base' .. Resume - 1 : Done(u)
  BY <1>1, <1>4 DEF ReadWatermark, Resume
<1>5. ASSUME watermark # None PROVE \A u \in base' .. Resume - 1 : Done(u)
  <2>1. watermark \in Int /\ Resume - 1 <= watermark /\ Covered(watermark)
    BY <1>1, <1>5, TickFacts DEF TypeOK, Resume, SavesCovered, NoHoles
  <2>2. QED
    BY <1>1, <1>2, <1>5, <2>1 DEF ReadWatermark, Covered
<1>6. QED
  BY <1>2, <1>3, <1>4, <1>5

\* A result that reaches the producer uncovers nothing.
LEMMA MoreProduced ==
    ASSUME TypeOK, SavesCovered, UNCHANGED <<base, watermark, delayed, processor, head, last, now>>,
           produced \subseteq produced'
    PROVE  BatchCovered' /\ DelayedCovered' /\ NoHoles' /\ (base <= now)'
  BY DEF SavesCovered, BatchCovered, DelayedCovered, NoHoles, Covered, Done

\* Every step keeps what may be saved covered.  One step per action.
LEMMA NextCovered ==
    ASSUME Uninterrupted, TypeOK, TypeOK', SavesCovered, [Next]_vars
    PROVE  SavesCovered'
<1> USE SchedulerAssumption
<1> USE DEF TypeOK, PromiseTypeOK, promiseVars, redisVars, tickerVars, processorVars, tokenVars,
        SavesCovered, ExecutorOutlivesScheduler, ProcessorWithinScheduler,
        OneshotMeaning, BatchCovered, DelayedCovered, NoHoles, Covered, Done
<1>1. ASSUME NEW p \in Proc, StartProcess(p) PROVE SavesCovered'
  BY <1>1 DEF StartProcess
<1>2. ASSUME NEW p \in Proc, ReadWatermark(p) PROVE SavesCovered'
  <2>1. LoopTest(p) \in { "wait", "drain" }
    BY DEF LoopTest
  <2>2. open[p] /\ ~ cancelled[p]
    BY <1>2 DEF ReadWatermark
  <2>3. ExecutorOutlivesScheduler' /\ ProcessorWithinScheduler' /\ OneshotMeaning'
    BY <1>2, <2>1, <2>2 DEF ReadWatermark
  <2>4. \A t \in Int : Covered(t) => \A u \in base' .. t : Done(u)
    BY <1>2, ResumeCovered
  <2>5. DelayedCovered' /\ NoHoles' /\ (base <= now)'
    BY <1>2, <2>4, ResumeCovered, TickFacts DEF ReadWatermark
  <2>6. BatchCovered'
    <3> SUFFICES ASSUME NEW q \in Proc, processor'[q] # "ended"
                 PROVE  /\ \A u \in base' .. head'[q] - 1 : Done(u)
                        /\ last'[q] # None => last'[q] < head'[q]
      BY <1>2 DEF ReadWatermark
    <3>1. CASE q = p
      <4>1. head'[q] = Resume
        BY <1>2, <3>1 DEF ReadWatermark
      <4>2. last'[q] = None
        BY <1>2, <3>1 DEF ReadWatermark
      <4>3. QED
        BY <1>2, <4>1, <4>2, ResumeCovered
    <3>2. CASE q # p
      <4>1. head'[q] = head[q] /\ last'[q] = last[q] /\ processor[q] # "ended"
        BY <1>2, <3>2 DEF ReadWatermark
      <4>2. head[q] - 1 \in Int
        OBVIOUS
      <4>3. QED
        BY <2>4, <4>1, <4>2
    <3>3. QED
      BY <3>1, <3>2
  <2>7. QED
    BY <2>3, <2>5, <2>6
<1>3. ASSUME NEW p \in Proc, ReadFails(p) PROVE SavesCovered'
  BY <1>3 DEF ReadFails
<1>4. ASSUME NEW p \in Proc, BeginTick(p) PROVE SavesCovered'
  BY <1>4 DEF BeginTick
<1>5. ASSUME NEW p \in Proc, QueueFails(p) PROVE SavesCovered'
  BY <1>5 DEF QueueFails
<1>6. ASSUME NEW p \in Proc, SendBundle(p) PROVE SavesCovered'
  BY <1>6 DEF SendBundle, LoopTest
<1>7. ASSUME NEW p \in Proc, SendFails(p) PROVE SavesCovered'
  BY <1>7 DEF SendFails
<1>8. ASSUME NEW p \in Proc, FinishScheduler(p) PROVE SavesCovered'
  BY <1>8 DEF FinishScheduler
<1>9. ASSUME NEW p \in Proc, ReceiveBatch(p) PROVE SavesCovered'
  BY <1>9 DEF ReceiveBatch
<1>10. ASSUME NEW p \in Proc, ChannelClosed(p) PROVE SavesCovered'
  BY <1>10 DEF ChannelClosed
<1>11. ASSUME NEW p \in Proc, TickCompletes(p) PROVE SavesCovered'
  <2>1. Covered(head[p])
    BY <1>11, CompletedCovered
  <2>2. ExecutorOutlivesScheduler' /\ ProcessorWithinScheduler' /\ OneshotMeaning'
    BY <1>11 DEF TickCompletes
  <2>3. DelayedCovered' /\ NoHoles' /\ (base <= now)'
    BY <1>11 DEF TickCompletes
  <2>4. BatchCovered'
    BY <1>11, <2>1 DEF TickCompletes
  <2>5. QED
    BY <2>2, <2>3, <2>4
<1>12. ASSUME NEW p \in Proc, TickAborts(p) PROVE SavesCovered'
  BY <1>12, NoAbort
<1>13. ASSUME NEW p \in Proc, SaveWatermark(p) PROVE SavesCovered'
  <2>1. last[p] \in Tick /\ Covered(last[p])
    BY <1>13, LastCovered DEF SaveWatermark
  <2>2. ExecutorOutlivesScheduler' /\ ProcessorWithinScheduler' /\ OneshotMeaning'
    BY <1>13 DEF SaveWatermark, NextBatch
  <2>3. BatchCovered' /\ (base <= now)'
    BY <1>13 DEF SaveWatermark, NextBatch
  <2>4. DelayedCovered' /\ NoHoles'
    BY <1>13, <2>1 DEF SaveWatermark
  <2>5. QED
    BY <2>2, <2>3, <2>4
<1>14. ASSUME NEW p \in Proc, SaveTimesOut(p) PROVE SavesCovered'
  <2>1. last[p] \in Tick /\ Covered(last[p])
    BY <1>14, LastCovered DEF SaveTimesOut
  <2>2. ExecutorOutlivesScheduler' /\ ProcessorWithinScheduler' /\ OneshotMeaning'
    BY <1>14 DEF SaveTimesOut, NextBatch
  <2>3. BatchCovered' /\ (base <= now)'
    BY <1>14 DEF SaveTimesOut, NextBatch
  <2>4. DelayedCovered' /\ NoHoles'
    BY <1>14, <2>1 DEF SaveTimesOut
  <2>5. QED
    BY <2>2, <2>3, <2>4
<1>15. ASSUME NEW p \in Proc, SaveIsFatal(p) PROVE SavesCovered'
  BY <1>15 DEF SaveIsFatal
<1>16. ASSUME NEW p \in Proc, CloseExecutor(p) PROVE SavesCovered'
  BY <1>16 DEF CloseExecutor, Close
<1>17. ASSUME NEW p \in Proc, Cancel(p) PROVE SavesCovered'
  BY <1>17 DEF Cancel, Uninterrupted
<1>18. ASSUME NEW p \in Proc, StopPartition(p) PROVE SavesCovered'
  BY <1>18 DEF StopPartition
<1>19. ASSUME NEW p \in Proc, Vanish(p) PROVE SavesCovered'
  BY <1>19 DEF Vanish, Abort
<1>20. ASSUME NEW p \in Proc, NEW c \in Config, QueueCheck(p, c) PROVE SavesCovered'
  BY <1>20 DEF QueueCheck, Accept, Move
<1>21. ASSUME NEW p \in Proc, NEW b \in BOOLEAN, SaveDisconnects(p, b) PROVE SavesCovered'
  <2>1. last[p] \in Tick /\ Covered(last[p])
    BY <1>21, LastCovered DEF SaveDisconnects
  <2>2. ExecutorOutlivesScheduler' /\ ProcessorWithinScheduler' /\ OneshotMeaning'
    BY <1>21 DEF SaveDisconnects
  <2>3. BatchCovered' /\ (base <= now)'
    BY <1>21 DEF SaveDisconnects
  <2>4. DelayedCovered' /\ NoHoles'
    BY <1>21, <2>1 DEF SaveDisconnects
  <2>5. QED
    BY <2>2, <2>3, <2>4
<1>22. ASSUME NEW p \in Proc, NEW b \in BOOLEAN, Reconnect(p, b) PROVE SavesCovered'
  BY <1>22 DEF Reconnect, NextBatch
<1>23. ASSUME NEW p \in Proc, NEW k \in Check, RunCheck(p, k) PROVE SavesCovered'
  <2>1. CASE Publish(p, k)
    <3>1. produced \subseteq produced' /\ k \in produced'
      BY <2>1 DEF Publish
    <3>2. OneshotMeaning'
      BY <1>23, <2>1, <3>1 DEF RunCheck, ProduceResult, RecordResult, Publish, Move
    <3>3. ExecutorOutlivesScheduler' /\ ProcessorWithinScheduler'
      BY <1>23, <2>1 DEF RunCheck, ProduceResult, RecordResult, Publish
    <3>4. BatchCovered' /\ DelayedCovered' /\ NoHoles' /\ (base <= now)'
      BY <1>23, <3>1, MoreProduced DEF RunCheck, ProduceResult, RecordResult
    <3>5. QED
      BY <3>2, <3>3, <3>4
  <2>2. CASE Settle(p, k)
    BY <1>23, <2>2 DEF RunCheck, ProduceResult, RecordResult, Settle, Move
  <2>3. QED
    BY <1>23, <2>1, <2>2 DEF RunCheck, ProduceResult, RecordResult, Uninterrupted
<1>24. ASSUME NEW p \in Proc, NEW k \in Check, DropRetry(p, k) PROVE SavesCovered'
  BY <1>24 DEF DropRetry, Drop
<1>25. CASE ClockTick
  BY <1>25 DEF ClockTick
<1>26. ASSUME NEW t \in Tick, ApplyDelayed(t) PROVE SavesCovered'
  BY <1>26 DEF ApplyDelayed
<1>27. CASE Expire
  BY <1>27 DEF Expire
<1>28. CASE UNCHANGED vars
  BY <1>28 DEF vars
<1>29. QED
  BY <1>1, <1>2, <1>3, <1>4, <1>5, <1>6, <1>7, <1>8, <1>9, <1>10, <1>11, <1>12, <1>13,
     <1>14, <1>15, <1>16, <1>17, <1>18, <1>19, <1>20, <1>21, <1>22, <1>23, <1>24, <1>25,
     <1>26, <1>27, <1>28
  DEF Next, SchedulerStep, ProcessorStep, Panic, Crash, Exit, Quiet

\* The main result: without stops and produce failures, and with any number of
\* processes that crash, overlap, lose Redis or write late, a saved watermark
\* never covers a tick one of whose checks has no result.
THEOREM NoHolesHolds == Uninterrupted => (Safety => []NoHoles)
<1> SUFFICES ASSUME Uninterrupted PROVE Safety => []NoHoles
  OBVIOUS
<1>1. Init => TypeOK /\ SavesCovered
  BY InitType, InitCovered
<1>2. TypeOK /\ SavesCovered /\ [Next]_vars => (TypeOK /\ SavesCovered)'
  BY NextType, NextCovered
<1>3. SavesCovered => NoHoles
  BY DEF SavesCovered
<1>4. QED
  BY <1>1, <1>2, <1>3, PTL DEF Safety

==============================================================================
