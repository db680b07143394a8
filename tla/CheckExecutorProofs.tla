------------------------- MODULE CheckExecutorProofs -------------------------
(***************************************************************************)
(* Proofs about CheckExecutor, for every number of checks, retries and     *)
(* concurrent futures and for every build: the counters never wrap, a      *)
(* check has one result, the oneshot tells the truth, a check is lost only *)
(* where the code says so, and every step is one that ExecutorPromise      *)
(* allows.                                                                 *)
(*                                                                         *)
(* A check is in one place at a time, the queue or one future.  Everything *)
(* else hangs on that, and that on the order in which do_check moves it.   *)
(*                                                                         *)
(* And about HttpCheck, the check it runs, for every timeout, every bound  *)
(* on the body and every unit of the clock: the check is over when its     *)
(* timeout is, its capture is what it received, and the timings of its     *)
(* request lie within it, add up and print without wrapping.               *)
(***************************************************************************)
EXTENDS CheckExecutor, HttpCheck, FiniteSetTheorems, TLAPS

\* A future that can still lead to a result.
Active(f) == f.phase \notin { "done", "panicked" }

\* A check is in one place: the queue has it once, or one future works on it.  Futures
\* of it that are over belong to earlier tries, so no two futures are ever the same.
OnePlace ==
    /\ \A i, j \in 1 .. Len(queue) : queue[i].check = queue[j].check => i = j
    /\ \A f, g \in inflight : f.check = g.check /\ Active(f) =>
          f = g \/ (~ Active(g) /\ g.retry < f.retry)
    /\ \A i \in 1 .. Len(queue), f \in inflight : f.check = queue[i].check =>
          ~ Active(f) /\ f.retry < queue[i].retry
    /\ \A f \in inflight : f.phase \in { "retrying", "requeue" } => f.retry < FailureRetries

\* The fate of a check is live as long as it is in that place.
InQueue(k) == \E i \in 1 .. Len(queue) : queue[i].check = k
InFlight(k) == \E f \in inflight : Active(f) /\ f.check = k

FateTells ==
    /\ \A k \in Check : fate[k] = "live" <=> InQueue(k) \/ InFlight(k)
    /\ \A f \in inflight : fate[f.check] \in { "live", "settled", "dropped" }
    /\ \A k \in reserved : fate[k] = "none" /\ senders

\* A result is the last thing that happens to a check before its oneshot.
ResultIsLast ==
    /\ \A k \in Check : Len(results[k]) <= 1
    /\ \A i \in 1 .. Len(queue) : results[queue[i].check] = <<>>
    /\ \A f \in inflight : Active(f) => (results[f.check] # <<>> <=> f.phase = "recording")
    /\ \A k \in Check : /\ fate[k] = "settled" => results[k] # <<>>
                        /\ fate[k] = "dropped" => results[k] = <<>>
                        /\ fate[k] = "none" /\ senders => results[k] = <<>>

\* How far the loop has come down, and what of it unwinds.
LoopState ==
    /\ ended => inflight = {} /\ ~ open
    /\ ~ open => queue = <<>> /\ (cancelled \/ ended)
    /\ build.inline_tasks =>
          \A f, g \in inflight : f.phase \in MidPoll /\ g.phase \in MidPoll => f = g
    /\ \A f \in inflight : f.phase = "panicked" =>
          build.inline_tasks /\ (cancelled \/ f.check \notin heard)

\* Checks counted in queue_size for a retry and not sent yet
Requeued == { f \in inflight : f.phase = "requeue" }

Counted ==
    /\ IsFiniteSet(inflight) /\ IsFiniteSet(reserved)
    /\ queue_size >= Len(queue) + Cardinality(reserved) + Cardinality(Requeued)
    /\ ~ ended => num_running = Cardinality(inflight)

ExecutorInv ==
    TypeOK /\ OnePlace /\ FateTells /\ ResultIsLast /\ LoopState /\ Counted

------------------------------------------------------------------------------
(* One future moves on.                                                     *)

\* Future f after Becomes(f, phase)
Moved(f, phase) == [f EXCEPT !.phase = phase]

LEMMA MovedFields ==
    ASSUME TypeOK, NEW f \in inflight, NEW phase \in Phase
    PROVE  /\ Moved(f, phase) \in Future
           /\ Moved(f, phase).check = f.check
           /\ Moved(f, phase).retry = f.retry
           /\ Moved(f, phase).phase = phase
           /\ f.check \in Check /\ f.retry \in Nat /\ f.phase \in Phase
  <1>1. f \in Future
    BY DEF TypeOK
  <1> QED
    BY <1>1, ExecutorAssumption DEF Moved, Future, Retry

LEMMA QueueItems ==
    ASSUME TypeOK
    PROVE  /\ Len(queue) \in Nat
           /\ \A i \in 1 .. Len(queue) : /\ queue[i] \in Item
                                         /\ queue[i].check \in Check /\ queue[i].retry \in Nat
  <1>1. Len(queue) \in Nat /\ \A i \in 1 .. Len(queue) : queue[i] \in Item
    BY DEF TypeOK
  <1> QED
    BY <1>1, ExecutorAssumption DEF Item, Retry

\* The futures are as many as before: the earlier tries of a check differ in retry.
LEMMA BecomesCounts ==
    ASSUME TypeOK, OnePlace, IsFiniteSet(inflight),
           NEW f \in inflight, NEW phase \in Phase, Active(f), Becomes(f, phase)
    PROVE  /\ IsFiniteSet(inflight')
           /\ Cardinality(inflight') = Cardinality(inflight)
  <1> DEFINE g == Moved(f, phase)
             rest == inflight \ {f}
  <1>1. inflight' = rest \cup {g}
    BY DEF Becomes, Moved
  <1>2. g \notin rest
    <2>1. SUFFICES ASSUME g \in rest PROVE FALSE
      OBVIOUS
    <2>2. g.check = f.check /\ g.retry = f.retry /\ g.retry \in Nat
      BY MovedFields
    <2>3. g.retry < f.retry
      BY <2>1, <2>2 DEF OnePlace
    <2> QED
      BY <2>2, <2>3
  <1>3. IsFiniteSet(rest) /\ Cardinality(rest) = Cardinality(inflight) - 1
    BY FS_RemoveElement
  <1> HIDE DEF g, rest
  <1>4. IsFiniteSet(rest \cup {g}) /\ Cardinality(rest \cup {g}) = Cardinality(rest) + 1
    BY <1>2, <1>3, FS_AddElement
  <1>5. Cardinality(inflight) \in Nat
    BY FS_CardinalityType
  <1> QED
    BY <1>1, <1>3, <1>4, <1>5

\* A future moves on without anything being queued: the check stays in one place.
LEMMA BecomesOnePlace ==
    ASSUME TypeOK, OnePlace, NEW f \in inflight, NEW phase \in Phase,
           Active(f), Becomes(f, phase), queue' = queue,
           phase \in { "retrying", "requeue" } => f.retry < FailureRetries
    PROVE  OnePlace'
  <1> DEFINE g == Moved(f, phase)
  <1>1. inflight' = (inflight \ {f}) \cup {g}
    BY DEF Becomes, Moved
  <1>2. g.check = f.check /\ g.retry = f.retry /\ g.phase = phase
    BY MovedFields
  <1> HIDE DEF g
  <1>3. \A e \in inflight : e.check = f.check => e = f \/ (~ Active(e) /\ e.retry < f.retry)
    BY DEF OnePlace
  <1>4. (\A i, j \in 1 .. Len(queue) : queue[i].check = queue[j].check => i = j)'
    BY DEF OnePlace
  <1>5. (\A e, h \in inflight : e.check = h.check /\ Active(e) =>
          e = h \/ (~ Active(h) /\ h.retry < e.retry))'
    BY <1>1, <1>2, <1>3 DEF OnePlace, Active
  <1>6. (\A i \in 1 .. Len(queue), e \in inflight : e.check = queue[i].check =>
          ~ Active(e) /\ e.retry < queue[i].retry)'
    BY <1>1, <1>2 DEF OnePlace, Active
  <1>7. (\A e \in inflight : e.phase \in { "retrying", "requeue" } => e.retry < FailureRetries)'
    BY <1>1, <1>2 DEF OnePlace
  <1> QED
    BY <1>4, <1>5, <1>6, <1>7 DEF OnePlace

\* Only the check of f can leave its place, and it does so when f is over.
LEMMA BecomesPlace ==
    ASSUME TypeOK, OnePlace, NEW f \in inflight, NEW phase \in Phase,
           Active(f), Becomes(f, phase), queue' = queue, NEW k \in Check
    PROVE  /\ InQueue(k)' <=> InQueue(k)
           /\ k # f.check => (InFlight(k)' <=> InFlight(k))
           /\ k = f.check => /\ InFlight(k)
                             /\ ~ InQueue(k)
                             /\ InFlight(k)' <=> phase \notin { "done", "panicked" }
  <1> DEFINE g == Moved(f, phase)
  <1>1. inflight' = (inflight \ {f}) \cup {g}
    BY DEF Becomes, Moved
  <1>2. g.check = f.check /\ g.retry = f.retry /\ g.phase = phase
    BY MovedFields
  <1> HIDE DEF g
  <1>3. InQueue(k)' <=> InQueue(k)
    BY DEF InQueue
  <1>4. k # f.check => (InFlight(k)' <=> InFlight(k))
    BY <1>1, <1>2 DEF InFlight, Active
  <1>5. ASSUME k = f.check
        PROVE  InFlight(k) /\ ~ InQueue(k)
    BY <1>5 DEF InFlight, InQueue, OnePlace
  <1>6. ASSUME k = f.check
        PROVE  InFlight(k)' <=> phase \notin { "done", "panicked" }
    BY <1>1, <1>2, <1>6 DEF InFlight, Active, OnePlace
  <1> QED
    BY <1>3, <1>4, <1>5, <1>6

\* A polled future is the only one of an inline loop between two await points.
LEMMA BecomesExclusive ==
    ASSUME TypeOK, NEW f \in inflight, NEW phase \in Phase,
           Polled(f), Becomes(f, phase), build' = build
    PROVE  (build.inline_tasks =>
              \A e, h \in inflight : e.phase \in MidPoll /\ h.phase \in MidPoll => e = h)'
  <1> DEFINE g == Moved(f, phase)
  <1>1. inflight' = (inflight \ {f}) \cup {g}
    BY DEF Becomes, Moved
  <1> HIDE DEF g
  <1>2. build.inline_tasks => \A e \in inflight \ {f} : e.phase \notin MidPoll
    BY DEF Polled
  <1> QED
    BY <1>1, <1>2

\* The set of futures that are counted for a retry.
LEMMA BecomesRequeued ==
    ASSUME TypeOK, NEW f \in inflight, NEW phase \in Phase, Becomes(f, phase)
    PROVE  /\ phase # "requeue" => Requeued' = Requeued \ {f}
           /\ phase = "requeue" => Requeued' = (Requeued \ {f}) \cup {Moved(f, phase)}
  <1> DEFINE g == Moved(f, phase)
  <1>1. inflight' = (inflight \ {f}) \cup {g}
    BY DEF Becomes, Moved
  <1>2. g.phase = phase
    BY MovedFields
  <1> HIDE DEF g
  <1> QED
    BY <1>1, <1>2 DEF Requeued, g

\* One more element is at most one more.
LEMMA AddedElement ==
    ASSUME NEW S, IsFiniteSet(S), NEW x
    PROVE  /\ IsFiniteSet(S \cup {x})
           /\ Cardinality(S \cup {x}) \in Nat
           /\ Cardinality(S \cup {x}) <= Cardinality(S) + 1
           /\ x \notin S => Cardinality(S \cup {x}) = Cardinality(S) + 1
  <1>1. IsFiniteSet(S \cup {x}) /\ Cardinality(S) \in Nat
    BY FS_AddElement, FS_CardinalityType
  <1>2. CASE x \in S
    BY <1>1, <1>2, S \cup {x} = S
  <1>3. CASE x \notin S
    BY <1>1, <1>3, FS_AddElement
  <1> QED
    BY <1>2, <1>3

\* One element less is exactly one less.
LEMMA RemovedElement ==
    ASSUME NEW S, IsFiniteSet(S), NEW x \in S
    PROVE  /\ IsFiniteSet(S \ {x})
           /\ Cardinality(S \ {x}) \in Nat /\ Cardinality(S) \in Nat
           /\ Cardinality(S) = Cardinality(S \ {x}) + 1
  <1>1. IsFiniteSet(S \ {x}) /\ Cardinality(S \ {x}) = Cardinality(S) - 1
    BY FS_RemoveElement
  <1>2. Cardinality(S) \in Nat /\ Cardinality(S \ {x}) \in Nat
    BY <1>1, FS_CardinalityType
  <1> QED
    BY <1>1, <1>2

LEMMA RequeuedFinite ==
    ASSUME IsFiniteSet(inflight)
    PROVE  IsFiniteSet(Requeued) /\ Cardinality(Requeued) \in Nat
  <1>1. Requeued \subseteq inflight
    BY DEF Requeued
  <1> QED
    BY <1>1, FS_Subset, FS_CardinalityType

LEMMA PhaseFacts ==
    /\ { "spawned", "checking", "retrying", "requeue", "recording", "done", "panicked",
         "success", "failure", "missed" } = Phase
    /\ MidPoll \subseteq Phase
    /\ Outcome \subseteq MidPoll
  BY DEF Phase, MidPoll, Outcome


\* What every step of a future leaves true, whatever it does to the check.
LEMMA BecomesLoopState ==
    ASSUME ExecutorInv, NEW f \in inflight, NEW phase \in Phase,
           Polled(f), Active(f), Becomes(f, phase),
           UNCHANGED <<build, heard, loopVars>>,
           queue' = queue \/ open,
           phase = "panicked" => build.inline_tasks /\ (cancelled \/ f.check \notin heard)
    PROVE  LoopState'
  <1> DEFINE g == Moved(f, phase)
  <1> USE DEF ExecutorInv, loopVars
  <1>1. inflight' = (inflight \ {f}) \cup {g}
    BY DEF Becomes, Moved
  <1>2. g.check = f.check /\ g.phase = phase
    BY MovedFields
  <1> HIDE DEF g
  <1>3. ~ ended
    BY DEF LoopState
  <1>4. (ended => inflight = {} /\ ~ open)'
    BY <1>3
  <1>5. (~ open => queue = <<>> /\ (cancelled \/ ended))'
    BY DEF LoopState
  <1>6. (build.inline_tasks =>
           \A e, h \in inflight : e.phase \in MidPoll /\ h.phase \in MidPoll => e = h)'
    BY BecomesExclusive
  <1>7. (\A e \in inflight : e.phase = "panicked" =>
           build.inline_tasks /\ (cancelled \/ e.check \notin heard))'
    BY <1>1, <1>2 DEF LoopState
  <1> QED
    BY <1>4, <1>5, <1>6, <1>7 DEF LoopState

\* Becomes leaves the futures well typed.
LEMMA BecomesType ==
    ASSUME TypeOK, NEW f \in inflight, NEW phase \in Phase, Becomes(f, phase)
    PROVE  inflight' \subseteq Future
  <1>1. inflight' = (inflight \ {f}) \cup {Moved(f, phase)}
    BY DEF Becomes, Moved
  <1>2. Moved(f, phase) \in Future
    BY MovedFields
  <1> QED
    BY <1>1, <1>2 DEF TypeOK

\* StartCheck, FinishCheck and ReserveRetry touch the future and, for a retry, its count.
LEMMA QuietMove ==
    ASSUME ExecutorInv, NEW f \in inflight, NEW phase \in Phase, Polled(f),
           f.phase \in { "spawned", "checking", "retrying" },
           phase \notin { "recording", "done", "panicked" },
           phase \in { "retrying", "requeue" } => f.retry < FailureRetries,
           Becomes(f, phase),
           UNCHANGED <<reserved, queue, num_running, fate, results, produced,
                       environment, loopVars>>,
           queue_size' = IF phase = "requeue" THEN queue_size + 1 ELSE queue_size
    PROVE  ExecutorInv'
  <1> USE DEF ExecutorInv
  <1>0. Active(f) /\ f.phase # "requeue" /\ f.phase # "recording"
    BY DEF Active
  <1>1. UNCHANGED <<build, reserved, queue, num_running, fate, results, produced, late,
                    heard, cancelled, open, ended, senders>>
    BY DEF environment, loopVars
  <1>2. inflight' = (inflight \ {f}) \cup {Moved(f, phase)}
    BY DEF Becomes, Moved
  <1>3. Moved(f, phase).check = f.check /\ Moved(f, phase).phase = phase /\ f.check \in Check
    BY MovedFields
  <1>4. TypeOK'
    BY <1>1, BecomesType DEF TypeOK
  <1>5. OnePlace'
    BY <1>0, <1>1, BecomesOnePlace
  <1>6. FateTells'
    <2>1. \A k \in Check : (InQueue(k)' <=> InQueue(k)) /\ (InFlight(k)' <=> InFlight(k))
      BY <1>0, <1>1, BecomesPlace
    <2> QED
      BY <2>1, <1>1, <1>2, <1>3 DEF FateTells
  <1>7. ResultIsLast'
    BY <1>0, <1>1, <1>2, <1>3 DEF ResultIsLast, Active
  <1>8. LoopState'
    BY <1>0, <1>1, BecomesLoopState DEF loopVars
  <1>9. Counted'
    <2>1. IsFiniteSet(inflight') /\ Cardinality(inflight') = Cardinality(inflight)
      BY <1>0, BecomesCounts DEF Counted
    <2>2. IsFiniteSet(Requeued) /\ Cardinality(Requeued) \in Nat
      BY RequeuedFinite DEF Counted
    <2>3. f \notin Requeued
      BY <1>0 DEF Requeued
    <2>4. Cardinality(Requeued') <= Cardinality(Requeued) + IF phase = "requeue" THEN 1 ELSE 0
      <3>1. CASE phase = "requeue"
        <4>1. Requeued' = Requeued \cup {Moved(f, phase)}
          BY <2>3, <3>1, BecomesRequeued
        <4>2. Cardinality(Requeued \cup {Moved(f, phase)}) <= Cardinality(Requeued) + 1
          BY <2>2, AddedElement
        <4> QED
          BY <3>1, <4>1, <4>2
      <3>2. CASE phase # "requeue"
        <4>1. Requeued' = Requeued
          BY <2>3, <3>2, BecomesRequeued
        <4> QED
          BY <2>2, <3>2, <4>1
      <3> QED
        BY <3>1, <3>2
    <2>5. IsFiniteSet(Requeued') /\ Cardinality(Requeued') \in Nat
      <3>1. Requeued' \subseteq inflight'
        BY DEF Requeued
      <3> QED
        BY <2>1, <3>1, FS_Subset, FS_CardinalityType
    <2>6. Cardinality(reserved) \in Nat /\ Len(queue) \in Nat /\ queue_size \in Nat
      BY FS_CardinalityType DEF Counted, TypeOK
    <2> QED
      BY <1>1, <2>1, <2>2, <2>4, <2>5, <2>6 DEF Counted
  <1> QED
    BY <1>4, <1>5, <1>6, <1>7, <1>8, <1>9

\* No more is counted for a retry than before, and the rest of the counts stay.
LEMMA BecomesCounted ==
    ASSUME ExecutorInv, NEW f \in inflight, NEW phase \in Phase,
           Active(f), phase # "requeue", Becomes(f, phase),
           UNCHANGED <<reserved, queue, counters, ended>>
    PROVE  Counted'
  <1> USE DEF ExecutorInv
  <1>1. IsFiniteSet(inflight') /\ Cardinality(inflight') = Cardinality(inflight)
    BY BecomesCounts DEF Counted
  <1>2. IsFiniteSet(Requeued) /\ Cardinality(Requeued) \in Nat
    BY RequeuedFinite DEF Counted
  <1>3. Requeued' = Requeued \ {f}
    BY BecomesRequeued
  <1>4. /\ Cardinality(Requeued \ {f}) \in Nat
        /\ Cardinality(Requeued \ {f}) <= Cardinality(Requeued)
    <2>1. CASE f \in Requeued
      BY <1>2, <2>1, RemovedElement
    <2>2. CASE f \notin Requeued
      BY <1>2, <2>2, Requeued \ {f} = Requeued
    <2> QED
      BY <2>1, <2>2
  <1>5. Cardinality(reserved) \in Nat /\ Len(queue) \in Nat /\ queue_size \in Nat
    BY FS_CardinalityType DEF Counted, TypeOK
  <1> QED
    BY <1>1, <1>2, <1>3, <1>4, <1>5 DEF Counted, counters

\* RecordResult, and the panics that do not abort: the future is over and the check has
\* its fate, settled if and only if a result was given to the producer.
LEMMA LastMove ==
    ASSUME ExecutorInv, NEW f \in inflight, NEW phase \in { "done", "panicked" }, Polled(f),
           NEW outcome \in { "settled", "dropped" },
           f.phase = IF outcome = "settled" THEN "recording" ELSE "requeue",
           phase = "panicked" => build.inline_tasks /\ (cancelled \/ f.check \notin heard),
           Becomes(f, phase),
           fate' = [fate EXCEPT ![f.check] = outcome],
           UNCHANGED <<reserved, queue, counters, results, produced, environment, loopVars>>
    PROVE  ExecutorInv'
  <1> USE DEF ExecutorInv
  <1>0. Active(f) /\ phase \in Phase
    BY PhaseFacts DEF Active
  <1>1. UNCHANGED <<build, reserved, queue, queue_size, num_running, results, produced, late,
                    heard, cancelled, open, ended, senders>>
    BY DEF environment, loopVars, counters
  <1>2. inflight' = (inflight \ {f}) \cup {Moved(f, phase)}
    BY DEF Becomes, Moved
  <1>3. Moved(f, phase).check = f.check /\ Moved(f, phase).phase = phase /\ f.check \in Check
    BY <1>0, MovedFields
  <1>4. TypeOK'
    <2>1. fate' \in [Check -> Fate]
      BY DEF TypeOK, Fate
    <2> QED
      BY <1>0, <1>1, <2>1, BecomesType DEF TypeOK
  <1>f. /\ fate'[f.check] = outcome
        /\ \A k \in Check \ {f.check} : fate'[k] = fate[k]
    BY <1>3 DEF TypeOK
  <1>5. OnePlace'
    BY <1>0, <1>1, BecomesOnePlace
  <1>6. FateTells'
    <2>1. \A k \in Check : (InQueue(k)' <=> InQueue(k)) /\ (k # f.check => (InFlight(k)' <=> InFlight(k)))
      BY <1>0, <1>1, BecomesPlace
    <2>2. ~ InQueue(f.check)' /\ ~ InFlight(f.check)'
      BY <1>0, <1>1, <1>3, BecomesPlace
    <2>3. (\A k \in Check : fate[k] = "live" <=> InQueue(k) \/ InFlight(k))'
      BY <2>1, <2>2, <1>f DEF FateTells
    <2>4. (\A e \in inflight : fate[e.check] \in { "live", "settled", "dropped" })'
      <3>1. \A e \in inflight : e.check \in Check
        BY MovedFields, <1>0
      <3> QED
        BY <3>1, <1>f, <1>2, <1>3 DEF FateTells
    <2>5. (\A k \in reserved : fate[k] = "none" /\ senders)'
      <3>1. f.check \notin reserved
        BY DEF FateTells
      <3> QED
        BY <3>1, <1>1, <1>f DEF FateTells, TypeOK
    <2> QED
      BY <2>3, <2>4, <2>5 DEF FateTells
  <1>7. ResultIsLast'
    <2>1. outcome = "settled" => results[f.check] # <<>>
      BY <1>0 DEF ResultIsLast
    <2>2. outcome = "dropped" => results[f.check] = <<>>
      BY <1>0 DEF ResultIsLast
    <2>3. (\A k \in Check : /\ fate[k] = "settled" => results[k] # <<>>
                            /\ fate[k] = "dropped" => results[k] = <<>>
                            /\ fate[k] = "none" /\ senders => results[k] = <<>>)'
      BY <2>1, <2>2, <1>1, <1>f DEF ResultIsLast
    <2>4. (\A e \in inflight : Active(e) => (results[e.check] # <<>> <=> e.phase = "recording"))'
      BY <1>1, <1>2, <1>3 DEF ResultIsLast, Active
    <2> QED
      BY <1>1, <2>3, <2>4 DEF ResultIsLast
  <1>8. LoopState'
    BY <1>0, <1>1, BecomesLoopState DEF loopVars
  <1>9. Counted'
    BY <1>0, <1>1, BecomesCounted DEF counters
  <1> QED
    BY <1>4, <1>5, <1>6, <1>7, <1>8, <1>9

LEMMA AppendOne ==
    ASSUME NEW S, NEW s \in Seq(S), Len(s) = 0, NEW e \in S
    PROVE  Append(s, e) \in Seq(S) /\ Len(Append(s, e)) = 1
  OBVIOUS

\* produce_checker_result
LEMMA ProduceInv ==
    ASSUME ExecutorInv, NEW f \in inflight, NEW delivered \in BOOLEAN, Produce(f, delivered)
    PROVE  ExecutorInv'
  <1> USE DEF ExecutorInv
  <1>0. /\ Active(f) /\ f.phase \in Outcome /\ f.phase # "recording" /\ Polled(f)
        /\ "recording" \in Phase
        /\ Becomes(f, "recording")
        /\ results' = [results EXCEPT ![f.check] = Append(@, f.phase)]
        /\ produced' = IF delivered THEN produced \cup {f.check} ELSE produced
    BY DEF Active, Produce, Phase, Outcome
  <1>1. UNCHANGED <<build, reserved, queue, queue_size, num_running, fate, late,
                    heard, cancelled, open, ended, senders>>
    BY DEF environment, loopVars, counters, Produce
  <1> DEFINE g == Moved(f, "recording")
  <1>2. inflight' = (inflight \ {f}) \cup {g}
    BY <1>0 DEF Becomes, Moved
  <1>3. g.check = f.check /\ g.phase = "recording" /\ f.check \in Check
    BY <1>0, MovedFields
  <1> HIDE DEF g
  <1>4. results[f.check] = <<>>
    BY <1>0 DEF ResultIsLast
  <1>r. /\ results'[f.check] # <<>> /\ Len(results'[f.check]) = 1
        /\ \A k \in Check \ {f.check} : results'[k] = results[k]
        /\ results' \in [Check -> Seq(Outcome)]
    <2> DEFINE r == Append(results[f.check], f.phase)
    <2>1. r \in Seq(Outcome) /\ Len(r) = 1
      <3>1. results[f.check] \in Seq(Outcome) /\ Len(results[f.check]) = 0
        BY <1>3, <1>4 DEF TypeOK
      <3>2. f.phase \in Outcome
        BY <1>0
      <3> QED
        BY <3>1, <3>2, AppendOne, Zenon
    <2> HIDE DEF r
    <2>2. r # <<>>
      BY <2>1
    <2>3. results' = [results EXCEPT ![f.check] = r]
      BY <1>0 DEF r
    <2> QED
      BY <2>1, <2>2, <2>3, <1>3 DEF TypeOK
  <1>5. TypeOK'
    BY <1>0, <1>1, <1>3, <1>r, BecomesType DEF TypeOK
  <1>6. OnePlace'
    BY <1>0, <1>1, BecomesOnePlace
  <1>7. FateTells'
    <2>1. \A k \in Check : (InQueue(k)' <=> InQueue(k)) /\ (InFlight(k)' <=> InFlight(k))
      BY <1>0, <1>1, BecomesPlace
    <2> QED
      BY <2>1, <1>1, <1>2, <1>3 DEF FateTells
  <1>8. ResultIsLast'
    <2>1. fate[f.check] = "live"
      BY <1>0, <1>3 DEF FateTells, InFlight
    <2>2. (\A k \in Check : Len(results[k]) <= 1)'
      <3>1. SUFFICES ASSUME NEW k \in Check PROVE Len(results'[k]) <= 1
        OBVIOUS
      <3>2. CASE k = f.check
        BY <3>2, <1>r
      <3>3. CASE k # f.check
        BY <3>3, <1>r DEF ResultIsLast
      <3> QED
        BY <3>2, <3>3
    <2>3. (\A i \in 1 .. Len(queue) : results[queue[i].check] = <<>>)'
      <3>1. \A i \in 1 .. Len(queue) : queue[i].check # f.check /\ queue[i].check \in Check
        BY <1>0, QueueItems DEF OnePlace
      <3> QED
        BY <3>1, <1>1, <1>r DEF ResultIsLast
    <2>4. (\A e \in inflight : Active(e) => (results[e.check] # <<>> <=> e.phase = "recording"))'
      <3>1. \A e \in inflight \ {f} : Active(e) => e.check # f.check
        BY <1>0 DEF OnePlace
      <3>2. \A e \in inflight : e.check \in Check
        BY <1>0, MovedFields
      <3>3. \A e \in inflight \ {f} : Active(e) => results'[e.check] = results[e.check]
        BY <3>1, <3>2, <1>r
      <3>4. results'[g.check] # <<>>
        BY <1>r, <1>3
      <3> QED
        BY <1>2, <1>3, <3>3, <3>4 DEF ResultIsLast, Active
    <2>5. (\A k \in Check : /\ fate[k] = "settled" => results[k] # <<>>
                            /\ fate[k] = "dropped" => results[k] = <<>>
                            /\ fate[k] = "none" /\ senders => results[k] = <<>>)'
      BY <2>1, <1>1, <1>r DEF ResultIsLast
    <2> QED
      BY <2>2, <2>3, <2>4, <2>5 DEF ResultIsLast
  <1>9. LoopState'
    BY <1>0, <1>1, BecomesLoopState DEF loopVars
  <1>10. Counted'
    BY <1>0, <1>1, BecomesCounted DEF counters
  <1> QED
    BY <1>5, <1>6, <1>7, <1>8, <1>9, <1>10

\* The queue after a send
LEMMA AppendedQueue ==
    ASSUME TypeOK, NEW item \in Item, queue' = Append(queue, item)
    PROVE  /\ queue' \in Seq(Item)
           /\ Len(queue) \in Nat /\ Len(queue') = Len(queue) + 1
           /\ \A i \in 1 .. Len(queue') :
                 queue'[i] = IF i = Len(queue') THEN item ELSE queue[i]
           /\ \A i \in 1 .. Len(queue') : i # Len(queue') => i \in 1 .. Len(queue)
           /\ \A k : InQueue(k)' <=> InQueue(k) \/ k = item.check
  <1>1. /\ queue' \in Seq(Item)
        /\ Len(queue) \in Nat /\ Len(queue') = Len(queue) + 1
        /\ \A i \in 1 .. Len(queue') :
              queue'[i] = IF i = Len(queue') THEN item ELSE queue[i]
    BY DEF TypeOK
  <1>2. \A i \in 1 .. Len(queue') : i # Len(queue') => i \in 1 .. Len(queue)
    BY <1>1
  <1>3. Len(queue') \in 1 .. Len(queue') /\ \A i \in 1 .. Len(queue) : i \in 1 .. Len(queue') /\ i # Len(queue')
    BY <1>1
  <1>4. \A k : InQueue(k)' <=> InQueue(k) \/ k = item.check
    BY <1>1, <1>2, <1>3 DEF InQueue
  <1> QED
    BY <1>1, <1>2, <1>4

LEMMA SendRetryInv ==
    ASSUME ExecutorInv, NEW f \in inflight, SendRetry(f)
    PROVE  ExecutorInv'
  <1> USE DEF ExecutorInv
  <1> DEFINE g == Moved(f, "done")
             item == [check |-> f.check, retry |-> f.retry + 1]
  <1>0. /\ Active(f) /\ f.phase = "requeue" /\ Polled(f) /\ open
        /\ "done" \in Phase
        /\ Becomes(f, "done")
        /\ queue' = Append(queue, item)
    BY DEF Active, SendRetry, Phase
  <1>1. UNCHANGED <<build, reserved, queue_size, num_running, fate, results, produced, late,
                    heard, cancelled, open, ended, senders>>
    BY DEF environment, loopVars, counters, SendRetry
  <1>2. inflight' = (inflight \ {f}) \cup {g}
    BY <1>0 DEF Becomes, Moved
  <1>3. /\ g.check = f.check /\ g.phase = "done" /\ g.retry = f.retry
        /\ f.check \in Check /\ f.retry \in Nat
    BY <1>0, MovedFields
  <1>4. item \in Item /\ item.check = f.check /\ item.retry = f.retry + 1
    <2>1. f.retry < FailureRetries
      BY <1>0 DEF OnePlace
    <2> QED
      BY <2>1, <1>3, ExecutorAssumption DEF Item, Retry
  <1> HIDE DEF g, item
  <1>5. /\ queue' \in Seq(Item)
        /\ Len(queue) \in Nat /\ Len(queue') = Len(queue) + 1
        /\ \A i \in 1 .. Len(queue') : queue'[i] = IF i = Len(queue') THEN item ELSE queue[i]
        /\ \A i \in 1 .. Len(queue') : i # Len(queue') => i \in 1 .. Len(queue)
        /\ \A k : InQueue(k)' <=> InQueue(k) \/ k = item.check
    BY <1>0, <1>4, AppendedQueue
  <1>6. TypeOK'
    BY <1>0, <1>1, <1>5, BecomesType DEF TypeOK
  <1>7. \A e \in inflight \ {f} : e.check = f.check => ~ Active(e) /\ e.retry < f.retry /\ e.retry \in Nat
    BY <1>0, MovedFields DEF OnePlace
  <1>q. \A i \in 1 .. Len(queue) : queue[i].check # f.check /\ queue[i].check \in Check
    BY <1>0, QueueItems DEF OnePlace
  <1>8. OnePlace'
    <2>1. (\A i, j \in 1 .. Len(queue) : queue[i].check = queue[j].check => i = j)'
      BY <1>4, <1>5, <1>q DEF OnePlace
    <2>2. (\A e, h \in inflight : e.check = h.check /\ Active(e) =>
            e = h \/ (~ Active(h) /\ h.retry < e.retry))'
      BY <1>2, <1>3, <1>7 DEF OnePlace, Active
    <2>3. (\A i \in 1 .. Len(queue), e \in inflight : e.check = queue[i].check =>
            ~ Active(e) /\ e.retry < queue[i].retry)'
      <3>1. SUFFICES ASSUME NEW i \in 1 .. Len(queue'), NEW e \in inflight', e.check = queue'[i].check
                     PROVE  ~ Active(e) /\ e.retry < queue'[i].retry
        BY DEF Active
      <3>2. CASE i = Len(queue')
        <4>1. queue'[i] = item
          BY <3>2, <1>5
        <4>2. e.check = f.check
          BY <3>1, <4>1, <1>4
        <4> QED
          BY <4>1, <4>2, <1>2, <1>3, <1>4, <1>7 DEF Active
      <3>3. CASE i # Len(queue')
        <4>1. queue'[i] = queue[i] /\ i \in 1 .. Len(queue)
          BY <3>3, <1>5
        <4>2. e \in inflight
          BY <3>1, <4>1, <1>2, <1>3, <1>q
        <4> QED
          BY <3>1, <4>1, <4>2 DEF OnePlace
      <3> QED
        BY <3>2, <3>3
    <2>4. (\A e \in inflight : e.phase \in { "retrying", "requeue" } => e.retry < FailureRetries)'
      BY <1>2, <1>3 DEF OnePlace
    <2> QED
      BY <2>1, <2>2, <2>3, <2>4 DEF OnePlace
  <1>9. FateTells'
    <2>1. fate[f.check] = "live"
      BY <1>0, <1>3 DEF FateTells, InFlight
    <2>2. \A k \in Check : InFlight(k)' => InFlight(k)
      BY <1>2, <1>3 DEF InFlight, Active
    <2>3. \A k \in Check : k # f.check /\ InFlight(k) => InFlight(k)'
      BY <1>2, <1>3 DEF InFlight, Active
    <2>4. (\A k \in Check : fate[k] = "live" <=> InQueue(k) \/ InFlight(k))'
      BY <2>1, <2>2, <2>3, <1>1, <1>4, <1>5 DEF FateTells
    <2> QED
      BY <2>4, <1>1, <1>2, <1>3 DEF FateTells
  <1>10. ResultIsLast'
    <2>1. results[f.check] = <<>>
      BY <1>0 DEF ResultIsLast
    <2>2. (\A i \in 1 .. Len(queue) : results[queue[i].check] = <<>>)'
      BY <2>1, <1>1, <1>4, <1>5 DEF ResultIsLast
    <2>3. (\A e \in inflight : Active(e) => (results[e.check] # <<>> <=> e.phase = "recording"))'
      BY <1>1, <1>2, <1>3 DEF ResultIsLast, Active
    <2> QED
      BY <2>2, <2>3, <1>1 DEF ResultIsLast
  <1>11. LoopState'
    BY <1>0, <1>1, BecomesLoopState DEF loopVars
  <1>12. Counted'
    <2>1. IsFiniteSet(inflight') /\ Cardinality(inflight') = Cardinality(inflight)
      BY <1>0, BecomesCounts DEF Counted
    <2>2. IsFiniteSet(Requeued) /\ f \in Requeued
      BY <1>0, RequeuedFinite DEF Counted, Requeued
    <2>3. Requeued' = Requeued \ {f}
      BY <1>0, BecomesRequeued
    <2>4. /\ Cardinality(Requeued') \in Nat
          /\ Cardinality(Requeued) = Cardinality(Requeued') + 1
      BY <2>2, <2>3, RemovedElement
    <2>5. Cardinality(reserved) \in Nat /\ queue_size \in Nat
      BY FS_CardinalityType DEF Counted, TypeOK
    <2> QED
      BY <1>1, <1>5, <2>1, <2>4, <2>5 DEF Counted
  <1> QED
    BY <1>6, <1>8, <1>9, <1>10, <1>11, <1>12

\* A process that aborts leaves nothing that an invariant could be about but results.
LEMMA AbortInv ==
    ASSUME ExecutorInv, AbortProcess
    PROVE  ExecutorInv'
  <1> USE DEF ExecutorInv, AbortProcess
  <1>1. TypeOK'
    <2>1. fate' \in [Check -> Fate]
      BY DEF Fate
    <2>2. queue' \in Seq(Item)
      OBVIOUS
    <2> QED
      BY <2>1, <2>2 DEF TypeOK
  <1>2. OnePlace'
    BY DEF OnePlace
  <1>3. FateTells'
    BY DEF FateTells, InQueue, InFlight
  <1>4. ResultIsLast'
    BY DEF ResultIsLast
  <1>5. LoopState'
    BY DEF LoopState
  <1>6. Counted'
    <2>1. Requeued' = {}
      BY DEF Requeued
    <2> QED
      BY <2>1, FS_EmptySet DEF Counted
  <1> QED
    BY <1>1, <1>2, <1>3, <1>4, <1>5, <1>6

\* An inline panic comes alone: no result is being recorded that would be lost.
LEMMA UnwindLive ==
    ASSUME ExecutorInv, NEW f \in inflight, f.phase = "panicked",
           NEW k \in Check, fate[k] = "live"
    PROVE  /\ results[k] = <<>>
           /\ ~ \E e \in inflight : e.check = k /\ e.phase = "recording"
  <1> USE DEF ExecutorInv
  <1>1. ~ \E e \in inflight : e.phase = "recording"
    BY DEF LoopState, MidPoll
  <1>2. InQueue(k) => results[k] = <<>>
    BY DEF InQueue, ResultIsLast
  <1>3. InFlight(k) => results[k] = <<>>
    BY <1>1 DEF InFlight, ResultIsLast
  <1> QED
    BY <1>1, <1>2, <1>3 DEF FateTells

LEMMA UnwindInv ==
    ASSUME ExecutorInv, NEW f \in inflight, Unwind(f)
    PROVE  ExecutorInv'
  <1> USE DEF ExecutorInv
  <1>1. /\ inflight' = {} /\ queue' = <<>> /\ open' = FALSE /\ ended' = TRUE
        /\ fate' = [k \in Check |-> IF fate[k] = "live" THEN "dropped" ELSE fate[k]]
        /\ UNCHANGED <<build, reserved, queue_size, num_running, results, produced, late,
                       heard, cancelled, senders>>
        /\ f.phase = "panicked"
    BY DEF Unwind, environment, counters
  <1>2. TypeOK'
    <2>1. fate' \in [Check -> Fate]
      BY <1>1 DEF TypeOK, Fate
    <2>2. queue' \in Seq(Item)
      BY <1>1
    <2> QED
      BY <1>1, <2>1, <2>2 DEF TypeOK
  <1>3. OnePlace'
    BY <1>1 DEF OnePlace
  <1>4. FateTells'
    BY <1>1 DEF FateTells, InQueue, InFlight, TypeOK
  <1>5. ResultIsLast'
    <2>1. \A k \in Check : fate[k] = "live" => results[k] = <<>>
      BY <1>1, UnwindLive
    <2> QED
      BY <1>1, <2>1 DEF ResultIsLast
  <1>6. LoopState'
    BY <1>1 DEF LoopState
  <1>7. Counted'
    <2>1. Requeued' = {}
      BY <1>1 DEF Requeued
    <2>2. Cardinality(Requeued) \in Nat /\ Cardinality(reserved) \in Nat /\ Len(queue) \in Nat
      BY RequeuedFinite, FS_CardinalityType DEF Counted, TypeOK
    <2> QED
      BY <1>1, <2>1, <2>2, FS_EmptySet DEF Counted, TypeOK
  <1> QED
    BY <1>2, <1>3, <1>4, <1>5, <1>6, <1>7

------------------------------------------------------------------------------
(* The queue and the loop.                                                  *)

\* Nothing that a future is about has changed.
LEMMA KeptRequeued ==
    ASSUME inflight' = inflight
    PROVE  Requeued' = Requeued
  BY DEF Requeued

LEMMA ReserveCheckInv ==
    ASSUME ExecutorInv, NEW k \in Check, ReserveCheck(k)
    PROVE  ExecutorInv'
  <1> USE DEF ExecutorInv
  <1>1. /\ reserved' = reserved \cup {k} /\ queue_size' = queue_size + 1
        /\ fate[k] = "none" /\ k \notin reserved /\ senders
        /\ UNCHANGED <<build, queue, num_running, inflight, fate, results, produced, late,
                       heard, cancelled, open, ended, senders>>
    BY DEF ReserveCheck, environment, loopVars
  <1>2. TypeOK'
    BY <1>1 DEF TypeOK
  <1>3. OnePlace'
    BY <1>1 DEF OnePlace
  <1>4. FateTells'
    BY <1>1 DEF FateTells, InQueue, InFlight
  <1>5. ResultIsLast'
    BY <1>1 DEF ResultIsLast
  <1>6. LoopState'
    BY <1>1 DEF LoopState
  <1>7. Counted'
    <2>1. /\ IsFiniteSet(reserved') /\ Cardinality(reserved') \in Nat
          /\ Cardinality(reserved') = Cardinality(reserved) + 1
      BY <1>1, AddedElement DEF Counted
    <2>2. Cardinality(Requeued) \in Nat /\ Cardinality(reserved) \in Nat /\ Len(queue) \in Nat
      BY RequeuedFinite, FS_CardinalityType DEF Counted, TypeOK
    <2> QED
      BY <1>1, <2>1, <2>2, KeptRequeued DEF Counted, TypeOK
  <1> QED
    BY <1>2, <1>3, <1>4, <1>5, <1>6, <1>7

LEMMA SendCheckInv ==
    ASSUME ExecutorInv, NEW k \in Check, SendCheck(k)
    PROVE  ExecutorInv'
  <1> USE DEF ExecutorInv
  <1> DEFINE item == [check |-> k, retry |-> 0]
  <1>1. /\ k \in reserved /\ open
        /\ reserved' = reserved \ {k} /\ queue' = Append(queue, item)
        /\ fate' = [fate EXCEPT ![k] = "live"] /\ heard' = heard \cup {k}
        /\ UNCHANGED <<build, queue_size, num_running, inflight, results, produced, late,
                       cancelled, open, ended, senders>>
    BY DEF SendCheck, counters, loopVars
  <1>2. item \in Item /\ item.check = k /\ item.retry = 0
    BY ExecutorAssumption DEF Item, Retry
  <1> HIDE DEF item
  <1>3. /\ queue' \in Seq(Item)
        /\ Len(queue) \in Nat /\ Len(queue') = Len(queue) + 1
        /\ \A i \in 1 .. Len(queue') : queue'[i] = IF i = Len(queue') THEN item ELSE queue[i]
        /\ \A i \in 1 .. Len(queue') : i # Len(queue') => i \in 1 .. Len(queue)
        /\ \A c : InQueue(c)' <=> InQueue(c) \/ c = k
    BY <1>1, <1>2, AppendedQueue
  <1>4. fate'[k] = "live" /\ fate[k] = "none" /\ \A c \in Check \ {k} : fate'[c] = fate[c]
    BY <1>1 DEF TypeOK, FateTells
  <1>5. \A e \in inflight : e.check # k /\ e.check \in Check
    BY <1>4, MovedFields, PhaseFacts DEF FateTells
  <1>6. \A i \in 1 .. Len(queue) : queue[i].check # k /\ queue[i].check \in Check
    BY <1>4, QueueItems DEF FateTells, InQueue
  <1>7. TypeOK'
    <2>1. fate' \in [Check -> Fate]
      BY <1>1 DEF TypeOK, Fate
    <2> QED
      BY <1>1, <1>3, <2>1 DEF TypeOK
  <1>8. OnePlace'
    <2>1. (\A i, j \in 1 .. Len(queue) : queue[i].check = queue[j].check => i = j)'
      BY <1>2, <1>3, <1>6 DEF OnePlace
    <2>2. (\A i \in 1 .. Len(queue), e \in inflight : e.check = queue[i].check =>
            ~ Active(e) /\ e.retry < queue[i].retry)'
      BY <1>1, <1>2, <1>3, <1>5 DEF OnePlace, Active
    <2> QED
      BY <1>1, <2>1, <2>2 DEF OnePlace, Active
  <1>9. FateTells'
    <2>1. \A c \in Check : InFlight(c)' <=> InFlight(c)
      BY <1>1 DEF InFlight
    <2>2. (\A c \in Check : fate[c] = "live" <=> InQueue(c) \/ InFlight(c))'
      BY <1>3, <1>4, <2>1 DEF FateTells
    <2>3. (\A e \in inflight : fate[e.check] \in { "live", "settled", "dropped" })'
      BY <1>1, <1>4, <1>5 DEF FateTells
    <2>4. (\A c \in reserved : fate[c] = "none" /\ senders)'
      BY <1>1, <1>4 DEF FateTells, TypeOK
    <2> QED
      BY <2>2, <2>3, <2>4 DEF FateTells
  <1>10. ResultIsLast'
    <2>1. results[k] = <<>>
      BY <1>1, <1>4 DEF FateTells, ResultIsLast
    <2>2. (\A i \in 1 .. Len(queue) : results[queue[i].check] = <<>>)'
      BY <2>1, <1>1, <1>2, <1>3 DEF ResultIsLast
    <2>3. (\A c \in Check : /\ fate[c] = "settled" => results[c] # <<>>
                            /\ fate[c] = "dropped" => results[c] = <<>>
                            /\ fate[c] = "none" /\ senders => results[c] = <<>>)'
      BY <1>1, <1>4 DEF ResultIsLast
    <2> QED
      BY <2>2, <2>3, <1>1 DEF ResultIsLast, Active
  <1>11. LoopState'
    BY <1>1, <1>5 DEF LoopState
  <1>12. Counted'
    <2>1. /\ IsFiniteSet(reserved') /\ Cardinality(reserved') \in Nat
          /\ Cardinality(reserved) = Cardinality(reserved') + 1
      BY <1>1, RemovedElement DEF Counted
    <2>2. Cardinality(Requeued) \in Nat
      BY RequeuedFinite DEF Counted
    <2> QED
      BY <1>1, <1>3, <2>1, <2>2, KeptRequeued DEF Counted, TypeOK
  <1> QED
    BY <1>7, <1>8, <1>9, <1>10, <1>11, <1>12

LEMMA RejectCheckInv ==
    ASSUME ExecutorInv, NEW k \in Check, RejectCheck(k)
    PROVE  ExecutorInv'
  <1> USE DEF ExecutorInv
  <1>1. /\ k \in reserved
        /\ reserved' = reserved \ {k}
        /\ fate' = [fate EXCEPT ![k] = "rejected"]
        /\ UNCHANGED <<build, queue, queue_size, num_running, inflight, results, produced, late,
                       heard, cancelled, open, ended, senders>>
    BY DEF RejectCheck, counters, loopVars, environment
  <1>2. fate'[k] = "rejected" /\ fate[k] = "none" /\ \A c \in Check \ {k} : fate'[c] = fate[c]
    BY <1>1 DEF TypeOK, FateTells
  <1>3. \A e \in inflight : e.check # k /\ e.check \in Check
    BY <1>2, MovedFields, PhaseFacts DEF FateTells
  <1>4. TypeOK'
    <2>1. fate' \in [Check -> Fate]
      BY <1>1 DEF TypeOK, Fate
    <2> QED
      BY <1>1, <2>1 DEF TypeOK
  <1>5. OnePlace'
    BY <1>1 DEF OnePlace
  <1>6. FateTells'
    <2>1. \A c \in Check : (InFlight(c)' <=> InFlight(c)) /\ (InQueue(c)' <=> InQueue(c))
      BY <1>1 DEF InFlight, InQueue
    <2>2. (\A c \in Check : fate[c] = "live" <=> InQueue(c) \/ InFlight(c))'
      BY <1>2, <2>1 DEF FateTells
    <2>3. (\A e \in inflight : fate[e.check] \in { "live", "settled", "dropped" })'
      BY <1>1, <1>2, <1>3 DEF FateTells
    <2>4. (\A c \in reserved : fate[c] = "none" /\ senders)'
      BY <1>1, <1>2 DEF FateTells, TypeOK
    <2> QED
      BY <2>2, <2>3, <2>4 DEF FateTells
  <1>7. ResultIsLast'
    <2>1. (\A c \in Check : /\ fate[c] = "settled" => results[c] # <<>>
                            /\ fate[c] = "dropped" => results[c] = <<>>
                            /\ fate[c] = "none" /\ senders => results[c] = <<>>)'
      BY <1>1, <1>2 DEF ResultIsLast
    <2> QED
      BY <1>1, <2>1 DEF ResultIsLast, Active
  <1>8. LoopState'
    BY <1>1 DEF LoopState
  <1>9. Counted'
    <2>1. /\ IsFiniteSet(reserved') /\ Cardinality(reserved') \in Nat
          /\ Cardinality(reserved) = Cardinality(reserved') + 1
      BY <1>1, RemovedElement DEF Counted
    <2>2. Cardinality(Requeued) \in Nat /\ Len(queue) \in Nat
      BY RequeuedFinite DEF Counted, TypeOK
    <2> QED
      BY <1>1, <2>1, <2>2, KeptRequeued DEF Counted, TypeOK
  <1> QED
    BY <1>4, <1>5, <1>6, <1>7, <1>8, <1>9

LEMMA TakeInv ==
    ASSUME ExecutorInv, Take
    PROVE  ExecutorInv'
  <1> USE DEF ExecutorInv
  <1> DEFINE g == [check |-> Head(queue).check, retry |-> Head(queue).retry, phase |-> "spawned"]
  <1>1. /\ LoopMayPoll /\ open /\ queue # <<>>
        /\ queue' = Tail(queue) /\ inflight' = inflight \cup {g}
        /\ queue_size' = queue_size - 1 /\ num_running' = num_running + 1
        /\ UNCHANGED <<build, reserved, fate, results, produced, late, heard, cancelled, open,
                       ended, senders>>
    BY DEF Take, environment, loopVars
  <1>2. /\ queue' \in Seq(Item) /\ Len(queue) \in Nat \ {0}
        /\ Len(queue') = Len(queue) - 1
        /\ \A i \in 1 .. Len(queue') : queue'[i] = queue[i + 1]
        /\ Head(queue) = queue[1]
    BY <1>1 DEF TypeOK
  <1>3. 1 \in 1 .. Len(queue) /\ \A i \in 1 .. Len(queue') : i + 1 \in 1 .. Len(queue)
    BY <1>2
  <1>4. queue[1] \in Item /\ queue[1].check \in Check /\ queue[1].retry \in Nat
    BY <1>3, QueueItems
  <1>5. /\ g \in Future /\ g.check = queue[1].check /\ g.retry = queue[1].retry
        /\ g.phase = "spawned"
    BY <1>2, <1>4 DEF Future, Item, Phase
  <1> HIDE DEF g
  <1>6. \A e \in inflight : e.check = g.check => ~ Active(e) /\ e.retry < g.retry
    BY <1>3, <1>5 DEF OnePlace
  <1>7. \A i \in 1 .. Len(queue') : queue'[i].check # g.check
    BY <1>2, <1>3, <1>5 DEF OnePlace
  <1>8. g \notin inflight
    BY <1>4, <1>5, <1>6
  <1>9. TypeOK'
    <2>1. queue_size' \in Nat /\ num_running' \in Nat
      <3>1. Cardinality(Requeued) \in Nat /\ Cardinality(reserved) \in Nat
        BY RequeuedFinite, FS_CardinalityType DEF Counted
      <3> QED
        BY <1>1, <1>2, <3>1 DEF Counted, TypeOK
    <2> QED
      BY <1>1, <1>2, <1>5, <2>1 DEF TypeOK
  <1>10. OnePlace'
    <2>1. (\A i, j \in 1 .. Len(queue) : queue[i].check = queue[j].check => i = j)'
      <3>1. SUFFICES ASSUME NEW i \in 1 .. Len(queue'), NEW j \in 1 .. Len(queue'),
                            queue'[i].check = queue'[j].check
                     PROVE  i = j
        OBVIOUS
      <3>2. i + 1 = j + 1
        BY <3>1, <1>2, <1>3 DEF OnePlace
      <3> QED
        BY <3>2
    <2>2. (\A e, h \in inflight : e.check = h.check /\ Active(e) =>
            e = h \/ (~ Active(h) /\ h.retry < e.retry))'
      BY <1>1, <1>5, <1>6 DEF OnePlace, Active
    <2>3. (\A i \in 1 .. Len(queue), e \in inflight : e.check = queue[i].check =>
            ~ Active(e) /\ e.retry < queue[i].retry)'
      BY <1>1, <1>2, <1>3, <1>7 DEF OnePlace, Active
    <2>4. (\A e \in inflight : e.phase \in { "retrying", "requeue" } => e.retry < FailureRetries)'
      BY <1>1, <1>5 DEF OnePlace
    <2> QED
      BY <2>1, <2>2, <2>3, <2>4 DEF OnePlace
  <1>11. FateTells'
    <2>1. \A k \in Check : InFlight(k)' <=> InFlight(k) \/ k = g.check
      BY <1>1, <1>5 DEF InFlight, Active
    <2>2. \A k \in Check : InQueue(k)' => InQueue(k)
      BY <1>2, <1>3 DEF InQueue
    <2>3. \A k \in Check : InQueue(k) /\ k # g.check => InQueue(k)'
      <3>1. SUFFICES ASSUME NEW i \in 1 .. Len(queue), queue[i].check # g.check
                     PROVE  \E j \in 1 .. Len(queue') : queue'[j].check = queue[i].check
        BY DEF InQueue
      <3>2. i # 1 /\ i - 1 \in 1 .. Len(queue')
        BY <3>1, <1>2, <1>5
      <3>3. queue'[i - 1] = queue[i]
        BY <3>2, <1>2
      <3> QED
        BY <3>2, <3>3
    <2>4. InQueue(g.check)
      BY <1>3, <1>5 DEF InQueue
    <2>5. (\A k \in Check : fate[k] = "live" <=> InQueue(k) \/ InFlight(k))'
      BY <1>1, <2>1, <2>2, <2>3, <2>4 DEF FateTells
    <2>6. fate[g.check] = "live"
      BY <2>4, <1>4, <1>5 DEF FateTells
    <2> QED
      BY <1>1, <2>5, <2>6 DEF FateTells
  <1>12. ResultIsLast'
    <2>1. results[g.check] = <<>>
      BY <1>3, <1>5 DEF ResultIsLast
    <2>2. (\A i \in 1 .. Len(queue) : results[queue[i].check] = <<>>)'
      BY <1>1, <1>2, <1>3 DEF ResultIsLast
    <2> QED
      BY <1>1, <1>5, <2>1, <2>2 DEF ResultIsLast, Active
  <1>13. LoopState'
    <2>1. g.phase \notin MidPoll
      BY <1>5 DEF MidPoll, Outcome
    <2>2. ~ ended
      BY <1>1 DEF LoopMayPoll
    <2> QED
      BY <1>1, <1>5, <2>1, <2>2 DEF LoopState
  <1>14. Counted'
    <2>1. /\ IsFiniteSet(inflight')
          /\ Cardinality(inflight') = Cardinality(inflight) + 1
      BY <1>1, <1>8, AddedElement DEF Counted
    <2>2. Requeued' = Requeued
      BY <1>1, <1>5 DEF Requeued
    <2>3. Cardinality(Requeued) \in Nat /\ Cardinality(reserved) \in Nat
      BY RequeuedFinite, FS_CardinalityType DEF Counted
    <2> QED
      BY <1>1, <1>2, <2>1, <2>2, <2>3 DEF Counted, TypeOK
  <1> QED
    BY <1>9, <1>10, <1>11, <1>12, <1>13, <1>14

LEMMA CloseStreamInv ==
    ASSUME ExecutorInv, CloseStream
    PROVE  ExecutorInv'
  <1> USE DEF ExecutorInv
  <1>1. /\ LoopMayPoll /\ open /\ cancelled
        /\ queue' = <<>> /\ open' = FALSE
        /\ fate' = [k \in Check |-> IF k \in Queued THEN "dropped" ELSE fate[k]]
        /\ UNCHANGED <<build, reserved, queue_size, num_running, inflight, results, produced,
                       late, heard, cancelled, ended, senders>>
    BY DEF CloseStream, counters, environment
  <1>2. \A k \in Check : k \in Queued <=> InQueue(k)
    BY DEF Queued, InQueue
  <1>3. \A k \in Check : InQueue(k) => ~ InFlight(k) /\ results[k] = <<>>
    BY DEF InQueue, InFlight, OnePlace, ResultIsLast
  <1>4. TypeOK'
    <2>1. fate' \in [Check -> Fate]
      BY <1>1 DEF TypeOK, Fate
    <2>2. queue' \in Seq(Item)
      BY <1>1
    <2> QED
      BY <1>1, <2>1, <2>2 DEF TypeOK
  <1>5. OnePlace'
    BY <1>1 DEF OnePlace, Active
  <1>6. FateTells'
    <2>1. \A k \in Check : ~ InQueue(k)' /\ (InFlight(k)' <=> InFlight(k))
      BY <1>1 DEF InQueue, InFlight
    <2>2. (\A k \in Check : fate[k] = "live" <=> InQueue(k) \/ InFlight(k))'
      BY <1>1, <1>2, <1>3, <2>1 DEF FateTells
    <2>3. \A e \in inflight : e.check \in Check
      BY MovedFields, PhaseFacts
    <2>4. (\A e \in inflight : fate[e.check] \in { "live", "settled", "dropped" })'
      BY <1>1, <2>3 DEF FateTells
    <2>5. (\A k \in reserved : fate[k] = "none" /\ senders)'
      BY <1>1, <1>2 DEF FateTells, TypeOK
    <2> QED
      BY <2>2, <2>4, <2>5 DEF FateTells
  <1>7. ResultIsLast'
    <2>1. (\A c \in Check : /\ fate[c] = "settled" => results[c] # <<>>
                            /\ fate[c] = "dropped" => results[c] = <<>>
                            /\ fate[c] = "none" /\ senders => results[c] = <<>>)'
      BY <1>1, <1>2, <1>3 DEF ResultIsLast
    <2> QED
      BY <1>1, <2>1 DEF ResultIsLast, Active
  <1>8. LoopState'
    <2>1. ~ ended
      BY <1>1 DEF LoopMayPoll
    <2> QED
      BY <1>1, <2>1 DEF LoopState
  <1>9. Counted'
    <2>1. Cardinality(Requeued) \in Nat /\ Cardinality(reserved) \in Nat /\ Len(queue) \in Nat
      BY RequeuedFinite, FS_CardinalityType DEF Counted, TypeOK
    <2>2. Len(queue') = 0
      BY <1>1
    <2> QED
      BY <1>1, <2>1, <2>2, KeptRequeued DEF Counted, TypeOK
  <1> QED
    BY <1>4, <1>5, <1>6, <1>7, <1>8, <1>9

LEMMA ReapInv ==
    ASSUME ExecutorInv, NEW f \in inflight, Reap(f)
    PROVE  ExecutorInv'
  <1> USE DEF ExecutorInv
  <1>1. /\ LoopMayPoll /\ f.phase = "done"
        /\ inflight' = inflight \ {f} /\ num_running' = num_running - 1
        /\ UNCHANGED <<build, reserved, queue, queue_size, fate, results, produced,
                       late, heard, cancelled, open, ended, senders>>
    BY DEF Reap, loopVars, environment
  <1>2. ~ ended
    BY <1>1 DEF LoopMayPoll
  <1>3. /\ IsFiniteSet(inflight') /\ Cardinality(inflight') \in Nat
        /\ Cardinality(inflight) = Cardinality(inflight') + 1
    BY <1>1, RemovedElement DEF Counted
  <1>4. TypeOK'
    BY <1>1, <1>2, <1>3 DEF TypeOK, Counted
  <1>5. OnePlace'
    BY <1>1 DEF OnePlace, Active
  <1>6. FateTells'
    <2>1. \A k \in Check : (InQueue(k)' <=> InQueue(k)) /\ (InFlight(k)' <=> InFlight(k))
      BY <1>1 DEF InQueue, InFlight, Active
    <2> QED
      BY <1>1, <2>1 DEF FateTells
  <1>7. ResultIsLast'
    BY <1>1 DEF ResultIsLast, Active
  <1>8. LoopState'
    BY <1>1, <1>2 DEF LoopState
  <1>9. Counted'
    <2>1. Requeued' = Requeued
      BY <1>1 DEF Requeued
    <2> QED
      BY <1>1, <1>2, <1>3, <2>1 DEF Counted
  <1> QED
    BY <1>4, <1>5, <1>6, <1>7, <1>8, <1>9

\* LoopEnds, the environment's steps and stuttering leave the checks where they are.
LEMMA OtherInv ==
    ASSUME ExecutorInv,
           \/ LoopEnds \/ Cancel \/ DropSenders \/ UNCHANGED vars
           \/ \E k \in Check : WindowPasses(k) \/ HangUp(k)
    PROVE  ExecutorInv'
  <1> USE DEF ExecutorInv
  <1>1. UNCHANGED <<build, reserved, queue, queue_size, num_running, inflight, fate, results,
                    produced, open>>
    BY DEF LoopEnds, Cancel, DropSenders, vars, WindowPasses, HangUp, counters, environment, loopVars
  <1>a. /\ cancelled' = cancelled \/ cancelled' = TRUE
        /\ senders' = senders \/ senders' = FALSE
        /\ ended' = ended \/ (ended' = TRUE /\ inflight = {} /\ ~ open)
    BY DEF LoopEnds, Cancel, DropSenders, vars, WindowPasses, HangUp, environment, loopVars
  <1>b. cancelled \in BOOLEAN /\ senders \in BOOLEAN /\ ended \in BOOLEAN
    BY DEF TypeOK
  <1>2. /\ cancelled' \in BOOLEAN /\ (cancelled => cancelled')
        /\ senders' \in BOOLEAN /\ (senders' => senders)
        /\ heard' \subseteq heard
        /\ late' \subseteq Check
    <2>1. heard' \subseteq heard /\ late' \subseteq Check
      BY DEF LoopEnds, Cancel, DropSenders, vars, WindowPasses, HangUp, environment, loopVars, TypeOK
    <2>2. cancelled' \in BOOLEAN /\ (cancelled => cancelled')
      <3>1. CASE cancelled' = cancelled
        BY <3>1, <1>b
      <3>2. CASE cancelled' = TRUE
        BY <3>2
      <3> QED
        BY <3>1, <3>2, <1>a
    <2>3. senders' \in BOOLEAN /\ (senders' => senders)
      <3>1. CASE senders' = senders
        BY <3>1, <1>b
      <3>2. CASE senders' = FALSE
        BY <3>2
      <3> QED
        BY <3>1, <3>2, <1>a
    <2> QED
      BY <2>1, <2>2, <2>3
  <1>3. /\ ended' \in BOOLEAN /\ (ended => ended')
        /\ ended' => ended \/ (inflight = {} /\ ~ open)
    <2>1. CASE ended' = ended
      BY <2>1, <1>b
    <2>2. CASE ended' = TRUE /\ inflight = {} /\ ~ open
      BY <2>2
    <2> QED
      BY <2>1, <2>2, <1>a
  <1>4. reserved # {} => senders' = senders
    BY DEF LoopEnds, Cancel, DropSenders, vars, WindowPasses, HangUp, environment, loopVars, TypeOK
  <1>5. TypeOK'
    BY <1>1, <1>2, <1>3 DEF TypeOK
  <1>6. OnePlace'
    BY <1>1 DEF OnePlace, Active
  <1>7. FateTells'
    <2>1. \A k \in Check : (InQueue(k)' <=> InQueue(k)) /\ (InFlight(k)' <=> InFlight(k))
      BY <1>1 DEF InQueue, InFlight
    <2> QED
      BY <1>1, <1>4, <2>1 DEF FateTells
  <1>8. ResultIsLast'
    BY <1>1, <1>2 DEF ResultIsLast, Active
  <1>9. LoopState'
    <2>1. (ended => inflight = {} /\ ~ open)'
      BY <1>1, <1>3 DEF LoopState
    <2>2. (~ open => queue = <<>> /\ (cancelled \/ ended))'
      BY <1>1, <1>2, <1>3 DEF LoopState
    <2> QED
      BY <1>1, <1>2, <2>1, <2>2 DEF LoopState
  <1>10. Counted'
    BY <1>1, <1>3, KeptRequeued DEF Counted
  <1> QED
    BY <1>5, <1>6, <1>7, <1>8, <1>9, <1>10

------------------------------------------------------------------------------
(* The invariant.                                                           *)

LEMMA InitExecutorInv == Init => ExecutorInv
  <1> SUFFICES ASSUME Init PROVE ExecutorInv
    OBVIOUS
  <1> USE DEF Init
  <1>1. TypeOK
    <2>1. fate \in [Check -> Fate] /\ results \in [Check -> Seq(Outcome)] /\ queue \in Seq(Item)
      BY DEF Fate
    <2> QED
      BY <2>1 DEF TypeOK
  <1>2. OnePlace
    BY DEF OnePlace
  <1>3. FateTells
    BY DEF FateTells, InQueue, InFlight
  <1>4. ResultIsLast
    BY DEF ResultIsLast
  <1>5. LoopState
    BY DEF LoopState
  <1>6. Counted
    <2>1. Requeued = {}
      BY DEF Requeued
    <2> QED
      BY <2>1, FS_EmptySet DEF Counted
  <1> QED
    BY <1>1, <1>2, <1>3, <1>4, <1>5, <1>6 DEF ExecutorInv

\* A panic that does not abort the process ends the future with the outcome given.
LEMMA PanicsInv ==
    ASSUME ExecutorInv, NEW f \in inflight, RetryPanics(f) \/ RecordPanics(f)
    PROVE  ExecutorInv'
  <1> DEFINE outcome == IF f.phase = "recording" THEN "settled" ELSE "dropped"
             phase == IF build.inline_tasks THEN "panicked" ELSE "done"
  <1>1. CASE build.panic_aborts
    BY <1>1, AbortInv DEF RetryPanics, RecordPanics, Panics
  <1>2. CASE ~ build.panic_aborts
    <2>1. /\ Polled(f) /\ Becomes(f, phase)
          /\ fate' = [fate EXCEPT ![f.check] = outcome]
          /\ UNCHANGED <<reserved, queue, counters, results, produced, environment, loopVars>>
          /\ f.phase = IF outcome = "settled" THEN "recording" ELSE "requeue"
      BY <1>2 DEF RetryPanics, RecordPanics, Panics
    <2>2. cancelled \/ f.check \notin heard
      BY DEF RetryPanics, RecordPanics, ExecutorInv, LoopState
    <2>3. phase \in { "done", "panicked" } /\ outcome \in { "settled", "dropped" }
      OBVIOUS
    <2>4. phase = "panicked" => build.inline_tasks /\ (cancelled \/ f.check \notin heard)
      BY <2>2
    <2> HIDE DEF outcome, phase
    <2> QED
      BY <2>1, <2>3, <2>4, LastMove
  <1> QED
    BY <1>1, <1>2

LEMMA FutureStepInv ==
    ASSUME ExecutorInv, NEW f \in inflight, FutureStep(f)
    PROVE  ExecutorInv'
  <1>1. CASE StartCheck(f)
    <2> DEFINE phase == IF f.check \in late THEN "missed" ELSE "checking"
    <2>1. phase \in Phase /\ phase \notin { "retrying", "requeue", "recording", "done", "panicked" }
      BY PhaseFacts
    <2>2. /\ Polled(f) /\ f.phase = "spawned" /\ Becomes(f, phase)
          /\ UNCHANGED <<reserved, queue, counters, fate, results, produced, environment, loopVars>>
      BY <1>1 DEF StartCheck
    <2> HIDE DEF phase
    <2> QED
      BY <2>1, <2>2, QuietMove DEF counters
  <1>2. ASSUME NEW outcome \in {"success", "failure"}, FinishCheck(f, outcome)
        PROVE  ExecutorInv'
    <2> DEFINE phase == IF outcome = "failure" /\ f.retry < FailureRetries
                        THEN "retrying" ELSE outcome
    <2>1. /\ phase \in Phase /\ phase \notin { "requeue", "recording", "done", "panicked" }
          /\ phase = "retrying" => f.retry < FailureRetries
      BY PhaseFacts
    <2>2. /\ Polled(f) /\ f.phase = "checking" /\ Becomes(f, phase)
          /\ UNCHANGED <<reserved, queue, counters, fate, results, produced, environment, loopVars>>
      BY <1>2 DEF FinishCheck
    <2> HIDE DEF phase
    <2> QED
      BY <2>1, <2>2, QuietMove DEF counters
  <1>3. CASE ReserveRetry(f)
    <2>1. f.phase = "retrying" /\ f.retry < FailureRetries
      BY <1>3 DEF ReserveRetry, ExecutorInv, OnePlace
    <2>2. "requeue" \in Phase
      BY PhaseFacts
    <2> QED
      BY <1>3, <2>1, <2>2, QuietMove DEF ReserveRetry
  <1>4. CASE SendRetry(f)
    BY <1>4, SendRetryInv
  <1>5. CASE RetryPanics(f) \/ RecordPanics(f)
    BY <1>5, PanicsInv
  <1>6. CASE \E delivered \in BOOLEAN : Produce(f, delivered)
    BY <1>6, ProduceInv
  <1>7. CASE RecordResult(f)
    BY <1>7, LastMove DEF RecordResult
  <1>8. CASE Unwind(f)
    BY <1>8, UnwindInv
  <1> QED
    BY <1>1, <1>2, <1>3, <1>4, <1>5, <1>6, <1>7, <1>8 DEF FutureStep

LEMMA ExecutorInvStep == ExecutorInv /\ [Next]_vars => ExecutorInv'
  <1> SUFFICES ASSUME ExecutorInv, [Next]_vars PROVE ExecutorInv'
    OBVIOUS
  <1>1. CASE \E k \in Check : ReserveCheck(k) \/ SendCheck(k) \/ RejectCheck(k)
    BY <1>1, ReserveCheckInv, SendCheckInv, RejectCheckInv
  <1>2. CASE \E k \in Check : WindowPasses(k) \/ HangUp(k)
    BY <1>2, OtherInv
  <1>3. CASE Take
    BY <1>3, TakeInv
  <1>4. CASE CloseStream
    BY <1>4, CloseStreamInv
  <1>5. CASE LoopEnds \/ Cancel \/ DropSenders \/ UNCHANGED vars
    BY <1>5, OtherInv
  <1>6. CASE \E f \in inflight : Reap(f)
    BY <1>6, ReapInv
  <1>7. CASE \E f \in inflight : FutureStep(f)
    BY <1>7, FutureStepInv
  <1>8. CASE Idle
    BY <1>8, OtherInv DEF Idle
  <1> QED
    BY <1>1, <1>2, <1>3, <1>4, <1>5, <1>6, <1>7, <1>8 DEF Next

LEMMA ExecutorInvHolds == Safety => []ExecutorInv
  BY InitExecutorInv, ExecutorInvStep, PTL DEF Safety

------------------------------------------------------------------------------
(* What the invariant says.                                                 *)

\* Counting the copies of a check finds its one place.
LEMMA CopiesOf ==
    ASSUME ExecutorInv, NEW k \in Check
    PROVE  Copies(k) = IF InQueue(k) \/ InFlight(k) THEN 1 ELSE 0
  <1> USE DEF ExecutorInv
  <1> DEFINE Q == { i \in 1 .. Len(queue) : queue[i].check = k }
             F == { f \in inflight : f.check = k /\ f.phase \notin {"done", "panicked"} }
  <1>1. Copies(k) = Cardinality(Q) + Cardinality(F)
    BY DEF Copies
  <1>2. Q # {} <=> InQueue(k)
    BY DEF InQueue
  <1>3. F # {} <=> InFlight(k)
    BY DEF InFlight, Active
  <1>4. Q # {} => F = {}
    BY DEF OnePlace, Active
  <1>5. Q # {} => \E i : Q = {i}
    BY DEF OnePlace
  <1>6. F # {} => \E f : F = {f}
    BY DEF OnePlace, Active
  <1> HIDE DEF Q, F
  <1>7. Cardinality({}) = 0 /\ \A x : Cardinality({x}) = 1
    BY FS_EmptySet, FS_Singleton
  <1>8. CASE Q # {}
    <2>1. Cardinality(Q) = 1 /\ Cardinality(F) = 0
      BY <1>8, <1>4, <1>5, <1>7
    <2> QED
      BY <2>1, <1>1, <1>2, <1>8
  <1>9. CASE Q = {} /\ F # {}
    <2>1. Cardinality(Q) = 0 /\ Cardinality(F) = 1
      BY <1>9, <1>6, <1>7
    <2> QED
      BY <2>1, <1>1, <1>3, <1>9
  <1>10. CASE Q = {} /\ F = {}
    <2>1. Cardinality(Q) = 0 /\ Cardinality(F) = 0
      BY <1>10, <1>7
    <2> QED
      BY <2>1, <1>1, <1>2, <1>3, <1>10
  <1> QED
    BY <1>8, <1>9, <1>10

\* The gauges never wrap: queue_check and queue_check_for_retry count a check before
\* they send it, so the loop's fetch_sub always finds it counted.
THEOREM CountersCoverWorkHolds == Safety => []CountersCoverWork
  <1>1. ExecutorInv => CountersCoverWork
    <2> SUFFICES ASSUME ExecutorInv PROVE CountersCoverWork
      OBVIOUS
    <2>1. Cardinality(Requeued) \in Nat /\ Cardinality(reserved) \in Nat /\ Len(queue) \in Nat
      BY RequeuedFinite, FS_CardinalityType DEF ExecutorInv, Counted, TypeOK
    <2> QED
      BY <2>1 DEF ExecutorInv, Counted, CountersCoverWork, TypeOK
  <1> QED
    BY <1>1, ExecutorInvHolds, PTL

\* do_check gives the producer at most one result per check, over all its retries, and
\* once it has, no copy of the check is left to run.
THEOREM OneResultPerCheckHolds == Safety => []OneResultPerCheck
  <1>1. ExecutorInv => OneResultPerCheck
    <2> SUFFICES ASSUME ExecutorInv, NEW k \in Check
                 PROVE  /\ Len(results[k]) <= 1
                        /\ results[k] # <<>> =>
                              \/ Copies(k) = 0
                              \/ /\ Copies(k) = 1
                                 /\ \E f \in inflight : f.check = k /\ f.phase = "recording"
      BY DEF OneResultPerCheck
    <2>1. Len(results[k]) <= 1
      BY DEF ExecutorInv, ResultIsLast
    <2>2. results[k] # <<>> => ~ InQueue(k)
      BY DEF ExecutorInv, ResultIsLast, InQueue
    <2>3. results[k] # <<>> /\ InFlight(k) =>
            \E f \in inflight : f.check = k /\ f.phase = "recording"
      BY DEF ExecutorInv, ResultIsLast, InFlight
    <2> QED
      BY <2>1, <2>2, <2>3, CopiesOf
  <1> QED
    BY <1>1, ExecutorInvHolds, PTL

\* record_result resolves the oneshot only after produce_checker_result, and an accepted
\* check that is neither resolved nor dropped is in the queue or in one future.
THEOREM OneshotTellsTheTruthHolds == Safety => []OneshotTellsTheTruth
  <1>1. ExecutorInv => OneshotTellsTheTruth
    <2> SUFFICES ASSUME ExecutorInv, NEW k \in Check
                 PROVE  /\ fate[k] = "settled" => results[k] # <<>>
                        /\ fate[k] = "dropped" => results[k] = <<>>
                        /\ fate[k] = "live" <=> Copies(k) = 1
      BY DEF OneshotTellsTheTruth
    <2>1. /\ fate[k] = "settled" => results[k] # <<>>
          /\ fate[k] = "dropped" => results[k] = <<>>
      BY DEF ExecutorInv, ResultIsLast
    <2>2. fate[k] = "live" <=> Copies(k) = 1
      BY CopiesOf DEF ExecutorInv, FateTells
    <2> QED
      BY <2>1, <2>2
  <1> QED
    BY <1>1, ExecutorInvHolds, PTL

\* How a step can change the fate of a check.
LEMMA FateSteps ==
    ASSUME ExecutorInv, [Next]_vars
    PROVE  \/ fate' = fate
           \/ \E k \in Check : SendCheck(k) \/ RejectCheck(k)
           \/ CloseStream
           \/ \E f \in inflight : RecordResult(f) \/ RetryPanics(f) \/ RecordPanics(f) \/ Unwind(f)
  <1>1. CASE \E k \in Check : ReserveCheck(k) \/ WindowPasses(k) \/ HangUp(k)
    BY <1>1 DEF ReserveCheck, WindowPasses, HangUp
  <1>2. CASE Take \/ LoopEnds \/ Cancel \/ DropSenders \/ Idle \/ UNCHANGED vars
    BY <1>2 DEF Take, LoopEnds, Cancel, DropSenders, Idle, vars
  <1>3. CASE \E f \in inflight :
               \/ Reap(f) \/ StartCheck(f) \/ ReserveRetry(f) \/ SendRetry(f)
               \/ \E outcome \in {"success", "failure"} : FinishCheck(f, outcome)
               \/ \E delivered \in BOOLEAN : Produce(f, delivered)
    BY <1>3 DEF Reap, StartCheck, ReserveRetry, SendRetry, FinishCheck, Produce
  <1> QED
    BY <1>1, <1>2, <1>3 DEF Next, FutureStep

\* A check that was accepted is lost only when the executor is being cancelled, or when
\* the expect of record_result fails because the scheduler hung up.
THEOREM LosesOnlyWhenStoppedHolds == Safety => LosesOnlyWhenStopped
  <1> DEFINE Excuse == \/ cancelled
                       \/ \E f \in inflight : f.phase \in { "recording", "panicked" } /\ f.check \notin heard
             Lost(k) == fate[k] = "live" /\ fate'[k] \in { "dropped", "none" }
  <1>1. ASSUME ExecutorInv, [Next]_vars, NEW k \in Check, Lost(k)
        PROVE  Excuse
    <2> USE <1>1
    <2>1. CASE fate' = fate
      BY <2>1
    <2>2. ASSUME NEW c \in Check, SendCheck(c) \/ RejectCheck(c)
          PROVE  Excuse
      <3>1. fate[c] = "none" /\ (k # c => fate'[k] = fate[k])
        BY <2>2 DEF SendCheck, RejectCheck, ExecutorInv, FateTells, TypeOK
      <3> QED
        BY <3>1
    <2>3. CASE CloseStream
      BY <2>3 DEF CloseStream
    <2>4. ASSUME NEW f \in inflight, RecordResult(f)
          PROVE  Excuse
      <3>1. fate'[k] = IF k = f.check THEN "settled" ELSE fate[k]
        BY <2>4 DEF RecordResult, ExecutorInv, TypeOK
      <3> QED
        BY <3>1
    <2>5. ASSUME NEW f \in inflight, RetryPanics(f)
          PROVE  Excuse
      BY <2>5 DEF RetryPanics, ExecutorInv, LoopState
    <2>6. ASSUME NEW f \in inflight, RecordPanics(f)
          PROVE  Excuse
      BY <2>6 DEF RecordPanics
    <2>7. ASSUME NEW f \in inflight, Unwind(f)
          PROVE  Excuse
      BY <2>7 DEF Unwind, ExecutorInv, LoopState
    <2> QED
      BY <2>1, <2>2, <2>3, <2>4, <2>5, <2>6, <2>7, FateSteps
  <1>2. ExecutorInv /\ [Next]_vars => [\A k \in Check : Lost(k) => Excuse]_vars
    BY <1>1
  <1> QED
    BY <1>2, ExecutorInvHolds, PTL DEF Safety, LosesOnlyWhenStopped

------------------------------------------------------------------------------
(* The executor keeps its promise to the scheduler.                         *)

\* A future of check k holds a result that the producer was given.
Recording(k) == \E f \in inflight : f.check = k /\ f.phase = "recording"

LEMMA StatusTells ==
    ASSUME NEW k \in Check
    PROVE  /\ fate[k] = "live" => StatusOf(k) = IF Recording(k) THEN "published" ELSE "pending"
           /\ fate[k] \in { "settled", "dropped" } => StatusOf(k) = fate[k]
           /\ fate[k] \notin { "live", "settled", "dropped" } => StatusOf(k) = "none"
  BY DEF StatusOf, Recording

LEMMA StatusTellsNext ==
    ASSUME NEW k \in Check
    PROVE  /\ fate'[k] = "live" => StatusOf(k)' = IF Recording(k)' THEN "published" ELSE "pending"
           /\ fate'[k] \in { "settled", "dropped" } => StatusOf(k)' = fate'[k]
           /\ fate'[k] \notin { "live", "settled", "dropped" } => StatusOf(k)' = "none"
  BY DEF StatusOf, Recording

\* A future that moves on without or after recording changes that for its check alone.
LEMMA BecomesRecording ==
    ASSUME ExecutorInv, NEW f \in inflight, NEW phase \in Phase, Active(f), Becomes(f, phase),
           NEW k \in Check
    PROVE  /\ k # f.check => (Recording(k)' <=> Recording(k))
           /\ k = f.check => /\ Recording(k)' <=> phase = "recording"
                             /\ Recording(k) <=> f.phase = "recording"
  <1> DEFINE g == Moved(f, phase)
  <1> USE DEF ExecutorInv
  <1>1. inflight' = (inflight \ {f}) \cup {g}
    BY DEF Becomes, Moved
  <1>2. g.check = f.check /\ g.phase = phase
    BY MovedFields
  <1> HIDE DEF g
  <1>3. \A e \in inflight \ {f} : e.check = f.check => e.phase # "recording"
    BY DEF OnePlace, Active
  <1> QED
    BY <1>1, <1>2, <1>3 DEF Recording

\* The abstract state that CheckExecutor's state stands for
AbstractStatus == [p \in {"p"} |-> [k \in Check |-> StatusOf(k)]]
AbstractOpen == [p \in {"p"} |-> open]

\* One check moves from one status to another.
LEMMA OneMoves ==
    ASSUME NEW k \in Check, NEW from, NEW to, StatusOf(k) = from, StatusOf(k)' = to,
           \A c \in Check \ {k} : StatusOf(c)' = StatusOf(c)
    PROVE  Promise!Move("p", k, {from}, to)
  <1>1. AbstractStatus["p"][k] \in {from}
    BY DEF AbstractStatus
  <1>2. AbstractStatus' = [AbstractStatus EXCEPT !["p"][k] = to]
    BY DEF AbstractStatus
  <1> QED
    BY <1>1, <1>2 DEF AbstractStatus, Promise!Move

\* Nothing of the abstract state has changed.
LEMMA Stutters ==
    ASSUME \A k \in Check : StatusOf(k)' = StatusOf(k), UNCHANGED <<open, produced>>
    PROVE  UNCHANGED Promise!promiseVars
  <1>1. AbstractStatus' = AbstractStatus /\ AbstractOpen' = AbstractOpen
    BY DEF AbstractStatus, AbstractOpen
  <1> QED
    BY <1>1 DEF AbstractStatus, AbstractOpen, Promise!promiseVars

\* A future that moves on between two phases other than recording is no step of the
\* promise: a retry included.
LEMMA QuietStutters ==
    ASSUME ExecutorInv, NEW f \in inflight, NEW phase \in Phase, Active(f), Becomes(f, phase),
           f.phase # "recording", phase # "recording",
           UNCHANGED <<fate, open, produced>>
    PROVE  UNCHANGED Promise!promiseVars
  <1>1. ASSUME NEW k \in Check
        PROVE  StatusOf(k)' = StatusOf(k)
    <2>1. Recording(k)' <=> Recording(k)
      BY <1>1, BecomesRecording
    <2> QED
      BY <1>1, <2>1, StatusTells, StatusTellsNext
  <1> QED
    BY <1>1, Stutters

\* Steps that leave fate and futures alone
LEMMA KeptStutters ==
    ASSUME UNCHANGED <<fate, open, produced>>, \A k \in Check : Recording(k)' <=> Recording(k)
    PROVE  UNCHANGED Promise!promiseVars
  <1>1. \A k \in Check : StatusOf(k)' = StatusOf(k)
    BY StatusTells, StatusTellsNext
  <1> QED
    BY <1>1, Stutters

LEMMA AcceptStep ==
    ASSUME ExecutorInv, NEW k \in Check, SendCheck(k)
    PROVE  Promise!Accept("p", k)
  <1>1. /\ k \in reserved /\ open /\ fate' = [fate EXCEPT ![k] = "live"]
        /\ UNCHANGED <<inflight, open, produced>>
    BY DEF SendCheck, loopVars
  <1>2. /\ fate[k] = "none" /\ fate'[k] = "live"
        /\ \A c \in Check \ {k} : fate'[c] = fate[c]
    BY <1>1 DEF ExecutorInv, FateTells, TypeOK
  <1>3. (\A c \in Check : Recording(c)' <=> Recording(c)) /\ ~ Recording(k)
    BY <1>1, <1>2 DEF Recording, ExecutorInv, FateTells
  <1>4. StatusOf(k) = "none" /\ StatusOf(k)' = "pending"
    BY <1>2, <1>3, StatusTells, StatusTellsNext
  <1>5. \A c \in Check \ {k} : StatusOf(c)' = StatusOf(c)
    BY <1>2, <1>3, StatusTells, StatusTellsNext
  <1>6. Promise!Move("p", k, {"none"}, "pending")
    BY <1>4, <1>5, OneMoves
  <1>7. AbstractOpen["p"] /\ AbstractOpen' = AbstractOpen
    BY <1>1 DEF AbstractOpen
  <1> QED
    BY <1>1, <1>6, <1>7 DEF AbstractOpen, Promise!Accept

LEMMA PublishStep ==
    ASSUME ExecutorInv, NEW f \in inflight, NEW delivered \in BOOLEAN, Produce(f, delivered)
    PROVE  Promise!Publish("p", f.check) \/ Promise!PublishFails("p", f.check)
  <1>1. /\ f.phase \in Outcome /\ Becomes(f, "recording")
        /\ produced' = IF delivered THEN produced \cup {f.check} ELSE produced
        /\ UNCHANGED <<fate, open>>
    BY DEF Produce, loopVars
  <1>2. Active(f) /\ f.phase # "recording" /\ "recording" \in Phase /\ f.check \in Check
    BY <1>1, MovedFields, PhaseFacts DEF Outcome, Active, ExecutorInv
  <1>3. fate[f.check] = "live"
    BY <1>2 DEF ExecutorInv, FateTells, InFlight
  <1>4. /\ \A k \in Check \ {f.check} : Recording(k)' <=> Recording(k)
        /\ Recording(f.check)' /\ ~ Recording(f.check)
    BY <1>1, <1>2, BecomesRecording
  <1>5. StatusOf(f.check) = "pending" /\ StatusOf(f.check)' = "published"
    BY <1>1, <1>2, <1>3, <1>4, StatusTells, StatusTellsNext
  <1>6. \A c \in Check \ {f.check} : StatusOf(c)' = StatusOf(c)
    BY <1>1, <1>4, StatusTells, StatusTellsNext
  <1>7. Promise!Move("p", f.check, {"pending"}, "published")
    BY <1>2, <1>5, <1>6, OneMoves
  <1>8. AbstractOpen' = AbstractOpen
    BY <1>1 DEF AbstractOpen
  <1> QED
    BY <1>1, <1>7, <1>8 DEF AbstractOpen, Promise!Publish, Promise!PublishFails

\* RecordResult, and the same when nobody listens and the process survives it
LEMMA SettleStep ==
    ASSUME ExecutorInv, NEW f \in inflight, NEW phase \in { "done", "panicked" },
           f.phase = "recording", Becomes(f, phase),
           fate' = [fate EXCEPT ![f.check] = "settled"], UNCHANGED <<open, produced>>
    PROVE  Promise!Settle("p", f.check)
  <1>1. Active(f) /\ phase \in Phase /\ phase # "recording" /\ f.check \in Check
    BY MovedFields, PhaseFacts DEF Active, ExecutorInv
  <1>2. fate[f.check] = "live"
    BY <1>1 DEF ExecutorInv, FateTells, InFlight
  <1>3. fate'[f.check] = "settled" /\ \A c \in Check \ {f.check} : fate'[c] = fate[c]
    BY <1>1 DEF ExecutorInv, TypeOK
  <1>4. /\ \A k \in Check \ {f.check} : Recording(k)' <=> Recording(k)
        /\ Recording(f.check)
    BY <1>1, BecomesRecording
  <1>5. StatusOf(f.check) = "published" /\ StatusOf(f.check)' = "settled"
    BY <1>1, <1>2, <1>3, <1>4, StatusTells, StatusTellsNext
  <1>6. \A c \in Check \ {f.check} : StatusOf(c)' = StatusOf(c)
    BY <1>3, <1>4, StatusTells, StatusTellsNext
  <1>7. Promise!Move("p", f.check, {"published"}, "settled")
    BY <1>1, <1>5, <1>6, OneMoves
  <1>8. AbstractOpen' = AbstractOpen
    BY DEF AbstractOpen
  <1> QED
    BY <1>7, <1>8 DEF AbstractOpen, Promise!Settle

\* The checks in K are dropped, and the queue closes with them or was closed before.
LEMMA DropStep ==
    ASSUME NEW K \in SUBSET Check,
           \A k \in K : StatusOf(k) = "pending" /\ StatusOf(k)' = "dropped",
           \A k \in Check \ K : StatusOf(k)' = StatusOf(k),
           open \in BOOLEAN, open' = FALSE, UNCHANGED produced
    PROVE  Promise!Close("p", K) \/ Promise!Drop("p", K)
  <1>1. \A k \in K : AbstractStatus["p"][k] = "pending"
    BY DEF AbstractStatus
  <1>2. AbstractStatus' =
          [AbstractStatus EXCEPT !["p"] = [k \in Check |-> IF k \in K THEN "dropped" ELSE @[k]]]
    BY DEF AbstractStatus
  <1>3. CASE open
    <2>1. AbstractOpen["p"] /\ AbstractOpen' = [AbstractOpen EXCEPT !["p"] = FALSE]
      BY <1>3 DEF AbstractOpen
    <2> QED
      BY <1>1, <1>2, <2>1 DEF AbstractStatus, AbstractOpen, Promise!Close
  <1>4. CASE ~ open
    <2>1. open' = open
      BY <1>4
    <2>2. ~ AbstractOpen["p"] /\ AbstractOpen' = AbstractOpen
      BY <1>4, <2>1 DEF AbstractOpen
    <2> QED
      BY <1>1, <1>2, <2>2 DEF AbstractStatus, AbstractOpen, Promise!Drop
  <1> QED
    BY <1>3, <1>4

LEMMA CloseStep ==
    ASSUME ExecutorInv, CloseStream
    PROVE  \E K \in SUBSET Check : Promise!Close("p", K) \/ Promise!Drop("p", K)
  <1> DEFINE K == { k \in Check : k \in Queued }
  <1>1. /\ open' = FALSE
        /\ fate' = [k \in Check |-> IF k \in Queued THEN "dropped" ELSE fate[k]]
        /\ UNCHANGED <<inflight, produced>>
    BY DEF CloseStream
  <1>2. \A k \in K : fate[k] = "live" /\ ~ Recording(k)
    <2>1. \A k \in K : InQueue(k)
      BY DEF Queued, InQueue
    <2>2. \A k \in K : ~ Recording(k)
      BY <2>1 DEF InQueue, Recording, ExecutorInv, OnePlace, Active
    <2> QED
      BY <2>1, <2>2 DEF ExecutorInv, FateTells
  <1>3. \A k \in Check : Recording(k)' <=> Recording(k)
    BY <1>1 DEF Recording
  <1>4. \A k \in K : StatusOf(k) = "pending" /\ StatusOf(k)' = "dropped"
    BY <1>1, <1>2, StatusTells, StatusTellsNext
  <1>5. \A k \in Check \ K : StatusOf(k)' = StatusOf(k)
    BY <1>1, <1>3, StatusTells, StatusTellsNext
  <1>6. open \in BOOLEAN /\ K \in SUBSET Check
    BY DEF ExecutorInv, TypeOK
  <1> HIDE DEF K
  <1> QED
    BY <1>1, <1>4, <1>5, <1>6, DropStep

LEMMA UnwindStep ==
    ASSUME ExecutorInv, NEW f \in inflight, Unwind(f)
    PROVE  \E K \in SUBSET Check : Promise!Close("p", K) \/ Promise!Drop("p", K)
  <1> DEFINE K == { k \in Check : fate[k] = "live" }
  <1>1. /\ open' = FALSE /\ f.phase = "panicked"
        /\ fate' = [k \in Check |-> IF fate[k] = "live" THEN "dropped" ELSE fate[k]]
        /\ UNCHANGED produced
    BY DEF Unwind
  <1>2. \A k \in K : ~ Recording(k)
    BY <1>1, UnwindLive DEF Recording
  <1>3. \A k \in K : StatusOf(k) = "pending" /\ StatusOf(k)' = "dropped"
    BY <1>1, <1>2, StatusTells, StatusTellsNext
  <1>4. \A k \in Check \ K : StatusOf(k)' = StatusOf(k)
    BY <1>1, StatusTells, StatusTellsNext
  <1>5. open \in BOOLEAN /\ K \in SUBSET Check
    BY DEF ExecutorInv, TypeOK
  <1> HIDE DEF K
  <1> QED
    BY <1>1, <1>3, <1>4, <1>5, DropStep

LEMMA AbortStep ==
    ASSUME AbortProcess
    PROVE  Promise!Abort("p")
  <1>1. \A k \in Check : StatusOf(k)' = "none"
    BY StatusTellsNext DEF AbortProcess
  <1>2. AbstractStatus' = [AbstractStatus EXCEPT !["p"] = [k \in Check |-> "none"]]
    BY <1>1 DEF AbstractStatus
  <1>3. open' = FALSE /\ produced' = produced
    BY DEF AbortProcess
  <1>4. AbstractOpen' = [AbstractOpen EXCEPT !["p"] = FALSE]
    BY <1>3 DEF AbstractOpen
  <1> QED
    BY <1>2, <1>3, <1>4 DEF AbstractStatus, AbstractOpen, Promise!Abort

LEMMA PanicStep ==
    ASSUME ExecutorInv, NEW f \in inflight, RetryPanics(f) \/ RecordPanics(f)
    PROVE  \/ Promise!Abort("p")
           \/ Promise!Settle("p", f.check)
           \/ \E K \in SUBSET Check : Promise!Close("p", K) \/ Promise!Drop("p", K)
  <1> DEFINE phase == IF build.inline_tasks THEN "panicked" ELSE "done"
  <1>0. f.check \in Check /\ phase \in { "done", "panicked" } /\ phase \in Phase
    BY MovedFields, PhaseFacts DEF ExecutorInv
  <1>1. CASE build.panic_aborts
    BY <1>1, AbortStep DEF RetryPanics, RecordPanics, Panics
  <1>2. CASE ~ build.panic_aborts /\ RecordPanics(f)
    <2>1. /\ f.phase = "recording" /\ Becomes(f, phase)
          /\ fate' = [fate EXCEPT ![f.check] = "settled"] /\ UNCHANGED <<open, produced>>
      BY <1>2 DEF RecordPanics, Panics, loopVars
    <2> HIDE DEF phase
    <2> QED
      BY <1>0, <2>1, SettleStep
  <1>3. CASE ~ build.panic_aborts /\ RetryPanics(f)
    <2>1. /\ f.phase = "requeue" /\ Becomes(f, phase) /\ ~ open
          /\ fate' = [fate EXCEPT ![f.check] = "dropped"] /\ UNCHANGED <<open, produced>>
      BY <1>3 DEF RetryPanics, Panics, loopVars
    <2> HIDE DEF phase
    <2>2. Active(f)
      BY <2>1 DEF Active
    <2>3. fate[f.check] = "live"
      BY <1>0, <2>2 DEF ExecutorInv, FateTells, InFlight
    <2>4. fate'[f.check] = "dropped" /\ \A c \in Check \ {f.check} : fate'[c] = fate[c]
      BY <1>0, <2>1 DEF ExecutorInv, TypeOK
    <2>5. /\ \A k \in Check \ {f.check} : Recording(k)' <=> Recording(k)
          /\ ~ Recording(f.check)
      BY <1>0, <2>1, <2>2, BecomesRecording
    <2>6. StatusOf(f.check) = "pending" /\ StatusOf(f.check)' = "dropped"
      BY <1>0, <2>3, <2>4, <2>5, StatusTells, StatusTellsNext
    <2>7. \A c \in Check \ {f.check} : StatusOf(c)' = StatusOf(c)
      BY <2>4, <2>5, StatusTells, StatusTellsNext
    <2>8. open \in BOOLEAN
      BY DEF ExecutorInv, TypeOK
    <2>9. open' = FALSE
      BY <2>1, <2>8
    <2>10. {f.check} \in SUBSET Check /\ produced' = produced
      BY <1>0, <2>1
    <2>11. Promise!Close("p", {f.check}) \/ Promise!Drop("p", {f.check})
      BY <2>6, <2>7, <2>8, <2>9, <2>10, DropStep
    <2> QED
      BY <2>10, <2>11
  <1> QED
    BY <1>1, <1>2, <1>3

\* A step that is none of the above is no step of the promise.
LEMMA StutterStep ==
    ASSUME ExecutorInv,
           \/ \E k \in Check : ReserveCheck(k) \/ RejectCheck(k) \/ WindowPasses(k) \/ HangUp(k)
           \/ Take \/ LoopEnds \/ Cancel \/ DropSenders \/ UNCHANGED vars
           \/ \E f \in inflight :
                 \/ Reap(f) \/ StartCheck(f) \/ ReserveRetry(f) \/ SendRetry(f)
                 \/ \E outcome \in {"success", "failure"} : FinishCheck(f, outcome)
    PROVE  UNCHANGED Promise!promiseVars
  <1>1. CASE \/ \E k \in Check : ReserveCheck(k) \/ WindowPasses(k) \/ HangUp(k)
             \/ LoopEnds \/ Cancel \/ DropSenders \/ UNCHANGED vars
    <2>1. UNCHANGED <<fate, inflight, open, produced>>
      BY <1>1 DEF ReserveCheck, WindowPasses, HangUp, LoopEnds, Cancel, DropSenders, vars, loopVars
    <2>2. \A k \in Check : Recording(k)' <=> Recording(k)
      BY <2>1 DEF Recording
    <2> QED
      BY <2>1, <2>2, KeptStutters
  <1>2. ASSUME NEW k \in Check, RejectCheck(k)
        PROVE  UNCHANGED Promise!promiseVars
    <2>1. /\ fate[k] = "none" /\ fate'[k] = "rejected"
          /\ \A c \in Check \ {k} : fate'[c] = fate[c]
          /\ UNCHANGED <<inflight, open, produced>>
      BY <1>2 DEF RejectCheck, loopVars, ExecutorInv, FateTells, TypeOK
    <2>2. \A c \in Check : Recording(c)' <=> Recording(c)
      BY <2>1 DEF Recording
    <2>3. \A c \in Check : StatusOf(c)' = StatusOf(c)
      BY <2>1, <2>2, StatusTells, StatusTellsNext
    <2> QED
      BY <2>1, <2>3, Stutters
  <1>3. CASE Take \/ \E f \in inflight : Reap(f)
    <2>1. UNCHANGED <<fate, open, produced>>
      BY <1>3 DEF Take, Reap, loopVars
    <2>2. \A k \in Check : Recording(k)' <=> Recording(k)
      BY <1>3 DEF Take, Reap, Recording
    <2> QED
      BY <2>1, <2>2, KeptStutters
  <1>4. ASSUME NEW f \in inflight,
               \/ StartCheck(f) \/ ReserveRetry(f) \/ SendRetry(f)
               \/ \E outcome \in {"success", "failure"} : FinishCheck(f, outcome)
        PROVE  UNCHANGED Promise!promiseVars
    <2>1. UNCHANGED <<fate, open, produced>>
      BY <1>4 DEF StartCheck, ReserveRetry, SendRetry, FinishCheck, loopVars
    <2>2. Active(f) /\ f.phase # "recording"
      BY <1>4 DEF StartCheck, ReserveRetry, SendRetry, FinishCheck, Active
    <2>3. \E phase \in Phase : phase # "recording" /\ Becomes(f, phase)
      <3>1. CASE StartCheck(f)
        BY <3>1, PhaseFacts DEF StartCheck
      <3>2. CASE ReserveRetry(f)
        BY <3>2, PhaseFacts DEF ReserveRetry
      <3>3. CASE SendRetry(f)
        BY <3>3, PhaseFacts DEF SendRetry
      <3>4. ASSUME NEW outcome \in {"success", "failure"}, FinishCheck(f, outcome)
            PROVE  \E phase \in Phase : phase # "recording" /\ Becomes(f, phase)
        BY <3>4, PhaseFacts DEF FinishCheck
      <3> QED
        BY <1>4, <3>1, <3>2, <3>3, <3>4
    <2> QED
      BY <2>1, <2>2, <2>3, QuietStutters
  <1> QED
    BY <1>1, <1>2, <1>3, <1>4

LEMMA PromiseStep == ExecutorInv /\ [Next]_vars => [Promise!PromiseNext]_(Promise!promiseVars)
  <1> SUFFICES ASSUME ExecutorInv, [Next]_vars
               PROVE  Promise!PromiseNext \/ UNCHANGED Promise!promiseVars
    OBVIOUS
  <1>1. CASE \E k \in Check : SendCheck(k)
    BY <1>1, AcceptStep DEF Promise!PromiseNext
  <1>2. CASE CloseStream
    BY <1>2, CloseStep DEF Promise!PromiseNext
  <1>3. ASSUME NEW f \in inflight,
               \/ \E delivered \in BOOLEAN : Produce(f, delivered)
               \/ RecordResult(f) \/ RetryPanics(f) \/ RecordPanics(f) \/ Unwind(f)
        PROVE  Promise!PromiseNext
    <2>1. f.check \in Check
      BY MovedFields, PhaseFacts DEF ExecutorInv
    <2>2. CASE \E delivered \in BOOLEAN : Produce(f, delivered)
      BY <2>1, <2>2, PublishStep DEF Promise!PromiseNext
    <2>3. CASE RecordResult(f)
      <3>1. Promise!Settle("p", f.check)
        BY <2>3, SettleStep DEF RecordResult, loopVars
      <3> QED
        BY <2>1, <3>1 DEF Promise!PromiseNext
    <2>4. CASE RetryPanics(f) \/ RecordPanics(f)
      BY <2>1, <2>4, PanicStep DEF Promise!PromiseNext
    <2>5. CASE Unwind(f)
      BY <2>5, UnwindStep DEF Promise!PromiseNext
    <2> QED
      BY <1>3, <2>2, <2>3, <2>4, <2>5
  <1>4. CASE \/ \E k \in Check : ReserveCheck(k) \/ RejectCheck(k) \/ WindowPasses(k) \/ HangUp(k)
             \/ Take \/ LoopEnds \/ Cancel \/ DropSenders \/ UNCHANGED vars
             \/ \E f \in inflight :
                   \/ Reap(f) \/ StartCheck(f) \/ ReserveRetry(f) \/ SendRetry(f)
                   \/ \E outcome \in {"success", "failure"} : FinishCheck(f, outcome)
    BY <1>4, StutterStep
  <1>5. CASE Idle
    BY <1>5, StutterStep DEF Idle
  <1> QED
    BY <1>1, <1>2, <1>3, <1>4, <1>5 DEF Next, FutureStep

LEMMA PromiseInitially == Init => Promise!PromiseInit
  <1> SUFFICES ASSUME Init PROVE Promise!PromiseInit
    OBVIOUS
  <1>1. \A k \in Check : StatusOf(k) = "none"
    BY StatusTells DEF Init
  <1>2. /\ AbstractStatus = [p \in {"p"} |-> [k \in Check |-> "none"]]
        /\ AbstractOpen = [p \in {"p"} |-> TRUE]
    BY <1>1 DEF AbstractStatus, AbstractOpen, Init
  <1> QED
    BY <1>2 DEF AbstractStatus, AbstractOpen, Promise!PromiseInit, Init

\* Every step of the executor is one that ExecutorPromise, on which the scheduler is
\* built, allows, or none at all: the safety part of ImplementsPromise.
THEOREM ImplementsPromiseSafety == Safety => Promise!PromiseSafety
  BY PromiseInitially, PromiseStep, ExecutorInvHolds, PTL DEF Safety, Promise!PromiseSafety

------------------------------------------------------------------------------
(* The check that the executor runs: HttpCheck.  First what its timings     *)
(* are made of.                                                             *)

\* Instants are cut to microseconds, and no sum of durations grows by that.
LEMMA Micros ==
    ASSUME NEW x \in Nat
    PROVE  /\ AsMicros(x) \in Nat
           /\ Micro * AsMicros(x) <= x /\ x < Micro * AsMicros(x) + Micro
  BY TimingAssumption DEF AsMicros

LEMMA MicrosLeast ==
    ASSUME NEW x \in Nat, NEW k \in Nat, Micro * k <= x
    PROVE  k <= AsMicros(x)
  <1> DEFINE a == AsMicros(x)
  <1>1. a \in Nat /\ x < Micro * a + Micro /\ Micro \in Nat \ {0}
    BY Micros, TimingAssumption
  <1> HIDE DEF a
  <1> SUFFICES ASSUME k >= a + 1 PROVE FALSE
    BY <1>1 DEF a
  <1>2. Micro * k >= Micro * (a + 1) /\ Micro * (a + 1) = Micro * a + Micro
    BY <1>1
  <1>3. Micro * k \in Nat /\ Micro * a \in Nat
    BY <1>1
  <1> QED
    BY <1>1, <1>2, <1>3

LEMMA MicrosGrow ==
    ASSUME NEW x \in Nat, NEW y \in Nat, x <= y
    PROVE  AsMicros(x) <= AsMicros(y)
  <1>1. AsMicros(x) \in Nat /\ Micro * AsMicros(x) <= x /\ Micro \in Nat
    BY Micros, TimingAssumption
  <1>2. Micro * AsMicros(x) \in Nat
    BY <1>1
  <1>3. Micro * AsMicros(x) <= y
    BY <1>1, <1>2
  <1> QED
    BY <1>1, <1>3, MicrosLeast

LEMMA MicrosAdd ==
    ASSUME NEW x \in Nat, NEW y \in Nat
    PROVE  AsMicros(x) + AsMicros(y) <= AsMicros(x + y)
  <1> DEFINE a == AsMicros(x)
             b == AsMicros(y)
  <1>1. /\ a \in Nat /\ Micro * a <= x
        /\ b \in Nat /\ Micro * b <= y
        /\ Micro \in Nat
    BY Micros, TimingAssumption
  <1> HIDE DEF a, b
  <1>2. a + b \in Nat /\ Micro * (a + b) = Micro * a + Micro * b /\ Micro * a \in Nat /\ Micro * b \in Nat
    BY <1>1
  <1>3. x + y \in Nat /\ Micro * (a + b) <= x + y
    BY <1>1, <1>2
  <1>4. a + b <= AsMicros(x + y)
    BY <1>2, <1>3, MicrosLeast
  <1> QED
    BY <1>4 DEF a, b

\* A part that begins and ends within a request is timed within it.
LEMMA TimingWithin ==
    ASSUME NEW s \in Nat, NEW e \in Nat, NEW a \in s .. e, NEW b \in s .. e
    PROVE  LET timing == ToTiming(StartTs, s, a, b) IN
              /\ timing.start_us = StartTs + AsMicros(a - s)
              /\ timing.duration_us = AsMicros(DurationSince(b, a))
              /\ timing.start_us \in Nat /\ timing.duration_us \in Nat
              /\ timing.start_us >= StartTs
              /\ timing.start_us + timing.duration_us <= StartTs + AsMicros(e - s)
  <1> DEFINE d == DurationSince(b, a)
  <1>1. a - s \in Nat /\ DurationSince(a, s) = a - s
    BY DEF DurationSince
  <1>2. d \in Nat /\ (a - s) + d \in Nat /\ e - s \in Nat /\ (a - s) + d <= e - s
    BY DEF DurationSince
  <1> HIDE DEF d
  <1>3. AsMicros(a - s) + AsMicros(d) <= AsMicros((a - s) + d)
    BY <1>1, <1>2, MicrosAdd
  <1>4. AsMicros((a - s) + d) <= AsMicros(e - s)
    BY <1>2, MicrosGrow
  <1>5. /\ AsMicros(a - s) \in Nat /\ AsMicros(d) \in Nat /\ AsMicros(e - s) \in Nat
        /\ AsMicros((a - s) + d) \in Nat /\ StartTs \in Nat
    BY <1>1, <1>2, Micros, TimingAssumption
  <1>6. ToTiming(StartTs, s, a, b) = [start_us |-> StartTs + AsMicros(a - s), duration_us |-> AsMicros(d)]
    BY <1>1 DEF ToTiming, d
  <1> QED
    BY <1>3, <1>4, <1>5, <1>6 DEF d

------------------------------------------------------------------------------
(* The notes of a request are taken in their order.                         *)

\* The place of each note in that order
Place ==
    [dns_start |-> 1, dns_end |-> 2, connect_start |-> 3, connect_end |-> 4, tls_start |-> 5,
     tls_end |-> 6, request_sent |-> 7, response_start |-> 8, request_end |-> 9]

\* The first i notes of a hop are taken, but for the missing ones, by t and in order.
InOrder(hop, i, missing, t) ==
    /\ hop \in [start : Nat, last : Nat, notes : [Note -> Nat \cup {None}]]
    /\ hop.start <= hop.last /\ hop.last <= t
    /\ \A n \in Note : hop.notes[n] = None <=> n \in missing \/ Place[n] > i
    /\ \A n \in Note : hop.notes[n] # None => hop.start <= hop.notes[n] /\ hop.notes[n] <= hop.last
    /\ \A m \in Note, n \in Note :
          hop.notes[m] # None /\ hop.notes[n] # None /\ Place[m] <= Place[n] =>
              hop.notes[m] <= hop.notes[n]

LEMMA Places == \A n \in Note : Place[n] \in 1 .. 9
  BY DEF Note, Place

LEMMA PlacesDiffer == \A m \in Note, n \in Note : Place[m] = Place[n] => m = n
  BY DEF Note, Place

LEMMA BegunInOrder ==
    ASSUME NEW t \in Nat, NEW missing, NEW hop \in Begun(t)
    PROVE  InOrder(hop, 0, missing, t)
  <1>1. PICK at \in 0 .. t : hop = [start |-> at, last |-> at, notes |-> [n \in Note |-> None]]
    BY DEF Begun
  <1>2. /\ hop.start = at /\ hop.last = at /\ hop.notes = [n \in Note |-> None]
        /\ hop \in [start : Nat, last : Nat, notes : [Note -> Nat \cup {None}]]
    BY <1>1
  <1>3. \A n \in Note : hop.notes[n] = None /\ Place[n] > 0
    BY <1>2, Places
  <1> QED
    BY <1>2, <1>3 DEF InOrder

LEMMA NotedInOrder ==
    ASSUME NEW t \in Nat, NEW missing, NEW note \in Note, NEW hops, NEW i \in Nat,
           Place[note] = i + 1, \A hop \in hops : InOrder(hop, i, missing, t),
           NEW next \in Noted(hops, note, missing, t)
    PROVE  InOrder(next, i + 1, missing, t)
  <1>1. \A n \in Note : Place[n] \in 1 .. 9 /\ (Place[n] = i + 1 => n = note)
    BY Places, PlacesDiffer
  <1>2. CASE note \in missing
    <2>1. InOrder(next, i, missing, t)
      BY <1>2 DEF Noted
    <2>2. \A n \in Note : n \in missing \/ Place[n] > i <=> n \in missing \/ Place[n] > i + 1
      BY <1>1, <1>2
    <2> QED
      BY <2>1, <2>2 DEF InOrder
  <1>3. CASE note \notin missing
    <2>0. PICK hop \in hops :
             next \in { [hop EXCEPT !.notes[note] = at, !.last = at] : at \in hop.last .. t }
      BY <1>3 DEF Noted
    <2>1. PICK at \in hop.last .. t : next = [hop EXCEPT !.notes[note] = at, !.last = at]
      BY <2>0
    <2>2. InOrder(hop, i, missing, t)
      OBVIOUS
    <2>3. /\ hop.start \in Nat /\ hop.last \in Nat /\ hop.notes \in [Note -> Nat \cup {None}]
          /\ hop.start <= hop.last /\ at \in Nat /\ hop.last <= at /\ at <= t
      BY <2>2 DEF InOrder
    <2>4. /\ next.start = hop.start /\ next.last = at
          /\ next.notes = [hop.notes EXCEPT ![note] = at]
          /\ next \in [start : Nat, last : Nat, notes : [Note -> Nat \cup {None}]]
      BY <2>1, <2>2, <2>3 DEF InOrder
    <2>5. /\ next.notes[note] = at /\ at # None
          /\ \A n \in Note \ {note} : next.notes[n] = hop.notes[n]
      BY <2>3, <2>4, CheckAssumption
    <2>6. \A n \in Note \ {note} : hop.notes[n] # None =>
             Place[n] < i + 1 /\ hop.start <= hop.notes[n] /\ hop.notes[n] <= hop.last
             /\ hop.notes[n] \in Nat
      BY <1>1, <2>2, <2>3 DEF InOrder
    <2>7. \A n \in Note : next.notes[n] = None <=> n \in missing \/ Place[n] > i + 1
      <3> SUFFICES ASSUME NEW n \in Note
                   PROVE  next.notes[n] = None <=> n \in missing \/ Place[n] > i + 1
        OBVIOUS
      <3>1. CASE n = note
        BY <1>3, <2>5, <3>1
      <3>2. CASE n # note
        <4>1. Place[n] # i + 1 /\ Place[n] \in Nat
          BY <1>1, <3>2
        <4>2. hop.notes[n] = None <=> n \in missing \/ Place[n] > i
          BY <2>2 DEF InOrder
        <4> QED
          BY <2>5, <3>2, <4>1, <4>2
      <3> QED
        BY <3>1, <3>2
    <2>8. \A n \in Note : next.notes[n] # None =>
             next.start <= next.notes[n] /\ next.notes[n] <= next.last
      BY <2>3, <2>4, <2>5, <2>6
    <2>9. \A m \in Note, n \in Note :
             next.notes[m] # None /\ next.notes[n] # None /\ Place[m] <= Place[n] =>
                 next.notes[m] <= next.notes[n]
      <3> SUFFICES ASSUME NEW m \in Note, NEW n \in Note, next.notes[m] # None,
                          next.notes[n] # None, Place[m] <= Place[n]
                   PROVE  next.notes[m] <= next.notes[n]
        OBVIOUS
      <3>1. CASE n = note
        BY <2>3, <2>4, <2>5, <2>8, <3>1
      <3>2. CASE n # note /\ m = note
        <4>1. Place[n] < i + 1
          BY <2>5, <2>6, <3>2
        <4> QED
          BY <1>1, <3>2, <4>1
      <3>3. CASE n # note /\ m # note
        BY <2>2, <2>5, <3>3 DEF InOrder
      <3> QED
        BY <3>1, <3>2, <3>3
    <2> QED
      BY <2>3, <2>4, <2>7, <2>8, <2>9 DEF InOrder
  <1> QED
    BY <1>2, <1>3

\* Every request that the client reports is one of those.
LEMMA HopsInOrder ==
    ASSUME NEW t \in Nat, NEW hop \in Hops(t)
    PROVE  \E missing \in Missing : InOrder(hop, 9, missing, t)
  <1>1. PICK missing \in Missing : hop \in Noted(Answered(missing, t), "request_end", missing, t)
    BY DEF Hops
  <1> DEFINE Ordered(hops, i) == \A h \in hops : InOrder(h, i, missing, t)
  <1>2. ASSUME NEW note \in Note, NEW hops, NEW i \in Nat, Place[note] = i + 1, Ordered(hops, i)
        PROVE  Ordered(Noted(hops, note, missing, t), i + 1)
    BY <1>2, NotedInOrder
  <1> HIDE DEF Ordered
  <1>3. Ordered(Begun(t), 0)
    BY BegunInOrder DEF Ordered
  <1>4. /\ Place["dns_start"] = 1 /\ Place["dns_end"] = 2 /\ Place["connect_start"] = 3
        /\ Place["connect_end"] = 4 /\ Place["tls_start"] = 5 /\ Place["tls_end"] = 6
        /\ Place["request_sent"] = 7 /\ Place["response_start"] = 8 /\ Place["request_end"] = 9
    BY DEF Place
  <1>5. Ordered(LookedUp(missing, t), 2)
    <2>1. Ordered(Noted(Begun(t), "dns_start", missing, t), 1)
      BY <1>2, <1>3, <1>4 DEF Note
    <2> QED
      BY <1>2, <1>4, <2>1 DEF Note, LookedUp
  <1>6. Ordered(Connected(missing, t), 4)
    <2>1. Ordered(Noted(LookedUp(missing, t), "connect_start", missing, t), 3)
      BY <1>2, <1>4, <1>5 DEF Note
    <2> QED
      BY <1>2, <1>4, <2>1 DEF Note, Connected
  <1>7. Ordered(Secured(missing, t), 6)
    <2>1. Ordered(Noted(Connected(missing, t), "tls_start", missing, t), 5)
      BY <1>2, <1>4, <1>6 DEF Note
    <2> QED
      BY <1>2, <1>4, <2>1 DEF Note, Secured
  <1>8. Ordered(Answered(missing, t), 8)
    <2>1. Ordered(Noted(Secured(missing, t), "request_sent", missing, t), 7)
      BY <1>2, <1>4, <1>7 DEF Note
    <2> QED
      BY <1>2, <1>4, <2>1 DEF Note, Answered
  <1>9. Ordered(Noted(Answered(missing, t), "request_end", missing, t), 9)
    BY <1>2, <1>4, <1>8 DEF Note
  <1> QED
    BY <1>1, <1>9 DEF Ordered

------------------------------------------------------------------------------
(* What a result says of one request.                                       *)

\* A missing note is replaced by the start of the request.
NoteAt(hop, note) == IF hop.notes[note] = None THEN hop.start ELSE hop.notes[note]

LEMMA HopFacts ==
    ASSUME NEW t \in Nat, NEW hop \in Hops(t)
    PROVE  LET s == hop.start
               e == hop.notes.request_end
           IN /\ s \in Nat /\ e \in Nat /\ e # None /\ s <= e /\ e <= t
              /\ \A n \in Note : NoteAt(hop, n) \in s .. e
              /\ LatestConnectionStat(hop) \in s .. e
  <1> DEFINE s == hop.start
             e == hop.notes["request_end"]
  <1>1. PICK missing \in Missing : InOrder(hop, 9, missing, t)
    BY HopsInOrder
  <1>2. "request_end" \notin missing /\ "request_end" \in Note
    BY DEF Missing, Lookup, Connection, Handshake, Note
  <1>3. \A n \in Note : Place[n] \in 1 .. 9 /\ Place["request_end"] = 9
    BY Places DEF Place
  <1>4. s \in Nat /\ hop.notes \in [Note -> Nat \cup {None}]
    BY <1>1 DEF InOrder
  <1>5. e # None /\ e \in Nat /\ s <= e /\ e <= hop.last /\ hop.last <= t /\ hop.last \in Nat
    BY <1>1, <1>2, <1>3, <1>4 DEF InOrder
  <1>6. ASSUME NEW n \in Note, hop.notes[n] # None
        PROVE  hop.notes[n] \in s .. e
    <2>1. hop.notes[n] \in Nat /\ s <= hop.notes[n] /\ hop.notes[n] <= e
      BY <1>1, <1>2, <1>3, <1>4, <1>5, <1>6 DEF InOrder
    <2> QED
      BY <2>1, <1>4, <1>5
  <1>7. s \in s .. e
    BY <1>4, <1>5
  <1>8. \A n \in Note : NoteAt(hop, n) \in s .. e
    BY <1>6, <1>7 DEF NoteAt
  <1>9. LatestConnectionStat(hop) \in s .. e
    BY <1>6, <1>7 DEF LatestConnectionStat, Note
  <1> QED
    BY <1>4, <1>5, <1>8, <1>9

LEMMA InfoOf ==
    ASSUME NEW t \in Nat, NEW hop \in Hops(t)
    PROVE  LET s == hop.start
               info_of == RequestInfo(hop)
               At(note) == NoteAt(hop, note)
               Timing(a, b) == ToTiming(StartTs, s, a, b)
           IN /\ info_of.request_duration_us = AsMicros(hop.notes.request_end - s)
              /\ info_of.durations.dns_lookup = Timing(At("dns_start"), At("dns_end"))
              /\ info_of.durations.tcp_connection = Timing(At("connect_start"), At("connect_end"))
              /\ info_of.durations.tls_handshake = Timing(At("tls_start"), At("tls_end"))
              /\ info_of.durations.send_request = Timing(LatestConnectionStat(hop), At("request_sent"))
              /\ info_of.durations.time_to_first_byte = Timing(At("request_sent"), At("response_start"))
              /\ info_of.durations.receive_response = Timing(At("response_start"), At("request_end"))
  <1>1. NoteAt(hop, "request_end") = hop.notes.request_end
    BY HopFacts DEF NoteAt
  <1>2. DurationSince(hop.notes.request_end, hop.start) = hop.notes.request_end - hop.start
    BY HopFacts DEF DurationSince
  <1> QED
    BY <1>1, <1>2 DEF RequestInfo, NoteAt

\* Each part lies within its request.
Within(timing, duration) ==
    /\ timing.start_us \in Nat /\ timing.duration_us \in Nat
    /\ timing.start_us >= StartTs
    /\ timing.start_us + timing.duration_us <= StartTs + duration

LEMMA PartsOfHop ==
    ASSUME NEW t \in Nat, NEW hop \in Hops(t)
    PROVE  LET info_of == RequestInfo(hop) IN
              /\ info_of.request_duration_us \in Nat
              /\ info_of.request_duration_us <= AsMicros(t)
              /\ \A part \in Part : Within(info_of.durations[part], info_of.request_duration_us)
  <1> DEFINE s == hop.start
             e == hop.notes.request_end
             info_of == RequestInfo(hop)
             d == info_of.durations
             total == info_of.request_duration_us
  <1>1. s \in Nat /\ e \in Nat /\ s <= e /\ e <= t /\ e - s \in Nat /\ e - s <= t
    BY HopFacts
  <1>2. total = AsMicros(e - s)
    BY InfoOf
  <1>3. total \in Nat /\ total <= AsMicros(t)
    BY <1>1, <1>2, Micros, MicrosGrow
  <1>4. ASSUME NEW a \in s .. e, NEW b \in s .. e
        PROVE  Within(ToTiming(StartTs, s, a, b), total)
    BY <1>1, <1>2, TimingWithin DEF Within
  <1> DEFINE At(note) == NoteAt(hop, note)
             c == LatestConnectionStat(hop)
  <1>5. (\A n \in Note : At(n) \in s .. e) /\ c \in s .. e
    BY HopFacts
  <1> HIDE DEF s, e, At, c
  <1>6. /\ d.dns_lookup = ToTiming(StartTs, s, At("dns_start"), At("dns_end"))
        /\ d.tcp_connection = ToTiming(StartTs, s, At("connect_start"), At("connect_end"))
        /\ d.tls_handshake = ToTiming(StartTs, s, At("tls_start"), At("tls_end"))
        /\ d.send_request = ToTiming(StartTs, s, c, At("request_sent"))
        /\ d.time_to_first_byte = ToTiming(StartTs, s, At("request_sent"), At("response_start"))
        /\ d.receive_response = ToTiming(StartTs, s, At("response_start"), At("request_end"))
    BY InfoOf DEF s, At, c
  <1> HIDE DEF d, total
  <1>7. /\ Within(d.dns_lookup, total) /\ Within(d.tcp_connection, total)
        /\ Within(d.tls_handshake, total) /\ Within(d.send_request, total)
        /\ Within(d.time_to_first_byte, total) /\ Within(d.receive_response, total)
    BY <1>4, <1>5, <1>6 DEF Note
  <1>8. \A part \in Part : Within(d[part], total)
    BY <1>7 DEF Part
  <1> QED
    BY <1>3, <1>8 DEF d, total

\* The parts of a request follow each other, when its end of sending was noted: a request
\* without a connection of its own made no lookup, so its sending begins with it.
LEMMA PartsFollow ==
    ASSUME NEW t \in Nat, NEW hop \in Hops(t), hop.notes["request_sent"] # None
    PROVE  LET At(note) == NoteAt(hop, note)
               Took(start, end) == DurationSince(At(end), At(start))
               c == LatestConnectionStat(hop)
           IN Took("dns_start", "dns_end") + Took("connect_start", "connect_end")
                + Took("tls_start", "tls_end") + DurationSince(At("request_sent"), c)
                + Took("request_sent", "response_start") + Took("response_start", "request_end")
              <= hop.notes.request_end - hop.start
  <1> DEFINE s == hop.start
             n1 == hop.notes["dns_start"]
             n2 == hop.notes["dns_end"]
             n3 == hop.notes["connect_start"]
             n4 == hop.notes["connect_end"]
             n5 == hop.notes["tls_start"]
             n6 == hop.notes["tls_end"]
             n7 == hop.notes["request_sent"]
             n8 == hop.notes["response_start"]
             n9 == hop.notes["request_end"]
  <1>1. PICK missing \in Missing : InOrder(hop, 9, missing, t)
    BY HopsInOrder
  <1>2. \A n \in Note : hop.notes[n] = None <=> n \in missing
    BY <1>1, Places DEF InOrder
  <1>3. /\ \A n \in Note : hop.notes[n] # None => hop.notes[n] \in Nat /\ s <= hop.notes[n]
        /\ s \in Nat
    BY <1>1 DEF InOrder
  <1>4. \A m \in Note, n \in Note :
           hop.notes[m] # None /\ hop.notes[n] # None /\ Place[m] <= Place[n] =>
              hop.notes[m] <= hop.notes[n]
    BY <1>1 DEF InOrder
  <1>5. n7 # None /\ n8 # None /\ n9 # None
    BY <1>2 DEF Missing, Lookup, Connection, Handshake, Note
  <1>6. /\ n1 = None <=> n2 = None
        /\ n3 = None <=> n4 = None
        /\ n5 = None <=> n6 = None
        /\ n3 = None => n1 = None /\ n5 = None
    BY <1>2 DEF Missing, Lookup, Connection, Handshake, Note
  <1>7. /\ n7 \in Nat /\ n8 \in Nat /\ n9 \in Nat
        /\ s <= n7 /\ n7 <= n8 /\ n8 <= n9
    BY <1>3, <1>4, <1>5 DEF Note, Place
  <1>8. /\ n1 # None => n1 \in Nat /\ n2 \in Nat /\ s <= n1 /\ n1 <= n2
        /\ n3 # None => n3 \in Nat /\ n4 \in Nat /\ s <= n3 /\ n3 <= n4 /\ n4 <= n7
        /\ n5 # None => n5 \in Nat /\ n6 \in Nat /\ s <= n5 /\ n5 <= n6 /\ n6 <= n7
        /\ n1 # None /\ n3 # None => n2 <= n3
        /\ n3 # None /\ n5 # None => n4 <= n5
    BY <1>3, <1>4, <1>5, <1>6 DEF Note, Place
  <1> DEFINE At(note) == NoteAt(hop, note)
             Took(start, end) == DurationSince(At(end), At(start))
             c == LatestConnectionStat(hop)
             d1 == Took("dns_start", "dns_end")
             d2 == Took("connect_start", "connect_end")
             d3 == Took("tls_start", "tls_end")
             d4 == DurationSince(At("request_sent"), c)
             d5 == Took("request_sent", "response_start")
             d6 == Took("response_start", "request_end")
  <1>9. /\ d5 = n8 - n7 /\ d6 = n9 - n8
    BY <1>5, <1>7 DEF NoteAt, DurationSince
  <1>10. /\ d1 = IF n1 = None THEN 0 ELSE n2 - n1
         /\ d2 = IF n3 = None THEN 0 ELSE n4 - n3
         /\ d3 = IF n5 = None THEN 0 ELSE n6 - n5
    BY <1>3, <1>6, <1>8 DEF NoteAt, DurationSince
  <1>11. /\ c = IF n5 # None THEN n6 ELSE IF n3 # None THEN n4 ELSE s
         /\ c \in Nat /\ c <= n7
    BY <1>3, <1>6, <1>7, <1>8 DEF LatestConnectionStat
  <1> HIDE DEF c
  <1>12. d4 = n7 - c
    BY <1>5, <1>7, <1>11 DEF NoteAt, DurationSince
  <1> HIDE DEF d1, d2, d3, d4, d5, d6, n1, n2, n3, n4, n5, n6, n7, n8, n9, s
  <1>13. d1 + d2 + d3 <= c - s
    <2>1. CASE n3 = None
      BY <1>3, <1>6, <1>10, <1>11, <2>1 DEF s
    <2>2. CASE n3 # None /\ n5 = None
      BY <1>3, <1>6, <1>8, <1>10, <1>11, <2>2
    <2>3. CASE n3 # None /\ n5 # None
      BY <1>3, <1>6, <1>8, <1>10, <1>11, <2>3
    <2> QED
      BY <2>1, <2>2, <2>3
  <1>14. d1 \in Int /\ d2 \in Int /\ d3 \in Int
    BY <1>6, <1>8, <1>10
  <1>15. d1 + d2 + d3 + d4 + d5 + d6 <= n9 - s
    BY <1>3, <1>7, <1>9, <1>11, <1>12, <1>13, <1>14
  <1> QED
    BY <1>15 DEF d1, d2, d3, d4, d5, d6, n9, s, c

LEMMA SixMicros ==
    ASSUME NEW d1 \in Nat, NEW d2 \in Nat, NEW d3 \in Nat, NEW d4 \in Nat, NEW d5 \in Nat,
           NEW d6 \in Nat, NEW total \in Nat, d1 + d2 + d3 + d4 + d5 + d6 <= total
    PROVE  AsMicros(d1) + AsMicros(d2) + AsMicros(d3) + AsMicros(d4) + AsMicros(d5) + AsMicros(d6)
             <= AsMicros(total)
  <1> DEFINE s2 == d1 + d2
             s3 == s2 + d3
             s4 == s3 + d4
             s5 == s4 + d5
             s6 == s5 + d6
  <1>1. s2 \in Nat /\ s3 \in Nat /\ s4 \in Nat /\ s5 \in Nat /\ s6 \in Nat /\ s6 <= total
    OBVIOUS
  <1>2. AsMicros(d1) + AsMicros(d2) <= AsMicros(s2)
    BY MicrosAdd
  <1> HIDE DEF s2
  <1>3. AsMicros(s2) + AsMicros(d3) <= AsMicros(s3)
    BY <1>1, MicrosAdd
  <1> HIDE DEF s3
  <1>4. AsMicros(s3) + AsMicros(d4) <= AsMicros(s4)
    BY <1>1, MicrosAdd
  <1> HIDE DEF s4
  <1>5. AsMicros(s4) + AsMicros(d5) <= AsMicros(s5)
    BY <1>1, MicrosAdd
  <1> HIDE DEF s5
  <1>6. AsMicros(s5) + AsMicros(d6) <= AsMicros(s6)
    BY <1>1, MicrosAdd
  <1> HIDE DEF s6
  <1>7. AsMicros(s6) <= AsMicros(total)
    BY <1>1, MicrosGrow
  <1>8. /\ AsMicros(d1) \in Nat /\ AsMicros(d2) \in Nat /\ AsMicros(d3) \in Nat
        /\ AsMicros(d4) \in Nat /\ AsMicros(d5) \in Nat /\ AsMicros(d6) \in Nat
        /\ AsMicros(s2) \in Nat /\ AsMicros(s3) \in Nat /\ AsMicros(s4) \in Nat
        /\ AsMicros(s5) \in Nat /\ AsMicros(s6) \in Nat /\ AsMicros(total) \in Nat
    BY <1>1, Micros
  <1> QED
    BY <1>2, <1>3, <1>4, <1>5, <1>6, <1>7, <1>8

LEMMA HopBilledOnce ==
    ASSUME NEW t \in Nat, NEW hop \in Hops(t), hop.notes["request_sent"] # None
    PROVE  Billed(RequestInfo(hop).durations) <= RequestInfo(hop).request_duration_us
  <1> DEFINE At(note) == NoteAt(hop, note)
             s == hop.start
             e == hop.notes.request_end
             c == LatestConnectionStat(hop)
             d1 == DurationSince(At("dns_end"), At("dns_start"))
             d2 == DurationSince(At("connect_end"), At("connect_start"))
             d3 == DurationSince(At("tls_end"), At("tls_start"))
             d4 == DurationSince(At("request_sent"), c)
             d5 == DurationSince(At("response_start"), At("request_sent"))
             d6 == DurationSince(At("request_end"), At("response_start"))
             d == RequestInfo(hop).durations
  <1>1. d1 + d2 + d3 + d4 + d5 + d6 <= e - s
    BY PartsFollow
  <1>2. s \in Nat /\ e \in Nat /\ e - s \in Nat /\ (\A n \in Note : At(n) \in Nat) /\ c \in Nat
    BY HopFacts
  <1> HIDE DEF At, c, s, e
  <1>3. d1 \in Nat /\ d2 \in Nat /\ d3 \in Nat /\ d4 \in Nat /\ d5 \in Nat /\ d6 \in Nat
    BY <1>2 DEF DurationSince, Note
  <1>4. /\ d.dns_lookup.duration_us = AsMicros(d1) /\ d.tcp_connection.duration_us = AsMicros(d2)
        /\ d.tls_handshake.duration_us = AsMicros(d3) /\ d.send_request.duration_us = AsMicros(d4)
        /\ d.time_to_first_byte.duration_us = AsMicros(d5)
        /\ d.receive_response.duration_us = AsMicros(d6)
    <2>1. \A a, b : ToTiming(StartTs, s, a, b).duration_us = AsMicros(DurationSince(b, a))
      BY DEF ToTiming
    <2>2. /\ d.dns_lookup = ToTiming(StartTs, s, At("dns_start"), At("dns_end"))
          /\ d.tcp_connection = ToTiming(StartTs, s, At("connect_start"), At("connect_end"))
          /\ d.tls_handshake = ToTiming(StartTs, s, At("tls_start"), At("tls_end"))
          /\ d.send_request = ToTiming(StartTs, s, c, At("request_sent"))
          /\ d.time_to_first_byte = ToTiming(StartTs, s, At("request_sent"), At("response_start"))
          /\ d.receive_response = ToTiming(StartTs, s, At("response_start"), At("request_end"))
      BY InfoOf DEF s, At, c
    <2> HIDE DEF d
    <2> QED
      BY <2>1, <2>2
  <1>5. RequestInfo(hop).request_duration_us = AsMicros(e - s)
    BY InfoOf DEF e, s
  <1> HIDE DEF d1, d2, d3, d4, d5, d6, d
  <1>6. AsMicros(d1) + AsMicros(d2) + AsMicros(d3) + AsMicros(d4) + AsMicros(d5) + AsMicros(d6)
           <= AsMicros(e - s)
    BY <1>1, <1>2, <1>3, SixMicros
  <1>7. Billed(d) <= AsMicros(e - s)
    BY <1>4, <1>6 DEF Billed
  <1> QED
    BY <1>5, <1>7 DEF d

\* Where no part starts before the lookup, the printed offsets do not wrap.
LEMMA OffsetsShown ==
    ASSUME NEW durations, NEW total \in Nat, total < Width,
           \A part \in Part : Within(durations[part], total),
           \A part \in Printed : durations[part].start_us >= durations.dns_lookup.start_us
    PROVE  \A part \in Printed :
              LET offsets == Debug(durations)[part]
              IN offsets[1] <= offsets[2] /\ offsets[2] <= total
  <1> SUFFICES ASSUME NEW part \in Printed
               PROVE  LET offsets == Debug(durations)[part]
                      IN offsets[1] <= offsets[2] /\ offsets[2] <= total
    OBVIOUS
  <1> DEFINE ref == durations.dns_lookup.start_us
             start == durations[part].start_us
             took == durations[part].duration_us
  <1>1. Within(durations[part], total) /\ Within(durations["dns_lookup"], total)
    BY DEF Printed, Part
  <1>2. /\ ref \in Nat /\ ref >= StartTs /\ StartTs \in Nat
        /\ start \in Nat /\ took \in Nat /\ start >= ref
        /\ start + took <= StartTs + total
    BY <1>1, TimingAssumption DEF Within
  <1>3. Debug(durations)[part] = << (start - ref) % Width, (start - ref + took) % Width >>
    BY DEF Debug, ToTimings
  <1> HIDE DEF ref, start, took
  <1>4. /\ start - ref \in 0 .. Width - 1 /\ start - ref + took \in 0 .. Width - 1
        /\ start - ref <= start - ref + took /\ start - ref + took <= total
        /\ Width \in Nat \ {0}
    BY <1>2, TimingAssumption
  <1>5. \A x \in 0 .. Width - 1 : x % Width = x
    BY TimingAssumption
  <1> QED
    BY <1>3, <1>4, <1>5

LEMMA HopShowsOffsets ==
    ASSUME NEW t \in 0 .. Timeout, NEW hop \in Hops(t),
           \/ hop.notes["dns_start"] = None
           \/ hop.notes["request_sent"] # None /\ hop.notes["tls_end"] # None
    PROVE  \A part \in Printed :
              LET offsets == Debug(RequestInfo(hop).durations)[part]
              IN offsets[1] <= offsets[2] /\ offsets[2] <= RequestInfo(hop).request_duration_us
  <1> DEFINE s == hop.start
             e == hop.notes.request_end
             d == RequestInfo(hop).durations
             total == RequestInfo(hop).request_duration_us
             At(note) == NoteAt(hop, note)
             c == LatestConnectionStat(hop)
  <1>0. t \in Nat /\ t <= Timeout /\ Timeout \in Nat /\ Width \in Nat
    BY CheckAssumption, TimingAssumption
  <1>1. /\ total \in Nat /\ total <= AsMicros(t)
        /\ \A part \in Part : Within(d[part], total)
    BY <1>0, PartsOfHop
  <1>2. total < Width
    <2>1. AsMicros(t) <= AsMicros(Timeout) /\ AsMicros(t) \in Nat /\ AsMicros(Timeout) \in Nat
      BY <1>0, Micros, MicrosGrow
    <2> HIDE DEF total
    <2> QED
      BY <1>0, <1>1, <2>1, CheckAssumption
  <1>3. (\A n \in Note : At(n) \in s .. e) /\ c \in s .. e /\ s \in Nat /\ e \in Nat
    BY <1>0, HopFacts
  <1>4. ASSUME NEW a \in s .. e, NEW b \in s .. e
        PROVE  ToTiming(StartTs, s, a, b).start_us = StartTs + AsMicros(a - s)
    BY <1>3, TimingWithin
  <1>5. /\ d.dns_lookup.start_us = StartTs + AsMicros(At("dns_start") - s)
        /\ d.tcp_connection.start_us = StartTs + AsMicros(At("connect_start") - s)
        /\ d.tls_handshake.start_us = StartTs + AsMicros(At("tls_start") - s)
        /\ d.send_request.start_us = StartTs + AsMicros(c - s)
        /\ d.receive_response.start_us = StartTs + AsMicros(At("response_start") - s)
    <2>1. /\ d.dns_lookup = ToTiming(StartTs, s, At("dns_start"), At("dns_end"))
          /\ d.tcp_connection = ToTiming(StartTs, s, At("connect_start"), At("connect_end"))
          /\ d.tls_handshake = ToTiming(StartTs, s, At("tls_start"), At("tls_end"))
          /\ d.send_request = ToTiming(StartTs, s, c, At("request_sent"))
          /\ d.receive_response = ToTiming(StartTs, s, At("response_start"), At("request_end"))
      BY <1>0, InfoOf
    <2> HIDE DEF d, s, e, At, c
    <2> QED
      BY <2>1, <1>3, <1>4 DEF Note
  <1>6. \A part \in Printed : d[part].start_us >= d.dns_lookup.start_us
    <2>1. CASE hop.notes["dns_start"] = None
      <3>1. At("dns_start") - s = 0
        BY <1>3, <2>1 DEF NoteAt
      <3>2. AsMicros(0) = 0
        BY TimingAssumption DEF AsMicros
      <3>3. d.dns_lookup.start_us = StartTs
        BY <1>5, <3>1, <3>2, TimingAssumption
      <3> HIDE DEF d, total
      <3> QED
        BY <1>1, <3>3 DEF Within, Printed
    <2>2. CASE hop.notes["dns_start"] # None /\ hop.notes["request_sent"] # None
                 /\ hop.notes["tls_end"] # None
      <3>1. PICK missing \in Missing : InOrder(hop, 9, missing, t)
        BY <1>0, HopsInOrder
      <3>2. \A n \in Note : hop.notes[n] = None <=> n \in missing
        BY <3>1, Places DEF InOrder
      <3>3. \A n \in Note : hop.notes[n] # None
        BY <2>2, <3>2 DEF Missing, Lookup, Connection, Handshake, Note
      <3>4. \A n \in Note : hop.notes["dns_start"] <= hop.notes[n]
        BY <3>1, <3>3, Places DEF InOrder, Place, Note
      <3>5. \A n \in Note : At(n) = hop.notes[n]
        BY <3>3 DEF NoteAt
      <3>6. c = At("tls_end")
        BY <3>3, <3>5 DEF LatestConnectionStat, Note
      <3> HIDE DEF At, c, d, s, e
      <3>7. ASSUME NEW n \in Note
            PROVE  StartTs + AsMicros(At(n) - s) >= StartTs + AsMicros(At("dns_start") - s)
        <4> DEFINE x == At("dns_start") - s
                   y == At(n) - s
        <4>1. x \in Nat /\ y \in Nat /\ x <= y
          BY <1>3, <3>4, <3>5 DEF Note
        <4> HIDE DEF x, y
        <4>2. AsMicros(x) <= AsMicros(y) /\ AsMicros(x) \in Nat /\ AsMicros(y) \in Nat
          BY <4>1, Micros, MicrosGrow
        <4>3. StartTs + AsMicros(y) >= StartTs + AsMicros(x)
          BY <4>2, TimingAssumption
        <4> QED
          BY <4>3 DEF x, y
      <3>8. /\ d.dns_lookup.start_us >= d.dns_lookup.start_us
            /\ d.tcp_connection.start_us >= d.dns_lookup.start_us
            /\ d.tls_handshake.start_us >= d.dns_lookup.start_us
            /\ d.send_request.start_us >= d.dns_lookup.start_us
            /\ d.receive_response.start_us >= d.dns_lookup.start_us
        BY <1>5, <3>6, <3>7 DEF Note
      <3> QED
        BY <3>8 DEF Printed, Part
    <2> QED
      BY <2>1, <2>2
  <1> HIDE DEF d, total
  <1>7. \A part \in Printed :
           LET offsets == Debug(d)[part]
           IN offsets[1] <= offsets[2] /\ offsets[2] <= total
    BY <1>1, <1>2, <1>6, OffsetsShown
  <1> QED
    BY <1>7 DEF d, total

\* A request that failed is one part that took all its time.
LEMMA ErroredParts ==
    ASSUME NEW part \in Part, NEW elapsed \in 0 .. Timeout
    PROVE  LET info_of == ErroredRequestInfo(part, elapsed) IN
              /\ info_of.request_duration_us \in Nat
              /\ info_of.request_duration_us <= AsMicros(Timeout)
              /\ \A p \in Part : Within(info_of.durations[p], info_of.request_duration_us)
              /\ Billed(info_of.durations) <= info_of.request_duration_us
              /\ \A p \in Printed :
                    LET offsets == Debug(info_of.durations)[p]
                    IN offsets[1] <= offsets[2] /\ offsets[2] <= info_of.request_duration_us
  <1> DEFINE info_of == ErroredRequestInfo(part, elapsed)
             d == info_of.durations
             total == info_of.request_duration_us
  <1>1. elapsed \in Nat /\ Timeout \in Nat /\ StartTs \in Nat /\ Width \in Nat
    BY CheckAssumption, TimingAssumption
  <1>2. /\ total = AsMicros(elapsed)
        /\ d = [p \in Part |-> [start_us |-> StartTs, duration_us |-> IF p = part THEN total ELSE 0]]
    BY DEF ErroredRequestInfo
  <1>3. AsMicros(Timeout) \in Nat /\ total \in Nat /\ total <= AsMicros(Timeout) /\ total < Width
    <2>1. AsMicros(elapsed) <= AsMicros(Timeout) /\ AsMicros(elapsed) \in Nat /\ AsMicros(Timeout) \in Nat
      BY <1>1, Micros, MicrosGrow
    <2> HIDE DEF total
    <2> QED
      BY <1>1, <1>2, <2>1, CheckAssumption
  <1> HIDE DEF total, d
  <1>4. \A p \in Part : d[p].start_us = StartTs /\ d[p].duration_us = IF p = part THEN total ELSE 0
    BY <1>2
  <1>5. \A p \in Part : Within(d[p], total)
    BY <1>1, <1>3, <1>4 DEF Within
  <1>6. Billed(d) <= total
    BY <1>3, <1>4 DEF Billed, Part
  <1>7. \A p \in Printed : d[p].start_us >= d.dns_lookup.start_us
    BY <1>1, <1>4 DEF Printed, Part
  <1>8. \A p \in Printed :
           LET offsets == Debug(d)[p]
           IN offsets[1] <= offsets[2] /\ offsets[2] <= total
    BY <1>3, <1>5, <1>7, OffsetsShown
  <1> QED
    BY <1>3, <1>5, <1>6, <1>8 DEF d, total

------------------------------------------------------------------------------
(* Its deadline and its body.                                               *)

\* All the waits of a check end at one deadline.
OneDeadline == clock \in Nat /\ until = Allotment /\ clock <= until

\* The early return of a compile error has dropped the body.
BodyDropped == reason = "assertion_compilation_error"

\* The body of a check is what it received, or it has read nothing yet: a second read
\* begins only where the first one did not happen, so none of them misses a part.
BodyIsReceived ==
    /\ received \in Nat /\ reading \in Nat
    /\ step # "done" => error = None
    /\ step = "request" => received = 0 /\ reading = 0 /\ body = None
    /\ step = "read" => reading = received
    /\ kind = "robots" => step \in { "request", "read", "rules", "done" }
    /\ kind = "uptime" =>
          /\ step # "rules"
          /\ step \in { "evaluate", "judged" } => reading = 0
          /\ step = "evaluate" \/ (step = "judged" /\ ~ BodyDropped) =>
                body = received \/ (body = None /\ received = 0)
          /\ step = "reread" /\ ~ BodyDropped => reading = received
          /\ step = "attach" /\ ~ BodyDropped /\ WillCapture => body = received
          /\ CapturesBody

HttpInv == kind \in { "uptime", "robots" } /\ OneDeadline /\ BodyIsReceived

LEMMA HttpInvInit ==
    ASSUME CheckInit
    PROVE  HttpInv
  <1>1. OneDeadline
    BY CheckAssumption DEF CheckInit, OneDeadline, Allotment
  <1>2. BodyIsReceived
    BY CheckAssumption DEF CheckInit, BodyIsReceived, CapturesBody
  <1> QED
    BY <1>1, <1>2 DEF HttpInv, CheckInit

\* Only Wait moves the clock, and no action moves the deadline.
LEMMA DeadlineStep ==
    ASSUME HttpInv, [CheckNext]_checkVars
    PROVE  OneDeadline'
  <1>1. CASE Wait
    BY <1>1, CheckAssumption DEF Wait, HttpInv, OneDeadline, Allotment, configVars
  <1>2. CASE UNCHANGED <<kind, clock, until>>
    BY <1>2 DEF HttpInv, OneDeadline, Allotment
  <1>3. Wait \/ UNCHANGED <<kind, clock, until>>
    BY DEF CheckNext, checkVars, configVars, RequestFails, Respond, Chunk,
           ReadStops, JudgeStatus, CompileFails, EvaluateAssertion,
           Verdict, BeginReread, SkipReread, Attach,
           RobotsRequestFails, ApplyRules, Done
  <1> QED
    BY <1>1, <1>2, <1>3

LEMMA BodyStep ==
    ASSUME HttpInv, [CheckNext]_checkVars
    PROVE  BodyIsReceived'
  <1> USE DEF HttpInv, BodyIsReceived, BodyDropped, CapturesBody, WillCapture,
              configVars, streamVars, resultVars
  <1>1. ASSUME NEW chain \in Chains, RequestFails(chain)
        PROVE  BodyIsReceived'
    BY <1>1, CheckAssumption DEF RequestFails
  <1>2. ASSUME NEW success \in BOOLEAN, Respond(success)
        PROVE  BodyIsReceived'
    BY <1>2 DEF Respond
  <1>3. ASSUME NEW n \in 1 .. MaxChunk, Chunk(n)
        PROVE  BodyIsReceived'
    <2>1. n \in Nat /\ received + n \in Nat /\ reading + n \in Nat
      BY CheckAssumption
    <2>2. CASE reading + n > MaxBody
      BY <1>3, <2>1, <2>2 DEF Chunk, AfterRead, AfterReading
    <2>3. CASE ~ (reading + n > MaxBody)
      BY <1>3, <2>1, <2>3 DEF Chunk
    <2> QED
      BY <2>2, <2>3
  <1>4. CASE ReadStops
    BY <1>4 DEF ReadStops, AfterRead, AfterReading
  <1>5. CASE JudgeStatus \/ CompileFails \/ EvaluateAssertion
    BY <1>5 DEF JudgeStatus, CompileFails, EvaluateAssertion, Verdict
  <1>6. CASE BeginReread \/ SkipReread
    BY <1>6, CheckAssumption DEF BeginReread, SkipReread
  <1>7. CASE Attach
    BY <1>7 DEF Attach
  <1>8. CASE RobotsRequestFails \/ ApplyRules
    BY <1>8 DEF RobotsRequestFails, ApplyRules
  <1>9. CASE Wait \/ Done \/ UNCHANGED checkVars
    BY <1>9 DEF Wait, Done, checkVars
  <1> QED
    BY <1>1, <1>2, <1>3, <1>4, <1>5, <1>6, <1>7, <1>8, <1>9 DEF CheckNext

LEMMA HttpInvariant == CheckSpec => []HttpInv
  <1>1. CheckInit => HttpInv
    BY HttpInvInit
  <1>2. HttpInv /\ [CheckNext]_checkVars => kind' = kind
    BY DEF CheckNext, checkVars, configVars, RequestFails, Respond, Chunk,
           ReadStops, JudgeStatus, CompileFails, EvaluateAssertion,
           Verdict, BeginReread, SkipReread, Attach,
           RobotsRequestFails, ApplyRules, Wait, Done
  <1>3. HttpInv /\ [CheckNext]_checkVars => HttpInv'
    BY <1>2, DeadlineStep, BodyStep DEF HttpInv
  <1> QED
    BY <1>1, <1>3, PTL DEF CheckSpec

\* check_url and check_robots are over when their timeout is, whatever the server sends
\* and whichever reads the check makes: all of them share one deadline.
THEOREM KeepsTimeoutHolds == CheckSpec => []KeepsTimeout
  <1>1. HttpInv => KeepsTimeout
    BY DEF HttpInv, OneDeadline, KeepsTimeout, Allotment
  <1> QED
    BY <1>1, HttpInvariant, PTL

\* What a captured check received of the body is in its result, for every bound on the
\* body and every way the server cuts it into chunks.
THEOREM CapturesBodyHolds == CheckSpec => []CapturesBody
  <1>1. HttpInv => CapturesBody
    BY DEF HttpInv, BodyIsReceived, CapturesBody
  <1> QED
    BY <1>1, HttpInvariant, PTL

------------------------------------------------------------------------------
(* Its timings.                                                             *)

\* A result tells of a request that failed by the timeout, or of one that ended by it.
Reported ==
    \/ /\ error # None /\ noted = {}
       /\ \E part \in Part, elapsed \in 0 .. Timeout : info = ErroredRequestInfo(part, elapsed)
    \/ /\ error = None
       /\ \E t \in 0 .. Timeout : \E hop \in Hops(t) :
             info = RequestInfo(hop) /\ noted = { note \in Note : hop.notes[note] # None }

\* There is no report before the check is over.
TimingInv ==
    /\ step # "done" => info = None /\ noted = {}
    /\ info = None \/ Reported

LEMMA TimingStep ==
    ASSUME HttpInv, TimingInv, [CheckNext]_checkVars
    PROVE  TimingInv'
  <1> USE DEF TimingInv
  <1>1. ASSUME NEW chain \in Chains, RequestFails(chain)
        PROVE  TimingInv'
    <2>1. BilledTo(chain) \in Part
      BY DEF BilledTo, Part
    <2>2. clock \in 0 .. Timeout
      BY <1>1, CheckAssumption DEF RequestFails, HttpInv, OneDeadline, Allotment
    <2>3. error' # None /\ noted' = {} /\ info' = ErroredRequestInfo(BilledTo(chain), clock)
      BY <1>1, CheckAssumption DEF RequestFails
    <2>4. step' = "done"
      BY <1>1 DEF RequestFails
    <2> QED
      BY <2>1, <2>2, <2>3, <2>4 DEF Reported
  <1>2. CASE Attach
    <2>1. clock \in 0 .. Timeout /\ error = None
      BY <1>2, CheckAssumption DEF Attach, HttpInv, OneDeadline, Allotment, BodyIsReceived
    <2>2. PICK report \in Reports[clock] : info' = report.info /\ noted' = report.noted
      BY <1>2 DEF Attach
    <2>3. PICK hop \in Hops(clock) :
             report = [info |-> RequestInfo(hop), noted |-> { note \in Note : hop.notes[note] # None }]
      BY <2>1, <2>2 DEF Reports
    <2>4. info' = RequestInfo(hop) /\ noted' = { note \in Note : hop.notes[note] # None }
      BY <2>2, <2>3
    <2>5. step' = "done" /\ error' = None
      BY <1>2, <2>1 DEF Attach
    <2> QED
      BY <2>1, <2>4, <2>5 DEF Reported
  <1>3. CASE UNCHANGED <<info, noted, error>> /\ step # "done"
    BY <1>3
  <1>4. CASE UNCHANGED <<info, noted, error, step>>
    BY <1>4 DEF Reported
  <1>5. \/ \E chain \in Chains : RequestFails(chain)
        \/ Attach
        \/ UNCHANGED <<info, noted, error>> /\ step # "done"
        \/ UNCHANGED <<info, noted, error, step>>
    BY DEF CheckNext, checkVars, resultVars, Respond, Chunk, ReadStops, JudgeStatus, CompileFails,
           EvaluateAssertion, Verdict, BeginReread, SkipReread, RobotsRequestFails, ApplyRules,
           Wait, Done
  <1> QED
    BY <1>1, <1>2, <1>3, <1>4, <1>5

LEMMA TimingInvariant == CheckSpec => []TimingInv
  <1>1. CheckInit => TimingInv
    BY DEF CheckInit, TimingInv
  <1> QED
    BY <1>1, TimingStep, HttpInvariant, PTL DEF CheckSpec

\* Every part of a request lies within it and the request within the check's timeout, for
\* every unit of the clock: cutting to microseconds never lets a part reach past its end.
THEOREM PartsWithinRequestHolds == CheckSpec => []PartsWithinRequest
  <1>1. ASSUME TimingInv PROVE PartsWithinRequest
    <2> SUFFICES ASSUME info # None PROVE PartsWithinRequest
      BY DEF PartsWithinRequest
    <2> DEFINE Fits == /\ info.request_duration_us <= AsMicros(Timeout)
                       /\ \A part \in Part : Within(info.durations[part], info.request_duration_us)
    <2>1. ASSUME NEW part \in Part, NEW elapsed \in 0 .. Timeout,
                 info = ErroredRequestInfo(part, elapsed)
          PROVE  Fits
      BY <2>1, ErroredParts
    <2>2. ASSUME NEW t \in 0 .. Timeout, NEW hop \in Hops(t), info = RequestInfo(hop)
          PROVE  Fits
      <3>1. t \in Nat /\ Timeout \in Nat /\ t <= Timeout
        BY CheckAssumption
      <3>2. /\ RequestInfo(hop).request_duration_us \in Nat
            /\ RequestInfo(hop).request_duration_us <= AsMicros(t)
            /\ \A part \in Part :
                  Within(RequestInfo(hop).durations[part], RequestInfo(hop).request_duration_us)
        BY <3>1, PartsOfHop
      <3>3. AsMicros(t) <= AsMicros(Timeout) /\ AsMicros(t) \in Nat /\ AsMicros(Timeout) \in Nat
        BY <3>1, Micros, MicrosGrow
      <3> QED
        BY <2>2, <3>2, <3>3
    <2>3. Fits
      BY <1>1, <2>1, <2>2 DEF TimingInv, Reported
    <2> QED
      BY <2>3 DEF PartsWithinRequest, Within
  <1> QED
    BY <1>1, TimingInvariant, PTL

\* The parts of a request that failed, or that was sent before its response, add up to no
\* more than its duration: each begins where the one before it ended or later.
THEOREM BilledOnceHolds == CheckSpec => []BilledOnce
  <1>1. ASSUME TimingInv PROVE BilledOnce
    <2> SUFFICES ASSUME info # None, error # None \/ "request_sent" \in noted
                 PROVE  Billed(info.durations) <= info.request_duration_us
      BY DEF BilledOnce
    <2>1. ASSUME NEW part \in Part, NEW elapsed \in 0 .. Timeout,
                 info = ErroredRequestInfo(part, elapsed)
          PROVE  Billed(info.durations) <= info.request_duration_us
      BY <2>1, ErroredParts
    <2>2. ASSUME NEW t \in 0 .. Timeout, NEW hop \in Hops(t), info = RequestInfo(hop),
                 "request_sent" \in { note \in Note : hop.notes[note] # None }
          PROVE  Billed(info.durations) <= info.request_duration_us
      <3>1. t \in Nat
        BY CheckAssumption
      <3>2. hop.notes["request_sent"] # None
        BY <2>2
      <3> QED
        BY <2>2, <3>1, <3>2, HopBilledOnce
    <2> QED
      BY <1>1, <2>1, <2>2 DEF TimingInv, Reported
  <1> QED
    BY <1>1, TimingInvariant, PTL

\* No offset that Debug prints of such a request wraps, whatever the width of the numbers,
\* as long as the timeout itself can be written in them.
THEOREM DebugShowsOffsetsHolds == CheckSpec => []DebugShowsOffsets
  <1> DEFINE Shown == \A part \in Printed :
                LET offsets == Debug(info.durations)[part]
                IN offsets[1] <= offsets[2] /\ offsets[2] <= info.request_duration_us
  <1>1. ASSUME TimingInv PROVE DebugShowsOffsets
    <2> SUFFICES ASSUME info # None,
                        "dns_start" \notin noted \/ {"request_sent", "tls_end"} \subseteq noted
                 PROVE  Shown
      BY DEF DebugShowsOffsets
    <2>1. ASSUME NEW part \in Part, NEW elapsed \in 0 .. Timeout,
                 info = ErroredRequestInfo(part, elapsed)
          PROVE  Shown
      BY <2>1, ErroredParts
    <2>2. ASSUME NEW t \in 0 .. Timeout, NEW hop \in Hops(t), info = RequestInfo(hop),
                 noted = { note \in Note : hop.notes[note] # None }
          PROVE  Shown
      <3>1. \/ hop.notes["dns_start"] = None
            \/ hop.notes["request_sent"] # None /\ hop.notes["tls_end"] # None
        BY <2>2 DEF Note
      <3> QED
        BY <2>2, <3>1, HopShowsOffsets
    <2> QED
      BY <1>1, <2>1, <2>2 DEF TimingInv, Reported
  <1> QED
    BY <1>1, TimingInvariant, PTL

------------------------------------------------------------------------------
(* Its types.                                                               *)

\* The verdict comes once, with a reason where it is a failure, and before the result.
Judged ==
    /\ step \in { "request", "read", "evaluate", "rules" } => status = None /\ reason = None
    /\ status = "failure" <=> reason # None
    /\ kind = "uptime" /\ step \in { "judged", "reread", "attach", "done" } => status # None

InfoTyped ==
    info # None => \A part \in Part :
        info.durations[part].start_us \in Nat /\ info.durations[part].duration_us \in Nat

LEMMA TimingIsTyped == TimingInv => InfoTyped
  <1> SUFFICES ASSUME TimingInv, info # None, NEW part \in Part
               PROVE  info.durations[part].start_us \in Nat /\ info.durations[part].duration_us \in Nat
    BY DEF InfoTyped
  <1>1. ASSUME NEW failed \in Part, NEW elapsed \in 0 .. Timeout,
               info = ErroredRequestInfo(failed, elapsed)
        PROVE  Within(info.durations[part], info.request_duration_us)
    BY <1>1, ErroredParts
  <1>2. ASSUME NEW t \in 0 .. Timeout, NEW hop \in Hops(t), info = RequestInfo(hop)
        PROVE  Within(info.durations[part], info.request_duration_us)
    <2>1. t \in Nat
      BY CheckAssumption
    <2> QED
      BY <1>2, <2>1, PartsOfHop
  <1>3. Within(info.durations[part], info.request_duration_us)
    BY <1>1, <1>2 DEF TimingInv, Reported
  <1> QED
    BY <1>3 DEF Within

TypedAndJudged == CheckTypeOK /\ Judged

LEMMA TypesInit ==
    ASSUME CheckInit
    PROVE  TypedAndJudged
  <1>1. rule \in [end : Nat, bars : BOOLEAN]
    BY CheckAssumption DEF CheckInit
  <1>2. until \in Nat
    BY CheckAssumption DEF CheckInit, Allotment
  <1> QED
    BY <1>1, <1>2, CheckAssumption
    DEF CheckInit, TypedAndJudged, CheckTypeOK, Judged, Step, Status, Reason

LEMMA ReasonOfType == \A chain \in Chains : ReasonOf(chain) \in Reason
  BY DEF ReasonOf, Reason

LEMMA BilledToType == \A chain \in Chains : BilledTo(chain) \in Part
  BY DEF BilledTo, Part

LEMMA TypesStep ==
    ASSUME TypedAndJudged, HttpInv, InfoTyped', [CheckNext]_checkVars
    PROVE  TypedAndJudged'
  <1> USE DEF TypedAndJudged, CheckTypeOK, InfoTyped, Judged, Step, configVars, streamVars, resultVars
  <1>0. None \notin Nat /\ None \notin Chains /\ None \notin Status \cup Reason
    BY CheckAssumption
  <1>a. /\ step \in { "judged", "reread", "attach" } => kind = "uptime"
        /\ step = "rules" => kind = "robots"
    BY DEF HttpInv, BodyIsReceived
  <1>1. ASSUME NEW chain \in Chains, RequestFails(chain)
        PROVE  TypedAndJudged'
    BY <1>0, <1>1, ReasonOfType, BilledToType DEF RequestFails, Status
  <1>2. ASSUME NEW success \in BOOLEAN, Respond(success)
        PROVE  TypedAndJudged'
    BY <1>2 DEF Respond
  <1>3. ASSUME NEW n \in 1 .. MaxChunk, Chunk(n)
        PROVE  TypedAndJudged'
    <2>1. n \in Nat /\ received + n \in Nat /\ reading + n \in Nat
      BY CheckAssumption
    <2>2. CASE reading + n > MaxBody
      BY <1>a, <1>3, <2>1, <2>2 DEF Chunk, AfterRead, AfterReading
    <2>3. CASE ~ (reading + n > MaxBody)
      BY <1>3, <2>1, <2>3 DEF Chunk
    <2> QED
      BY <2>2, <2>3
  <1>4. CASE ReadStops
    BY <1>a, <1>4 DEF ReadStops, AfterRead, AfterReading
  <1>5. CASE JudgeStatus \/ CompileFails \/ EvaluateAssertion
    BY <1>0, <1>5 DEF JudgeStatus, CompileFails, EvaluateAssertion, Verdict, Status, Reason
  <1>6. CASE BeginReread \/ SkipReread
    BY <1>6 DEF BeginReread, SkipReread
  <1>7. CASE Attach
    <2>1. clock \in 0 .. Timeout
      BY <1>a, <1>7, CheckAssumption DEF Attach, HttpInv, OneDeadline, Allotment
    <2>2. PICK report \in Reports[clock] : info' = report.info /\ noted' = report.noted
      BY <1>7 DEF Attach
    <2>3. PICK hop \in Hops(clock) :
             report = [info |-> RequestInfo(hop), noted |-> { note \in Note : hop.notes[note] # None }]
      BY <2>1, <2>2 DEF Reports
    <2>4. noted' \subseteq Note
      BY <2>2, <2>3
    <2>5. captured' \in Nat \cup {None} /\ step' = "done"
          /\ UNCHANGED <<configVars, clock, until, ok, streamVars, reading, body, error,
                         status, reason, billed>>
      BY <1>7 DEF Attach
    <2> QED
      BY <1>a, <1>7, <2>4, <2>5 DEF Attach
  <1>8. CASE RobotsRequestFails \/ ApplyRules
    BY <1>0, <1>a, <1>8 DEF RobotsRequestFails, ApplyRules, Status
  <1>9. CASE Wait \/ Done \/ UNCHANGED checkVars
    BY <1>9 DEF Wait, Done, checkVars
  <1> QED
    BY <1>1, <1>2, <1>3, <1>4, <1>5, <1>6, <1>7, <1>8, <1>9 DEF CheckNext

\* Type correctness of a check, whatever the client and the server do: its timings are
\* unsigned, and a check that is over has a verdict, with a reason exactly where it failed.
THEOREM CheckTypeCorrect == CheckSpec => []CheckTypeOK
  <1>1. CheckInit => TypedAndJudged
    BY TypesInit
  <1>2. TypedAndJudged /\ HttpInv /\ InfoTyped' /\ [CheckNext]_checkVars => TypedAndJudged'
    BY TypesStep
  <1>3. TypedAndJudged => CheckTypeOK
    BY DEF TypedAndJudged
  <1> QED
    BY <1>1, <1>2, <1>3, TimingIsTyped, HttpInvariant, TimingInvariant, PTL DEF CheckSpec

==============================================================================
