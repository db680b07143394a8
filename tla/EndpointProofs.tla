---------------------------- MODULE EndpointProofs ----------------------------
(***************************************************************************)
(* Proofs about Endpoint: for every number of callers and checks, every    *)
(* set of assertions and every way they share the slots of the cache, a    *)
(* check is judged by its own assertion, and no request ends the process.  *)
(***************************************************************************)
EXTENDS Endpoint, TLAPS

\* An entry of the cache is what its own key compiles to.
EntriesAreTrue ==
    \A s \in Slots : compiled[s] # None => compiled[s].assertion = compiled[s].key

\* A check in the cache has an assertion, and a check with one keeps it in key.
AskersHaveKeys ==
    \A t \in Tasks : /\ step[t] = "assert" => asserted[t]
                     /\ asserted[t] => key[t] \in Keys

\* A caller that is in nothing has nothing left of its last call.
CallersStartAfresh ==
    \A t \in Tasks : call[t] = "none" =>
        step[t] = "none" /\ got[t] = None /\ status[t] = None /\ ~ asserted[t]

EndpointInv ==
    /\ TypeOK
    /\ CallersStartAfresh
    /\ EntriesAreTrue
    /\ AskersHaveKeys
    /\ JudgedByItsOwn
    /\ ExecuteNeverAborts

LEMMA EndpointInvInit == Init => EndpointInv
  <1> SUFFICES ASSUME Init PROVE EndpointInv
    OBVIOUS
  <1> USE CacheAssumption, EndpointAssumption
  <1>1. TypeOK
    <2>1. CacheTypeOK
      BY DEF Init, CacheInit, CacheTypeOK
    <2>2. \A t \in Tasks : at[t] = "idle"
      BY DEF Init, CacheInit
    <2>3. asserted \in [Tasks -> BOOLEAN] /\ aborted \in BOOLEAN
      BY DEF Init
    <2> QED
      BY <2>1, <2>2, <2>3 DEF Init, TypeOK, Call
  <1>2. CallersStartAfresh /\ EntriesAreTrue /\ AskersHaveKeys
    BY DEF Init, CacheInit, CallersStartAfresh, EntriesAreTrue,
           AskersHaveKeys
  <1>3. JudgedByItsOwn /\ ExecuteNeverAborts
    BY DEF Init, CacheInit, JudgedByItsOwn, ExecuteNeverAborts, Status
  <1> QED
    BY <1>1, <1>2, <1>3 DEF EndpointInv

\* A handler or a check that is over leaves nothing behind that could be wrong.
LEMMA LeaveInv ==
    ASSUME EndpointInv, NEW t \in Tasks, Leave(t), at[t] = "idle"
    PROVE  EndpointInv'
  <1> USE CacheAssumption, EndpointAssumption DEF EndpointInv
  <1>1. TypeOK'
    BY DEF Leave, TypeOK, CacheTypeOK, Call
  <1>2. (CallersStartAfresh /\ EntriesAreTrue /\ AskersHaveKeys)'
    BY DEF Leave, TypeOK, CacheTypeOK, CallersStartAfresh, EntriesAreTrue,
           AskersHaveKeys
  <1>3. (JudgedByItsOwn /\ ExecuteNeverAborts)'
    BY DEF Leave, TypeOK, CacheTypeOK, JudgedByItsOwn,
           ExecuteNeverAborts, Status
  <1> QED
    BY <1>1, <1>2, <1>3

\* A step of get_or_compile answers a task with its own assertion or with an error,
\* whatever the others have put in its slot.
LEMMA CacheStepInv ==
    ASSUME EndpointInv, NEW t \in Tasks, CacheStep(t)
    PROVE  EndpointInv'
  <1> USE CacheAssumption, EndpointAssumption DEF EndpointInv, TypeOK, CacheTypeOK
  <1>0. /\ UNCHANGED <<server, call, step, asserted, status, retry, aborted>>
        /\ step[t] = "assert" /\ key[t] \in Keys /\ asserted[t]
    BY DEF CacheStep, callVars, AskersHaveKeys
  <1>1. CASE ReadLock(t) \/ CompileSucceeds(t) \/ WriteLock(t)
    <2>1. TypeOK'
      BY <1>0, <1>1 DEF ReadLock, CompileSucceeds, WriteLock
    <2>2. UNCHANGED <<compiled, key, got>>
      BY <1>1 DEF ReadLock, CompileSucceeds, WriteLock
    <2> QED
      BY <1>0, <2>1, <2>2 DEF CallersStartAfresh, EntriesAreTrue, AskersHaveKeys, JudgedByItsOwn,
             ExecuteNeverAborts
  <1>2. CASE Miss(t)
    <2>1. TypeOK'
      BY <1>0, <1>2 DEF Miss
    <2>2. UNCHANGED <<compiled, key, got>>
      BY <1>2 DEF Miss
    <2> QED
      BY <1>0, <2>1, <2>2 DEF CallersStartAfresh, EntriesAreTrue, AskersHaveKeys, JudgedByItsOwn,
             ExecuteNeverAborts
  <1>3. CASE Hit(t)
    <2>1. got' = [got EXCEPT ![t] = key[t]]
      <3>1. SlotOf[key[t]] \in Slots
        BY <1>0
      <3> QED
        BY <1>3, <3>1 DEF Hit, Holds, Return, EntriesAreTrue
    <2>2. TypeOK'
      BY <1>0, <1>3, <2>1 DEF Hit, Return
    <2>3. UNCHANGED <<compiled, key>>
      BY <1>3 DEF Hit, Return
    <2> QED
      BY <1>0, <2>1, <2>2, <2>3 DEF CallersStartAfresh, EntriesAreTrue, AskersHaveKeys,
             JudgedByItsOwn, ExecuteNeverAborts
  <1>4. CASE CompileFails(t)
    <2>1. TypeOK'
      BY <1>0, <1>4 DEF CompileFails, Return
    <2>2. /\ UNCHANGED <<compiled, key>>
          /\ got' = [got EXCEPT ![t] = "compilation_error"]
      BY <1>4 DEF CompileFails, Return
    <2> QED
      BY <1>0, <2>1, <2>2 DEF CallersStartAfresh, EntriesAreTrue, AskersHaveKeys, JudgedByItsOwn,
             ExecuteNeverAborts
  <1>5. CASE Insert(t)
    <2>1. TypeOK'
      BY <1>0, <1>5 DEF Insert, Return, Entry
    <2>2. /\ UNCHANGED key
          /\ got' = [got EXCEPT ![t] = key[t]]
      BY <1>5 DEF Insert, Return
    <2>3. EntriesAreTrue'
      BY <1>0, <1>5 DEF Insert, EntriesAreTrue
    <2> QED
      BY <1>0, <2>1, <2>2, <2>3 DEF CallersStartAfresh, AskersHaveKeys,
             JudgedByItsOwn, ExecuteNeverAborts
  <1> QED
    BY <1>1, <1>2, <1>3, <1>4, <1>5 DEF CacheStep, GetOrCompile

LEMMA EndpointInvStep == EndpointInv /\ [Next]_vars => EndpointInv'
  <1> SUFFICES ASSUME EndpointInv, [Next]_vars PROVE EndpointInv'
    OBVIOUS
  <1> USE CacheAssumption, EndpointAssumption DEF EndpointInv, TypeOK, CacheTypeOK
  <1>1. ASSUME NEW t \in Tasks, NEW kind \in Call \ {"none"}, NEW k \in Keys \cup {None},
               Enter(t, kind, k)
        PROVE  EndpointInv'
    <2>1. /\ UNCHANGED <<compiled, readers, writer, at, got, server, status, retry, aborted>>
          /\ call' = [call EXCEPT ![t] = kind] /\ step' = [step EXCEPT ![t] = "begin"]
          /\ key' = [key EXCEPT ![t] = k] /\ asserted' = [asserted EXCEPT ![t] = k # None]
      BY <1>1 DEF Enter
    <2>2. at[t] = "idle" /\ got[t] = None /\ status[t] = None
      BY <1>1 DEF Enter, CallersStartAfresh
    <2>3. TypeOK'
      BY <2>1, <2>2
    <2> QED
      BY <2>1, <2>2, <2>3 DEF CallersStartAfresh, EntriesAreTrue, AskersHaveKeys,
             JudgedByItsOwn, ExecuteNeverAborts, Status
  <1>2. ASSUME NEW t \in Tasks, RejectBody(t) \/ RecordResult(t)
        PROVE  EndpointInv'
    <2>1. at[t] = "idle" /\ Leave(t)
      BY <1>2 DEF RejectBody, RecordResult
    <2> QED
      BY <2>1, LeaveInv
  <1>3. ASSUME NEW t \in Tasks,
               \/ ValidateCheck(t) \/ MissWindow(t)
               \/ \E s \in { "success", "failure" } : Responds(t, s)
        PROVE  EndpointInv'
    <2>1. PICK v \in Status : status' = [status EXCEPT ![t] = v]
      BY <1>3 DEF ValidateCheck, MissWindow, Responds, Status
    <2>2. /\ UNCHANGED <<compiled, readers, writer, at, key, got>>
          /\ UNCHANGED <<server, call, asserted, retry, aborted>>
          /\ step[t] = "begin" /\ step' = [step EXCEPT ![t] = "retire"]
      BY <1>3 DEF ValidateCheck, MissWindow, Responds, Goes, cacheVars
    <2>3. TypeOK'
      BY <2>1, <2>2
    <2> QED
      BY <2>1, <2>2, <2>3 DEF CallersStartAfresh, EntriesAreTrue, AskersHaveKeys, JudgedByItsOwn,
             ExecuteNeverAborts
  <1>4. ASSUME NEW t \in Tasks, AskCache(t)
        PROVE  EndpointInv'
    <2>1. /\ UNCHANGED <<compiled, readers, writer, status>>
          /\ UNCHANGED <<server, call, asserted, retry, aborted>>
          /\ step' = [step EXCEPT ![t] = "assert"] /\ asserted[t]
          /\ at' = [at EXCEPT ![t] = "lookup"] /\ got' = [got EXCEPT ![t] = None]
          /\ key' = key
      BY <1>4 DEF AskCache, Ask, Goes
    <2>2. TypeOK'
      BY <2>1
    <2> QED
      BY <2>1, <2>2 DEF CallersStartAfresh, EntriesAreTrue, AskersHaveKeys, JudgedByItsOwn,
             ExecuteNeverAborts
  <1>5. ASSUME NEW t \in Tasks, CacheStep(t)
        PROVE  EndpointInv'
    BY <1>5, CacheStepInv
  <1>6. ASSUME NEW t \in Tasks, NEW s \in { "success", "failure" }, Judge(t, s)
        PROVE  EndpointInv'
    <2>1. /\ UNCHANGED <<compiled, readers, writer, at, key, got>>
          /\ UNCHANGED <<server, call, asserted, retry, aborted>>
          /\ step[t] = "assert" /\ step' = [step EXCEPT ![t] = "retire"] /\ at[t] = "idle"
      BY <1>6 DEF Judge, Goes, cacheVars
    <2>2. PICK v \in Status : status' = [status EXCEPT ![t] = v]
      BY <1>6 DEF Judge, Status
    <2>3. TypeOK'
      BY <2>1, <2>2
    <2> QED
      BY <2>1, <2>2, <2>3 DEF CallersStartAfresh, EntriesAreTrue, AskersHaveKeys, JudgedByItsOwn,
             ExecuteNeverAborts
  <1>7. ASSUME NEW t \in Tasks, RetryCheck(t)
        PROVE  EndpointInv'
    <2>1. call[t] # "execute" /\ retry[t] < FailureRetries
      BY <1>7 DEF RetryCheck, WillRetry, Retries
    <2>2. /\ UNCHANGED <<compiled, readers, writer, at, key, got>>
          /\ UNCHANGED <<server, call, asserted, status, aborted>>
          /\ step[t] = "retire" /\ step' = [step EXCEPT ![t] = "begin"]
          /\ retry' = [retry EXCEPT ![t] = @ + 1]
      BY <1>7, <2>1 DEF RetryCheck, cacheVars
    <2>3. TypeOK'
      BY <2>1, <2>2
    <2> QED
      BY <2>2, <2>3 DEF CallersStartAfresh, EntriesAreTrue, AskersHaveKeys, JudgedByItsOwn,
             ExecuteNeverAborts
  <1>8. CASE Bind \/ ShutDown \/ EndServer \/ UNCHANGED vars
    <2>1. /\ UNCHANGED <<compiled, readers, writer, at, key, got>>
          /\ UNCHANGED <<call, step, asserted, status, retry, aborted>>
          /\ server' \in { "binding", "serving", "stopping", "ended" }
      BY <1>8 DEF Bind, ShutDown, EndServer, vars, cacheVars, callVars
    <2>2. TypeOK'
      BY ONLY EndpointInv, <2>1 DEF EndpointInv, TypeOK, CacheTypeOK
    <2>3. (CallersStartAfresh /\ EntriesAreTrue /\ AskersHaveKeys)'
      BY ONLY EndpointInv, <2>1 DEF EndpointInv, CallersStartAfresh, EntriesAreTrue,
             AskersHaveKeys
    <2>4. (JudgedByItsOwn /\ ExecuteNeverAborts)'
      BY ONLY EndpointInv, <2>1 DEF EndpointInv, JudgedByItsOwn, ExecuteNeverAborts
    <2> QED
      BY ONLY <2>2, <2>3, <2>4 DEF EndpointInv
  <1> QED
    BY <1>1, <1>2, <1>3, <1>4, <1>5, <1>6, <1>7, <1>8 DEF Next, Work

LEMMA EndpointInvariant == Spec => []EndpointInv
  BY EndpointInvInit, EndpointInvStep, PTL DEF Spec

\* A check, scheduled or executed for a caller, is judged by the assertion of its own
\* config, whichever tasks share its slot of the cache and however their lookups,
\* compilations and inserts interleave with its own.
THEOREM JudgedByItsOwnHolds == Spec => []JudgedByItsOwn
  <1>1. EndpointInv => JudgedByItsOwn
    BY DEF EndpointInv
  <1> QED
    BY <1>1, EndpointInvariant, PTL

\* A request of execute_config never reaches the channel whose receiver it dropped,
\* for every number of retries the executor is configured with.
THEOREM ExecuteNeverAbortsHolds == Spec => []ExecuteNeverAborts
  <1>1. EndpointInv => ExecuteNeverAborts
    BY DEF EndpointInv
  <1> QED
    BY <1>1, EndpointInvariant, PTL

===============================================================================
