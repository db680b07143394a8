------------------------------- MODULE Endpoint -------------------------------
(***************************************************************************)
(* The web server (endpoint/mod.rs) with its two handlers, execute_config  *)
(* and validate_check, beside the checks of the executor: they share the   *)
(* checker, and with it the assertion cache, and the limit on the size of  *)
(* an assertion.  execute_config runs do_check with no retry, a producer   *)
(* that does nothing and a channel for retries that has no receiver.       *)
(*                                                                         *)
(* A caller is one connection: it sends a request, or a scheduled check    *)
(* runs in its place, over and over.  axum and the client are external.    *)
(***************************************************************************)
EXTENDS AssertionCache, FiniteSets

CONSTANT FailureRetries    \* config.failure_retries of the executor

\* The CheckStatus of a result, and the two answers of validate_check
Status == { "success", "failure", "assertion_compilation_error", "missed_window",
            "valid", "invalid" }

ASSUME EndpointAssumption == FailureRetries \in Nat /\ None \notin Status

VARIABLES
    server,            \* "binding", "serving", "stopping" after the signal, "ended"
    call,              \* what a caller is in: "none", "validate", "execute", "scheduled"
    step,              \* where the handler, or its do_check, is
    asserted,          \* the config has an assertion
    status,            \* the status of the check, or the answer of validate_check
    retry,             \* retry_count
    aborted            \* do_check panicked, which ends the process

vars == <<cacheVars, server, call, step, asserted, status, retry, aborted>>
callVars == <<call, step, asserted, status, retry>>

Call == { "none", "validate", "execute", "scheduled" }

TypeOK ==
    /\ CacheTypeOK
    /\ server \in { "binding", "serving", "stopping", "ended" }
    /\ call \in [Tasks -> Call]
    /\ step \in [Tasks -> { "none", "begin", "assert", "retire" }]
    /\ asserted \in [Tasks -> BOOLEAN]
    /\ status \in [Tasks -> Status \cup {None}]
    /\ retry \in [Tasks -> 0 .. FailureRetries]
    /\ aborted \in BOOLEAN
    /\ \A t \in Tasks : at[t] # "idle" => step[t] = "assert"

Init ==
    /\ CacheInit
    /\ server = "binding"
    /\ call = [t \in Tasks |-> "none"] /\ step = [t \in Tasks |-> "none"]
    /\ asserted = [t \in Tasks |-> FALSE]
    /\ status = [t \in Tasks |-> None]
    /\ retry = [t \in Tasks |-> 0]
    /\ aborted = FALSE

\* A request with this assertion, or None, arrives, or a scheduled check begins.  The
\* end of the server is the end of the process (Manager).
Enter(t, kind, k) ==
    /\ ~ aborted /\ call[t] = "none"
    /\ IF kind = "scheduled" THEN server # "ended" ELSE server = "serving"
    /\ call' = [call EXCEPT ![t] = kind]
    /\ step' = [step EXCEPT ![t] = "begin"]
    /\ asserted' = [asserted EXCEPT ![t] = k # None]
    /\ key' = [key EXCEPT ![t] = k]
    /\ UNCHANGED <<compiled, readers, writer, at, got, server, status, retry, aborted>>

\* The handler or the check of t is over, and its variables are gone.
Leave(t) ==
    /\ call' = [call EXCEPT ![t] = "none"]
    /\ step' = [step EXCEPT ![t] = "none"]
    /\ asserted' = [asserted EXCEPT ![t] = FALSE]
    /\ key' = [key EXCEPT ![t] = None]
    /\ got' = [got EXCEPT ![t] = None]
    /\ status' = [status EXCEPT ![t] = None]
    /\ retry' = [retry EXCEPT ![t] = 0]
    /\ UNCHANGED <<compiled, readers, writer, at, server, aborted>>

\* AppJson: the body is not a CheckConfig, and the answer a serialization_error.
RejectBody(t) ==
    /\ call[t] \in { "validate", "execute" } /\ step[t] = "begin" /\ retry[t] = 0 /\ ~ aborted
    /\ Leave(t)

------------------------------------------------------------------------------
(* validate_check compiles the assertion, beside the cache.                 *)

Goes(t, next) ==
    /\ step' = [step EXCEPT ![t] = next]
    /\ UNCHANGED <<server, call, asserted, retry, aborted>>

\* state.max_assertion_ops is the setting that the checker's limit is made of too.
Validates(t) == asserted[t] => Compiles(key[t], MaxAssertionOps)

ValidateCheck(t) ==
    /\ call[t] = "validate" /\ step[t] = "begin" /\ ~ aborted
    /\ status' = [status EXCEPT ![t] = IF Validates(t) THEN "valid" ELSE "invalid"]
    /\ Goes(t, "retire")
    /\ UNCHANGED cacheVars

------------------------------------------------------------------------------
(* do_check, for execute_config and for the executor.                       *)

\* The check is late by more than its interval.
MissWindow(t) ==
    /\ call[t] \in { "execute", "scheduled" } /\ step[t] = "begin" /\ ~ aborted
    /\ status' = [status EXCEPT ![t] = "missed_window"]
    /\ Goes(t, "retire")
    /\ UNCHANGED cacheVars

\* The request fails, or the config has no assertion: the status of the response decides.
Responds(t, s) ==
    /\ call[t] \in { "execute", "scheduled" } /\ step[t] = "begin" /\ ~ aborted
    /\ s = "success" => ~ asserted[t]
    /\ status' = [status EXCEPT ![t] = s]
    /\ Goes(t, "retire")
    /\ UNCHANGED cacheVars

\* to_check_result asks the cache.
AskCache(t) ==
    /\ call[t] \in { "execute", "scheduled" } /\ step[t] = "begin" /\ asserted[t] /\ ~ aborted
    /\ Ask(t, key[t])
    /\ Goes(t, "assert")
    /\ UNCHANGED status

CacheStep(t) ==
    /\ step[t] = "assert" /\ ~ aborted
    /\ GetOrCompile(t)
    /\ UNCHANGED <<server, callVars, aborted>>

TakeLock(t) == (ReadLock(t) \/ WriteLock(t)) /\ CacheStep(t)

Judge(t, s) ==
    /\ step[t] = "assert" /\ at[t] = "idle" /\ ~ aborted
    /\ status' = [status EXCEPT
           ![t] = IF got[t] = "compilation_error" THEN "assertion_compilation_error" ELSE s]
    /\ Goes(t, "retire")
    /\ UNCHANGED cacheVars

\* Mutant of Retries: execute_config retries like the executor.
RetriesLikeExecutor(t) == FailureRetries

\* execute_config passes 0 for failure_retries.
Retries(t) == IF call[t] = "execute" THEN 0 ELSE FailureRetries

Failed(t) == status[t] \in { "failure", "assertion_compilation_error" }

WillRetry(t) == Failed(t) /\ retry[t] < Retries(t)

\* The executor queues the check again; the endpoint's channel has no receiver, and
\* sending to it panics.
RetryCheck(t) ==
    /\ step[t] = "retire" /\ WillRetry(t) /\ ~ aborted
    /\ IF call[t] = "execute"
       THEN aborted' = TRUE /\ UNCHANGED <<step, retry>>
       ELSE /\ step' = [step EXCEPT ![t] = "begin"]
            /\ retry' = [retry EXCEPT ![t] = @ + 1]
            /\ UNCHANGED aborted
    /\ UNCHANGED <<cacheVars, server, call, asserted, status>>

\* The result is produced and recorded, and the handler that awaits it answers; or
\* validate_check does.
RecordResult(t) ==
    /\ step[t] = "retire" /\ ~ WillRetry(t) /\ ~ aborted
    /\ Leave(t)

------------------------------------------------------------------------------
(* start_endpoint: graceful shutdown.                                       *)

InFlight == { t \in Tasks : call[t] \in { "validate", "execute" } }

Bind ==
    /\ server = "binding" /\ ~ aborted
    /\ server' \in { "serving", "ended" }
    /\ UNCHANGED <<cacheVars, callVars, aborted>>

ShutDown ==
    /\ server = "serving" /\ ~ aborted
    /\ server' = "stopping"
    /\ UNCHANGED <<cacheVars, callVars, aborted>>

\* The last connection is done.
EndServer ==
    /\ server = "stopping" /\ InFlight = {} /\ ~ aborted
    /\ server' = "ended"
    /\ UNCHANGED <<cacheVars, callVars, aborted>>

Work(t) ==
    \/ RejectBody(t) \/ ValidateCheck(t)
    \/ MissWindow(t) \/ \E s \in { "success", "failure" } : Responds(t, s)
    \/ AskCache(t) \/ CacheStep(t) \/ \E s \in { "success", "failure" } : Judge(t, s)
    \/ RetryCheck(t) \/ RecordResult(t)

Next ==
    \/ \E t \in Tasks, kind \in Call \ {"none"}, k \in Keys \cup {None} : Enter(t, kind, k)
    \/ \E t \in Tasks : Work(t)
    \/ Bind \/ ShutDown \/ EndServer

\* The runtime polls every task, the network answers within the check's timeout, and
\* a lock that is free is granted.
Fairness ==
    /\ \A t \in Tasks : WF_vars(Work(t))
    /\ \A t \in Tasks : SF_vars(TakeLock(t))
    /\ WF_vars(EndServer)

Spec == Init /\ [][Next]_vars /\ Fairness

------------------------------------------------------------------------------
(* Properties.                                                              *)

\* A check is judged by the assertion of its own config, whichever tasks share its
\* slot of the cache and replace its entry between its lookup and its insert.
JudgedByItsOwn ==
    \A t \in Tasks : got[t] \in Keys => got[t] = key[t]

\* execute_config never queues a retry for the receiver it has dropped, so a request
\* from outside cannot stop the process, and its check runs once.
ExecuteNeverAborts == ~ aborted

\* Every request and every check is answered: tasks that wait for each other's locks
\* do not wait for ever.
EveryoneAnswered == \A t \in Tasks : call[t] # "none" ~> call[t] = "none"

===============================================================================
