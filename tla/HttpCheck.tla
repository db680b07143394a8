------------------------------ MODULE HttpCheck ------------------------------
(***************************************************************************)
(* One run of check_url (checker/reqwest_checker.rs): the request, the     *)
(* bounded read of the body, the assertion, the second read when a failed  *)
(* check is to be captured, and the result; or one of check_robots, which  *)
(* reads a robots.txt the same way.  The client and the server are         *)
(* external: they answer, send chunks of the body, break off or stall.     *)
(*                                                                         *)
(* A body is its length.  What an assertion finds in a response is open;   *)
(* here it is true, false or an error.  Time passes only while the check   *)
(* waits for the network, and never past the deadline of what it waits for:*)
(* timeout_at and the client's own timeout fire there.                     *)
(***************************************************************************)
EXTENDS RequestTimings

CONSTANTS
    Timeout,           \* the check's timeout
    RobotsTimeout,     \* ROBOTS_TIMEOUT
    MaxBody,           \* MAX_BODY_BYTES and MAX_ROBOTS_BYTES
    MaxChunk           \* bound: the largest chunk the server sends

\* No assertion, one on the status or the headers, one that needs the body.
AssertionKind == { "none", "status", "body" }

VARIABLES
    kind,              \* the scheduled check's CheckKind
    assertion,         \* the config's assertion
    compiles,          \* it compiles within max_assertion_ops
    disabled,          \* disable_assertions
    force,             \* force_body_capture of the scheduled check
    capture,           \* response_capture_enabled and capture_response_on_failure
    step,              \* where check_url or check_robots is
    clock,             \* time since start
    until,             \* deadline of what it waits for
    rule,              \* where the last Disallow of the robots.txt ends, and if it bars the URL
    ok,                \* the response has a 2xx status
    stream,            \* the connection the body comes from
    received,          \* length of the body read from it
    reading,           \* all_bytes of the read in progress
    body,              \* body_bytes of the check, or None
    error,             \* the error of a failed request, or None
    status, reason,    \* the verdict
    billed,            \* the part of a failed request its duration is put down to
    captured,          \* response_body of the result, 0 for headers alone, or None
    info,              \* request_info of the result, or None
    noted              \* the notes the client took of that request

configVars == <<kind, rule, assertion, compiles, disabled, force, capture>>
streamVars == <<stream, received>>
resultVars == <<error, status, reason, billed, captured, info, noted>>
checkVars == <<configVars, step, clock, until, ok, streamVars, reading, body, resultVars>>

Step == { "request", "read", "evaluate", "judged", "reread", "attach", "rules", "done" }

Status == { "success", "failure", "disallowed_by_robots" }

Reason ==
    { "timeout", "redirect_error", "dns_error", "tls_error", "connection_error", "failure",
      "assertion_compilation_error", "assertion_evaluation_error" }

\* What the chain of sources of a request's error holds: the errors the client
\* is known to return.  "unreachable" stands for the other errors of connect().
Chains ==
    { {"is_timeout"}, {"is_redirect"},
      {"resolve", "is_connect"}, {"error_stack", "is_connect"},
      {"refused", "is_connect"}, {"unreachable", "is_connect"},
      {"incomplete_message", "send"}, {"hyper", "send"}, {"reset", "hyper", "send"},
      {"builder"} }

ASSUME CheckAssumption ==
    /\ Timeout \in Nat \ {0} /\ RobotsTimeout \in Nat \ {0}
    /\ AsMicros(Timeout) < Width
    /\ MaxBody \in Nat
    /\ MaxChunk \in Nat \ {0}
    /\ None \notin Nat /\ None \notin Chains /\ None \notin Status \cup Reason

CheckTypeOK ==
    /\ kind \in { "uptime", "robots" } /\ rule \in [end : Nat, bars : BOOLEAN]
    /\ assertion \in AssertionKind /\ compiles \in BOOLEAN
    /\ disabled \in BOOLEAN /\ force \in BOOLEAN /\ capture \in BOOLEAN
    /\ step \in Step
    /\ clock \in Nat /\ until \in Nat
    /\ ok \in BOOLEAN
    /\ stream \in { "open", "over" }
    /\ received \in Nat /\ reading \in Nat
    /\ body \in Nat \cup {None}
    /\ error \in Chains \cup {None}
    /\ status \in Status \cup {None}
    /\ reason \in Reason \cup {None}
    /\ billed \in Part \cup {None}
    /\ captured \in Nat \cup {None}
    /\ info # None => \A part \in Part :
           info.durations[part].start_us \in Nat /\ info.durations[part].duration_us \in Nat
    /\ noted \subseteq Note
    /\ step = "done" => (kind = "uptime" => status # None) /\ (status = "failure" <=> reason # None)

\* The time a check has for all its waiting
Allotment == IF kind = "robots" THEN RobotsTimeout ELSE Timeout

CheckInit ==
    /\ kind \in { "uptime", "robots" }
    /\ rule \in [end : 1 .. MaxBody + MaxChunk, bars : BOOLEAN]
    /\ kind = "uptime" => rule = [end |-> 1, bars |-> FALSE]
    /\ assertion \in AssertionKind /\ compiles \in BOOLEAN
    /\ disabled \in BOOLEAN /\ force \in BOOLEAN /\ capture \in BOOLEAN
    /\ step = "request" /\ clock = 0 /\ until = Allotment
    /\ ok = FALSE /\ stream = "open" /\ received = 0
    /\ reading = 0 /\ body = None
    /\ error = None /\ status = None /\ reason = None /\ billed = None /\ captured = None
    /\ info = None /\ noted = {}

------------------------------------------------------------------------------
(* Failed requests.                                                         *)

\* CheckStatusReason::from
ReasonOf(chain) ==
    CASE "is_timeout" \in chain -> "timeout"
      [] "is_redirect" \in chain -> "redirect_error"
      [] "resolve" \in chain -> "dns_error"
      [] "error_stack" \in chain -> "tls_error"
      [] chain \cap { "refused", "reset", "incomplete_message" } # {} -> "connection_error"
      [] "hyper" \in chain -> "failure"
      [] "is_connect" \in chain -> "connection_error"
      [] OTHER -> "failure"

\* to_errored_request_infos
BilledTo(chain) ==
    CASE "resolve" \in chain -> "dns_lookup"
      [] chain \cap { "refused", "reset" } # {} -> "tcp_connection"
      [] "error_stack" \in chain -> "tls_handshake"
      [] OTHER -> "send_request"

RequestFails(chain) ==
    /\ step = "request" /\ kind = "uptime"
    /\ clock = until => chain = {"is_timeout"}
    /\ error' = chain
    /\ status' = "failure" /\ reason' = ReasonOf(chain) /\ billed' = BilledTo(chain)
    /\ info' = ErroredRequestInfo(BilledTo(chain), clock)
    /\ step' = "done"
    /\ UNCHANGED <<configVars, clock, until, ok, streamVars, reading, body, captured, noted>>

------------------------------------------------------------------------------
(* The response.                                                            *)

RequiresBody == ~ disabled /\ assertion = "body"

Respond(success) ==
    /\ step = "request"
    /\ ok' = success
    /\ step' = IF RequiresBody \/ kind = "robots" THEN "read" ELSE "evaluate"
    /\ UNCHANGED <<configVars, clock, until, streamVars, reading, body, resultVars>>

AfterReading ==
    IF kind = "robots" THEN "rules" ELSE IF step = "read" THEN "evaluate" ELSE "attach"

\* Mutant of AfterRead: a read that times out returns nothing.
AfterReadUntimed(bytes) ==
    /\ reading' = 0
    /\ body' = IF clock = until THEN 0 ELSE bytes
    /\ step' = AfterReading

\* read_body_bounded returns what it has.
AfterRead(bytes) ==
    /\ reading' = 0
    /\ body' = bytes
    /\ step' = AfterReading

Chunk(n) ==
    /\ step \in { "read", "reread" } /\ stream = "open"
    /\ received' = received + n
    /\ IF reading + n > MaxBody THEN AfterRead(reading + n)
       ELSE reading' = reading + n /\ UNCHANGED <<body, step>>
    /\ UNCHANGED <<configVars, clock, until, ok, stream, resultVars>>

\* The body ends, the connection fails, or the wait is over.
ReadStops ==
    /\ step \in { "read", "reread" }
    /\ stream' \in IF clock = until THEN { stream } ELSE { "over" }
    /\ AfterRead(reading)
    /\ UNCHANGED <<configVars, clock, until, ok, received, resultVars>>

------------------------------------------------------------------------------
(* The verdict: to_check_result.                                            *)

Verdict(s, r) ==
    /\ status' = s /\ reason' = r
    /\ step' = "judged"
    /\ UNCHANGED <<configVars, clock, until, ok, streamVars, reading, error, billed,
                   captured, info, noted>>

JudgeStatus ==
    /\ step = "evaluate" /\ (disabled \/ assertion = "none")
    /\ IF ok THEN Verdict("success", None) ELSE Verdict("failure", "failure")
    /\ UNCHANGED body

\* The early return leaves body_bytes at None.
CompileFails ==
    /\ step = "evaluate" /\ ~ disabled /\ assertion # "none" /\ ~ compiles
    /\ Verdict("failure", "assertion_compilation_error")
    /\ body' = None

EvaluateAssertion ==
    /\ step = "evaluate" /\ ~ disabled /\ assertion # "none" /\ compiles
    /\ \/ Verdict("success", None)
       \/ Verdict("failure", "failure")
       \/ Verdict("failure", "assertion_evaluation_error")
    /\ UNCHANGED body

------------------------------------------------------------------------------
(* The capture.                                                             *)

WillCapture == force \/ (capture /\ status = "failure")

\* Mutant of BeginReread: the second read has a timeout of its own.
BeginRereadAnew ==
    /\ step = "judged" /\ WillCapture /\ body = None
    /\ step' = "reread"
    /\ until' = clock + Timeout
    /\ UNCHANGED <<configVars, clock, ok, streamVars, reading, body, resultVars>>

BeginReread ==
    /\ step = "judged" /\ WillCapture /\ body = None
    /\ step' = "reread"
    /\ UNCHANGED <<configVars, clock, until, ok, streamVars, reading, body, resultVars>>

SkipReread ==
    /\ step = "judged" /\ (WillCapture => body # None)
    /\ step' = "attach"
    /\ UNCHANGED <<configVars, clock, until, ok, streamVars, reading, body, resultVars>>

\* What the client may have noted by time t, and what the result says of it
Reports ==
    [t \in 0 .. Timeout |->
        { [info |-> RequestInfo(hop), noted |-> { note \in Note : hop.notes[note] # None }] :
              hop \in Hops(t) }]

\* The stats are consumed when nothing is left to read; the body and the headers
\* go into the last request's info.
Attach ==
    /\ step = "attach"
    /\ \E report \in Reports[clock] : info' = report.info /\ noted' = report.noted
    /\ captured' = IF WillCapture THEN body ELSE None
    /\ step' = "done"
    /\ UNCHANGED <<configVars, clock, until, ok, streamVars, reading, body, error,
                   status, reason, billed>>

------------------------------------------------------------------------------
(* check_robots.                                                            *)

\* No robots.txt: the check passes and there is no result.
RobotsRequestFails ==
    /\ step = "request" /\ kind = "robots"
    /\ step' = "done"
    /\ UNCHANGED <<configVars, clock, until, ok, streamVars, reading, body, resultVars>>

\* A rule cut short is one with a shorter path, which may bar the URL or be dropped;
\* where Robot::new fails nothing is barred.
Barred(bytes) ==
    CASE bytes = 0 -> {FALSE}
      [] bytes \in 1 .. rule.end - 1 -> BOOLEAN
      [] bytes >= rule.end -> {FALSE, rule.bars}

ApplyRules ==
    /\ step = "rules"
    /\ \E barred \in Barred(body) :
        status' = IF barred THEN "disallowed_by_robots" ELSE status
    /\ step' = "done"
    /\ UNCHANGED <<configVars, clock, until, ok, streamVars, reading, body, error,
                   reason, billed, captured, info, noted>>

------------------------------------------------------------------------------

\* Time passes while the check waits for the network.
Wait ==
    /\ step \in { "request", "read", "reread" } /\ clock < until
    /\ clock' = clock + 1
    /\ UNCHANGED <<configVars, step, until, ok, streamVars, reading, body, resultVars>>

Done ==
    /\ step = "done"
    /\ UNCHANGED checkVars

CheckNext ==
    \/ \E chain \in Chains : RequestFails(chain)
    \/ \E success \in BOOLEAN : Respond(success)
    \/ \E n \in 1 .. MaxChunk : Chunk(n)
    \/ ReadStops
    \/ JudgeStatus \/ CompileFails \/ EvaluateAssertion
    \/ BeginReread \/ SkipReread \/ Attach
    \/ RobotsRequestFails \/ ApplyRules
    \/ Wait
    \/ Done

CheckSpec == CheckInit /\ [][CheckNext]_checkVars

------------------------------------------------------------------------------
(* Properties.                                                              *)

\* A check is over when its timeout is, whichever reads it makes, and one of a
\* robots.txt when ROBOTS_TIMEOUT is: it holds a slot of the executor for no longer.
KeepsTimeout == clock <= IF kind = "robots" THEN RobotsTimeout ELSE Timeout

\* What a captured check received of the body is in its result, however its reads
\* were cut short, and whether the assertion or the capture read it.  (Only an
\* assertion that does not compile loses the body.)
CapturesBody ==
    step = "done" /\ kind = "uptime" /\ error = None /\ WillCapture
    /\ reason # "assertion_compilation_error"
        => captured = received

\* Options.response_capture_enabled says that when a check fails, the body and the
\* headers are captured and included in the result.
FailureIsCaptured ==
    step = "done" /\ kind = "uptime" /\ error = None /\ capture /\ status = "failure"
        => captured = received

\* check_url says that the captured body is truncated if needed.
CaptureIsTruncated == captured # None => captured <= MaxBody

\* to_errored_request_infos bills the full time to the part that failed: an error
\* of connect() that the result calls a connection error is billed to the TCP
\* connection.
BilledWhereItFailed ==
    error # None /\ reason = "connection_error" =>
        ("is_connect" \in error => billed = "tcp_connection")

\* Every part of a request lies within it: it starts no earlier than the request and
\* ends no later than request_duration_us after that, whichever parts there were and
\* whatever was cut to microseconds; and the request lies within the check's timeout.
PartsWithinRequest ==
    info # None =>
        /\ info.request_duration_us <= AsMicros(Timeout)
        /\ \A part \in Part :
            LET timing == info.durations[part]
            IN /\ timing.start_us >= StartTs
               /\ timing.start_us + timing.duration_us <= StartTs + info.request_duration_us

\* The time billed to all parts of a request
Billed(durations) ==
    durations.dns_lookup.duration_us + durations.tcp_connection.duration_us
        + durations.tls_handshake.duration_us + durations.send_request.duration_us
        + durations.time_to_first_byte.duration_us + durations.receive_response.duration_us

\* No time is billed twice: the parts of a request that failed, or that was sent before
\* its response, add up to no more than its duration.
BilledOnce ==
    info # None /\ (error # None \/ "request_sent" \in noted) =>
        Billed(info.durations) <= info.request_duration_us

\* What the log shows of a request that failed at once, made no lookup, or made one and
\* a TLS connection, is the time from the lookup: no offset wraps.
DebugShowsOffsets ==
    info # None /\ (\/ "dns_start" \notin noted
                   \/ {"request_sent", "tls_end"} \subseteq noted) =>
        \A part \in Printed :
            LET offsets == Debug(info.durations)[part]
            IN offsets[1] <= offsets[2] /\ offsets[2] <= info.request_duration_us

==============================================================================
