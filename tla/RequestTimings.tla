---------------------------- MODULE RequestTimings ----------------------------
(***************************************************************************)
(* The timings of a check (types/result.rs): the client notes when the     *)
(* parts of each request begin and end, one request for every redirect it  *)
(* follows, and to_request_info_list turns the notes into a start and a    *)
(* duration for every part.  Requests do not depend on each other here, so *)
(* these operators are about one of them.                                  *)
(*                                                                         *)
(* The client is external.  Instants count Micro to a microsecond; StartTs *)
(* is what another clock, in microseconds, showed when the request began.  *)
(***************************************************************************)
EXTENDS Integers

CONSTANTS
    None,
    Micro,             \* units of an Instant in a microsecond
    StartTs,           \* get_request_start_timestamp, actual_check_time
    Width              \* values of a u128

ASSUME TimingAssumption ==
    /\ Micro \in Nat \ {0}
    /\ StartTs \in Nat
    /\ Width \in Nat \ {0}

\* The notes of a request
Note == { "dns_start", "dns_end", "connect_start", "connect_end", "tls_start", "tls_end",
          "request_sent", "response_start", "request_end" }

Part == { "dns_lookup", "tcp_connection", "tls_handshake", "send_request",
          "time_to_first_byte", "receive_response" }

------------------------------------------------------------------------------
(* The client.                                                              *)

Lookup == { "dns_start", "dns_end" }
Connection == { "connect_start", "connect_end" }
Handshake == { "tls_start", "tls_end" }

\* The notes a request may lack: the lookup of a host that is an address, the
\* handshake of plain HTTP, all of the connection when a pooled one is used, and
\* the end of sending when the response came before it.
Missing ==
    { connection \cup sending :
        connection \in { {}, Lookup, Handshake, Lookup \cup Handshake,
                         Lookup \cup Connection \cup Handshake },
        sending \in { {}, {"request_sent"} } }

\* Take a note, unless the request lacks it, at any time from the last one on, until t.
Noted(hops, note, missing, t) ==
    IF note \in missing THEN hops
    ELSE UNION { { [hop EXCEPT !.notes[note] = at, !.last = at] : at \in hop.last .. t } : hop \in hops }

\* A request that has begun, the notes in the order they are taken, and what the
\* client may have noted of a request that ended by t
Begun(t) ==
    { [start |-> at, last |-> at, notes |-> [note \in Note |-> None]] : at \in 0 .. t }

LookedUp(missing, t) ==
    Noted(Noted(Begun(t), "dns_start", missing, t), "dns_end", missing, t)

Connected(missing, t) ==
    Noted(Noted(LookedUp(missing, t), "connect_start", missing, t), "connect_end", missing, t)

Secured(missing, t) ==
    Noted(Noted(Connected(missing, t), "tls_start", missing, t), "tls_end", missing, t)

Answered(missing, t) ==
    Noted(Noted(Secured(missing, t), "request_sent", missing, t), "response_start", missing, t)

Hops(t) == UNION { Noted(Answered(missing, t), "request_end", missing, t) : missing \in Missing }

------------------------------------------------------------------------------
(* to_request_info_list.                                                    *)

\* Instant::duration_since saturates.
DurationSince(instant, earlier) == IF instant > earlier THEN instant - earlier ELSE 0

AsMicros(duration) == duration \div Micro

\* Mutant of ToTiming: the duration is rounded up.
ToTimingUp(reference_ts, reference_instant, start, end) ==
    [start_us |-> reference_ts + AsMicros(DurationSince(start, reference_instant)),
     duration_us |-> (DurationSince(end, start) + Micro - 1) \div Micro]

ToTiming(reference_ts, reference_instant, start, end) ==
    [start_us |-> reference_ts + AsMicros(DurationSince(start, reference_instant)),
     duration_us |-> AsMicros(DurationSince(end, start))]

\* Mutant of LatestConnectionStat: the handshake counts as sending.
LatestConnectionStatTcp(hop) ==
    IF hop.notes.connect_end # None THEN hop.notes.connect_end ELSE hop.start

\* When the request goes on the wire: after the handshake, or after connecting.
LatestConnectionStat(hop) ==
    IF hop.notes.tls_end # None THEN hop.notes.tls_end
    ELSE IF hop.notes.connect_end # None THEN hop.notes.connect_end ELSE hop.start

\* A part without notes is empty, at the start of the request.
RequestInfo(hop) ==
    LET At(note) == IF hop.notes[note] = None THEN hop.start ELSE hop.notes[note]
        Timing(start, end) == ToTiming(StartTs, hop.start, start, end)
    IN [request_duration_us |-> AsMicros(DurationSince(At("request_end"), hop.start)),
        durations |->
            [dns_lookup |-> Timing(At("dns_start"), At("dns_end")),
             tcp_connection |-> Timing(At("connect_start"), At("connect_end")),
             tls_handshake |-> Timing(At("tls_start"), At("tls_end")),
             send_request |-> Timing(LatestConnectionStat(hop), At("request_sent")),
             time_to_first_byte |-> Timing(At("request_sent"), At("response_start")),
             receive_response |-> Timing(At("response_start"), At("request_end"))]]

\* to_errored_request_infos: the whole time billed to the part that failed.
ErroredRequestInfo(part, elapsed) ==
    [request_duration_us |-> AsMicros(elapsed),
     durations |-> [p \in Part |->
        [start_us |-> StartTs, duration_us |-> IF p = part THEN AsMicros(elapsed) ELSE 0]]]

------------------------------------------------------------------------------
(* Debug for RequestDurations: offsets from the lookup, as unsigned numbers.*)

\* Mutant of ToTimings: the offset of the end is from the epoch.
ToTimingsAbsolute(reference, start, duration) ==
    << (start - reference) % Width, (start + duration) % Width >>

ToTimings(reference, start, duration) ==
    << (start - reference) % Width, (start - reference + duration) % Width >>

Printed == Part \ { "time_to_first_byte" }

Debug(durations) ==
    [part \in Printed |->
        ToTimings(durations.dns_lookup.start_us, durations[part].start_us,
                  durations[part].duration_us)]

===============================================================================
