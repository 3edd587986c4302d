---------------------------- MODULE RtspSession ----------------------------
(* The requests of one RTSP connection after another (rtsp_handlers.c) and    *)
(* what they make of the audio receiver (audio_receiver.c), the clocks and    *)
(* the events.  AirPlay 1 announces its format and key and sets up ports;     *)
(* AirPlay 2 pairs, sets up a session and then streams.  A handler is one     *)
(* step: the next request waits for its answer.                              *)
EXTENDS Naturals

CONSTANTS MaxConnections,   \* bound: connections, one after the other
          MaxRequests       \* bound: requests of a connection that are not its set-up

VARIABLES
    conn,    \* rtsp_conn_t of the connection being served
    rcv,     \* receiver: its two streams, its decoder, its timing
    ntpRuns, \* the NTP client runs
    dacp,    \* the DACP session is known
    shown,   \* the last playback event
    client   \* the phone: its connection, protocol, phase, format and key

sessionVars == <<conn, rcv, ntpRuns, dacp, shown, client>>

Realtime == 96
Buffered == 103
Streams == {"realtime", "buffered"}
\* calloc in rtsp_conn_create
NoConn == [v |-> 0, type |-> 0, paused |-> FALSE, active |-> FALSE, ports |-> {}, control |-> FALSE, hap |-> FALSE]
NoClient == [n |-> 0, v |-> 0, phase |-> "gone", fmt |-> "none", key |-> "none", sent |-> 0]
\* audio_receiver_init
SessionInit ==
        /\ conn = NoConn
        /\ rcv = [cur |-> "realtime", type |-> [s \in Streams |-> 0], fmt |-> [s \in Streams |-> "default"],
                  key |-> [s \in Streams |-> "none"], run |-> {}, decoder |-> "none", playing |-> TRUE,
                  latency |-> FALSE, anchor |-> FALSE, flushAt |-> FALSE, nack |-> FALSE]
        /\ ntpRuns = FALSE /\ dacp = FALSE /\ shown = "none"
        /\ client = NoClient

-----------------------------------------------------------------------------
(* The receiver.                                                             *)

SetFormat(r, f) == [r EXCEPT !.fmt = [s \in Streams |-> f], !.decoder = f]
SetKey(r, k) == [r EXCEPT !.key = [s \in Streams |-> k]]
StreamOf(t) == IF t = Buffered THEN "buffered" ELSE "realtime"
\* audio_receiver_set_stream_type: a change stops the other stream
SetType(r, t) ==
    LET s == StreamOf(t)
    IN IF r.cur = s THEN [r EXCEPT !.type[s] = t]
       ELSE [r EXCEPT !.fmt[s] = r.fmt[r.cur], !.key[s] = r.key[r.cur], !.run = @ \ {r.cur}, !.cur = s, !.type[s] = t]
\* audio_timing_reset keeps playing and the playout latency
TimingReset(r) == [r EXCEPT !.anchor = FALSE, !.flushAt = FALSE]
StartRealtime(r, ok) ==
    LET q == TimingReset(SetType(r, Realtime))
    IN [q EXCEPT !.run = IF ok THEN @ \cup {"realtime"} ELSE @ \ {"realtime"}]
StartBuffered(r, ok) ==
    LET q == SetType(r, Buffered)
    IN IF "buffered" \in q.run THEN q ELSE [TimingReset(q) EXCEPT !.run = IF ok THEN @ \cup {"buffered"} ELSE @]
\* start_audio_receiver_or_fail, audio_receiver_start_stream
StartStream(r, t, ok) == IF t = Buffered THEN StartBuffered(SetType(r, t), ok) ELSE StartRealtime(SetType(r, t), ok)
Started(r) == r.cur \in r.run
\* audio_receiver_stop
\* Mutant: the keys are kept for the next stream.
StopKeepingKeys(r) == [TimingReset(r) EXCEPT !.run = {}, !.decoder = "none", !.nack = FALSE]
StopReceiver(r) == [TimingReset(SetKey(r, "none")) EXCEPT !.run = {}, !.decoder = "none", !.nack = FALSE]
\* audio_receiver_seek_flush
SeekFlush(r) == TimingReset(r)
\* audio_receiver_set_client_control
Control(r, c) == IF c.control THEN [r EXCEPT !.nack = TRUE] ELSE r

-----------------------------------------------------------------------------
(* Requests.  Sends(p, q) is the phone's turn in phase p, which then is q.    *)

Sends(v, before, after) ==
    /\ client.v \in v /\ client.phase \in before
    /\ client' = [client EXCEPT !.phase = after]
Talks(v) == /\ client.v \in v /\ client.phase \notin {"new", "gone"} /\ client.sent < MaxRequests
            /\ client' = [client EXCEPT !.sent = @ + 1]
\* rtsp_conn_create, rtsp_dispatch: both DACP headers come with the first request
Connect(v, f, k) ==
    /\ client.phase = "gone" /\ client.n < MaxConnections
    /\ client' = [n |-> client.n + 1, v |-> v, phase |-> "new", fmt |-> f, key |-> k, sent |-> 0]
    /\ dacp' = TRUE /\ UNCHANGED <<conn, rcv, ntpRuns, shown>>
\* handle_options: a challenge tells AirPlay 1
Options == /\ Sends({1}, {"new"}, "known") /\ conn' = [conn EXCEPT !.v = 1]
           /\ UNCHANGED <<rcv, ntpRuns, dacp, shown>>
\* handle_announce, parse_sdp: no key leaves the receiver's as it is
Announce == /\ Sends({1}, {"known"}, "announced")
            /\ conn' = [conn EXCEPT !.v = IF client.key # "none" THEN 1 ELSE @]
            /\ rcv' = IF client.key # "none" THEN SetKey(SetFormat(rcv, client.fmt), client.key) ELSE SetFormat(rcv, client.fmt)
            /\ UNCHANGED <<ntpRuns, dacp, shown>>
\* handle_setup with a Transport header: ALAC at 44100 whatever was announced
SetupV1(control, timing) ==
    /\ Sends({1}, {"announced"}, "ready")
    /\ ntpRuns' = (ntpRuns \/ timing)
    /\ conn' = [conn EXCEPT !.v = 1, !.type = Realtime, !.control = control, !.active = TRUE, !.ports = @ \cup {"data", "control", "timing"}]
    /\ rcv' = SetType(SetFormat(rcv, "ALAC"), Realtime)
    /\ UNCHANGED <<dacp, shown>>
SetupV1Fails == /\ Sends({1}, {"announced"}, "done") /\ ntpRuns' = FALSE
                /\ \E c \in BOOLEAN : conn' = [conn EXCEPT !.v = 1, !.type = Realtime, !.control = c]
                /\ UNCHANGED <<rcv, dacp, shown>>
\* handle_post: pairing
Pair == /\ Sends({2}, {"new"}, "known") /\ conn' = [conn EXCEPT !.v = 2, !.hap = TRUE]
        /\ UNCHANGED <<rcv, ntpRuns, dacp, shown>>
\* handle_setup without streams: the derived key until the stream brings its own
SetupSession(ok) ==
    /\ Sends({2}, {"known"}, IF ok THEN "ready" ELSE "done")
    /\ rcv' = IF conn.hap THEN SetKey(rcv, "hap") ELSE rcv
    /\ conn' = IF ok THEN [conn EXCEPT !.ports = @ \cup {"event"}] ELSE conn
    /\ UNCHANGED <<ntpRuns, dacp, shown>>
\* handle_setup with streams
SetupStreams(t, ok, control) ==
    /\ Sends({2}, {"ready", "torn"}, IF ok THEN "on" ELSE "done")
    /\ LET r == SetKey(SetFormat(SetType(rcv, t), client.fmt), client.key)
           b == IF t = Buffered THEN StartBuffered(r, ok) ELSE r
           c == [conn EXCEPT !.v = 2, !.type = t, !.control = @ \/ control,
                             !.ports = @ \cup (IF t = Realtime THEN {"data", "control", "timing"}
                                                ELSE IF ok THEN {"buffered", "control", "timing"} ELSE {})]
           s == StartStream(b, t, ok)
       IN IF ok THEN /\ rcv' = [Control(s, c) EXCEPT !.latency = t = Realtime, !.playing = TRUE]
                     /\ conn' = [c EXCEPT !.paused = FALSE, !.active = TRUE] /\ shown' = "playing"
          ELSE /\ rcv' = s /\ conn' = c /\ UNCHANGED shown
    /\ UNCHANGED <<ntpRuns, dacp>>
\* handle_record
\* Mutant: the state is told before the stream has started.
RecordTold(ok) ==
    /\ \/ Sends({1}, {"ready", "paused"}, IF ok \/ conn.paused THEN "on" ELSE "done") \/ (ok /\ Sends({2}, {"ready"}, "ready"))
    /\ rcv' = IF conn.paused THEN [rcv EXCEPT !.playing = TRUE]
              ELSE [Control(StartStream(rcv, conn.type, ok), conn) EXCEPT !.playing = TRUE]
    /\ conn' = [conn EXCEPT !.paused = FALSE] /\ shown' = "playing"
    /\ UNCHANGED <<ntpRuns, dacp>>
Record(ok) ==
    /\ \/ Sends({1}, {"ready", "paused"}, IF ok \/ conn.paused THEN "on" ELSE "done") \/ (ok /\ Sends({2}, {"ready"}, "ready"))
    /\ LET r == StartStream(rcv, conn.type, ok)
       IN IF conn.paused \/ ok
          THEN /\ rcv' = IF conn.paused THEN [rcv EXCEPT !.playing = TRUE] ELSE [Control(r, conn) EXCEPT !.playing = TRUE]
               /\ conn' = [conn EXCEPT !.paused = FALSE] /\ shown' = "playing"
          ELSE rcv' = r /\ UNCHANGED <<conn, shown>>
    /\ UNCHANGED <<ntpRuns, dacp>>
\* handle_pause
Pause == /\ Sends({1}, {"on"}, "paused") /\ rcv' = [rcv EXCEPT !.playing = FALSE] /\ conn' = [conn EXCEPT !.paused = TRUE]
         /\ UNCHANGED <<ntpRuns, dacp, shown>>
\* handle_flush; handle_flushbuffered with or without its four fields
Flush == /\ Talks({1, 2}) /\ rcv' = SeekFlush(rcv) /\ UNCHANGED <<conn, ntpRuns, dacp, shown>>
FlushLater == /\ Talks({2}) /\ client.phase = "on" /\ rcv' = [rcv EXCEPT !.flushAt = TRUE] /\ UNCHANGED <<conn, ntpRuns, dacp, shown>>
\* handle_setrateanchortime
SetRate(playing, anchor) ==
    /\ Talks({2}) /\ client.phase = "on"
    /\ rcv' = [rcv EXCEPT !.anchor = @ \/ anchor, !.playing = playing]
    /\ conn' = [conn EXCEPT !.paused = ~playing]
    /\ shown' = IF playing THEN "playing" ELSE "paused"
    /\ UNCHANGED <<ntpRuns, dacp>>
\* handle_teardown, of the streams and of the session
TeardownStreams ==
    /\ Sends({2}, {"on"}, "torn")
    /\ rcv' = [StopReceiver(rcv) EXCEPT !.playing = FALSE] /\ shown' = "paused"
    /\ conn' = [conn EXCEPT !.active = FALSE, !.paused = TRUE]
    /\ UNCHANGED <<ntpRuns, dacp>>
Teardown == /\ Sends({1, 2}, {"ready", "on", "paused", "torn"}, "done")
            /\ rcv' = StopReceiver(rcv) /\ ntpRuns' = FALSE
            /\ conn' = [conn EXCEPT !.active = FALSE, !.paused = FALSE, !.ports = @ \ {"timing"}]
            /\ dacp' = (dacp /\ conn.v = 1) /\ UNCHANGED shown
\* client_task after the last request: the receiver, the clocks, the
\* connection and, once the grace period is over, the DACP session
Gone == /\ client.phase # "gone"
        /\ rcv' = StopReceiver(rcv) /\ ntpRuns' = FALSE /\ conn' = NoConn /\ dacp' = FALSE /\ shown' = "none"
        /\ client' = [client EXCEPT !.phase = "gone", !.sent = 0]

SessionNext ==
        \/ \E f \in {"ALAC", "AAC"}, k \in {"none", "own"} : Connect(1, f, k)
        \/ \E f \in {"ALAC", "AAC"} : Connect(2, f, "own")
        \/ Options \/ Announce \/ SetupV1Fails \/ Pair \/ Pause \/ Flush \/ FlushLater
        \/ TeardownStreams \/ Teardown \/ Gone
        \/ \E a \in BOOLEAN, b \in BOOLEAN : SetupV1(a, b) \/ SetRate(a, b)
        \/ \E ok \in BOOLEAN : SetupSession(ok) \/ Record(ok)
        \/ \E t \in {Realtime, Buffered}, ok \in BOOLEAN, c \in BOOLEAN : SetupStreams(t, ok, c)
SessionSpec == SessionInit /\ [][SessionNext]_sessionVars

-----------------------------------------------------------------------------
(* Properties.                                                               *)

\* While a stream is set up and shown as playing, it runs, is decoded with the
\* format its set-up named and deciphered with the key of this connection.
ShownIsHeard ==
    conn.active /\ shown = "playing" =>
        /\ Started(rcv) /\ rcv.cur = StreamOf(conn.type)
        /\ rcv.decoder = rcv.fmt[rcv.cur] /\ rcv.decoder # "none"
        /\ rcv.key[rcv.cur] = client.key
\* handle_setup: "the AirPlay 1 path keeps its existing behavior (0)".
AirPlay1Undelayed == Started(rcv) /\ conn.active /\ conn.v = 1 => ~rcv.latency
=============================================================================
