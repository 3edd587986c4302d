------------------------------ MODULE WebRadio ------------------------------
(* Web radio (components/web_radio/web_radio.c): a download task fills a ring  *)
(* buffer, a play task decodes it and walks the playlist, and two tasks call   *)
(* the control functions: the web server (play, stop, skip) and the RTSP       *)
(* connection (yield to AirPlay).  An action is a run of code between two      *)
(* calls that block; the ring holds the generation that brought each chunk.    *)
EXTENDS Naturals, Sequences

CONSTANTS
    Songs,          \* entries of the playlist
    StreamChunks,   \* chunks in one download
    RingChunks,     \* chunks the ring holds (RING_SIZE_BYTES - 1)
    MaxGen,         \* bound: download tasks ever started
    MaxSkips        \* bound: skips ever accepted

Callers == {"web", "rtsp"}

VARIABLES
    rd,     \* the module's globals
    ring,   \* the bytes between tail and head
    http,   \* the download task: pc, generation, chunks left, socket shut down
    play,   \* the play task: pc, cur, first_iter
    ctl,    \* where each caller is inside radio_stop_internal or play_url
    log     \* history: skips so far, the song a skip chose, a failed download

vars == <<rd, ring, http, play, ctl, log>>

NoHttp == [pc |-> "none", gen |-> 0, left |-> 0, shut |-> FALSE]
NoPlay == [pc |-> "none", cur |-> 0, first |-> FALSE]

Init ==
    /\ rd = [state |-> "IDLE", stop |-> FALSE, skip |-> 0, failed |-> FALSE,
             abort |-> FALSE, running |-> FALSE, task |-> 0, client |-> 0,
             gen |-> 0, next |-> 0, list |-> 0, single |-> FALSE]
    /\ ring = <<>> /\ http = NoHttp /\ play = NoPlay
    /\ ctl = [c \in Callers |-> "idle"]
    /\ log = [skips |-> 0, to |-> Songs, broke |-> FALSE]

\* web_radio_is_active
Active(r) == r.state \in {"CONNECTING", "PLAYING"}
\* pl_total: entries of the playlist, or the single url
Total(r) == IF r.list > 0 THEN r.list ELSE IF r.single THEN 1 ELSE 0
\* set_error
Failed(r) == [r EXCEPT !.state = "ERROR"]
\* track_begin: the per-track flags of a fresh track
TrackBegin(r) == [r EXCEPT !.failed = FALSE, !.abort = FALSE]
\* apply_skip: forward wraps, backward stops at the first entry
SkipTarget(r, cur) ==
    IF r.skip = 0 \/ Total(r) <= 1 THEN cur
    ELSE IF r.skip = 1 THEN (cur + 1) % Total(r)
    ELSE IF cur > 0 THEN cur - 1 ELSE 0
\* apply_skip clears the request whatever it answers
SkipTaken(r) == [r EXCEPT !.skip = 0]

\* Mutant: the socket is shut but the flag is not set.
AbortedSocketOnly(r) == r
\* abort_current_http: the flag, and shutdown() of the socket when there is one
Aborted(r) == [r EXCEPT !.abort = TRUE]
Shut(r, h) == [h EXCEPT !.shut = @ \/ r.client # 0]

\* start_http_task: a new generation; the create may fail
StartHttp(r, ok) ==
    IF ok THEN [r EXCEPT !.next = @ + 1, !.abort = FALSE, !.running = TRUE, !.task = r.next + 1]
    ELSE Failed([r EXCEPT !.next = @ + 1, !.abort = FALSE, !.running = FALSE])
HttpTask(r, ok) ==
    IF ok THEN [pc |-> "init", gen |-> r.next + 1, left |-> StreamChunks, shut |-> FALSE] ELSE http

-----------------------------------------------------------------------------
(* http_task.                                                                *)

\* the exit of http_task: only the generation in force clears the globals
HttpExit(r) ==
    IF r.gen = http.gen THEN [r EXCEPT !.client = 0, !.running = FALSE, !.task = 0] ELSE r

HttpInit(ok) ==
    /\ http.pc = "init"
    /\ IF ok THEN /\ rd' = [rd EXCEPT !.client = http.gen, !.gen = http.gen]
                  /\ http' = [http EXCEPT !.pc = "perform"]
             ELSE /\ rd' = HttpExit(Failed(rd))
                  /\ http' = NoHttp
    /\ UNCHANGED <<ring, play, ctl, log>>

\* http_event_handler, ON_DATA: the chunk is written, or dropped once aborted
\* Mutant: the chunk is written whether or not the ring has room.
HttpDataUnpaced ==
    /\ http.pc = "perform" /\ http.left > 0
    /\ ring' = Append(ring, http.gen)
    /\ rd' = [rd EXCEPT !.state = IF @ = "CONNECTING" THEN "PLAYING" ELSE @]
    /\ http' = [http EXCEPT !.left = @ - 1]
    /\ UNCHANGED <<play, ctl, log>>

HttpData ==
    /\ http.pc = "perform" /\ http.left > 0
    /\ \/ /\ ~rd.stop /\ ~rd.abort /\ Len(ring) < RingChunks
          /\ ring' = Append(ring, http.gen)
          /\ rd' = [rd EXCEPT !.state = IF @ = "CONNECTING" THEN "PLAYING" ELSE @]
       \/ /\ rd.stop \/ rd.abort
          /\ UNCHANGED <<ring, rd>>
    /\ http' = [http EXCEPT !.left = @ - 1]
    /\ UNCHANGED <<play, ctl, log>>

\* esp_http_client_perform returns: the body is complete, the socket was shut
\* down, or the network (or the server's status) failed; then the task exits
HttpReturn(broken) ==
    /\ http.pc = "perform"
    /\ broken \/ http.left = 0 \/ http.shut
    /\ LET err == broken \/ http.shut
           bad == err /\ ~rd.abort /\ ~rd.stop
       IN /\ rd' = HttpExit(IF bad THEN Failed(rd) ELSE rd)
          /\ log' = [log EXCEPT !.broke = @ \/ bad]
    /\ http' = NoHttp
    /\ UNCHANGED <<ring, play, ctl>>

-----------------------------------------------------------------------------
(* play_task.                                                                *)

PlayAlloc(ok) ==
    /\ play.pc = "alloc"
    /\ play' = [play EXCEPT !.pc = IF ok THEN "top" ELSE "clean"]
    /\ rd' = IF ok THEN rd ELSE Failed(rd)
    /\ UNCHANGED <<ring, http, ctl, log>>

\* the head of the track loop: a skip still pending, then the track begins
PlayTop ==
    /\ play.pc = "top"
    /\ LET cur == SkipTarget(rd, play.cur)
           r == SkipTaken(rd)
           goes == cur < Total(r)
       IN /\ rd' = IF goes THEN TrackBegin(r) ELSE r
          /\ play' = [play EXCEPT !.cur = cur, !.pc = IF ~goes THEN "clean"
                                          ELSE IF r.list > 0 THEN "probe" ELSE "start"]
          /\ log' = [log EXCEPT !.to = IF rd.skip # 0 THEN cur ELSE @]
    /\ UNCHANGED <<ring, http, ctl>>

\* track_probe_tags: a request of its own, seconds long, that touches only s_ti
PlayProbe ==
    /\ play.pc = "probe"
    /\ play' = [play EXCEPT !.pc = "start"]
    /\ UNCHANGED <<rd, ring, http, ctl, log>>

\* from the second track on the download starts here; the ring is emptied and
\* the decoder opened
PlayStart(ok, dec) ==
    /\ play.pc = "start"
    /\ ok => play.first \/ rd.next < MaxGen
    /\ LET started == ok /\ play.cur < Total(rd)
           r == IF play.first THEN rd ELSE IF play.cur < Total(rd) THEN StartHttp(rd, ok) ELSE rd
       IN IF ~play.first /\ ~started
          THEN /\ rd' = r /\ play' = [play EXCEPT !.pc = "clean"]
               /\ UNCHANGED <<http, ring, log>>
          ELSE /\ http' = IF play.first THEN http ELSE HttpTask(rd, ok)
               /\ ring' = <<>>
               /\ rd' = IF dec THEN r ELSE [Failed(r) EXCEPT !.failed = TRUE]
               /\ play' = [play EXCEPT !.pc = IF dec THEN "loop" ELSE "next", !.first = FALSE]
               /\ log' = [log EXCEPT !.to = Songs]
    /\ UNCHANGED ctl

\* the decode loop: stop, skip (what is buffered is thrown away), end of stream
\* Mutant: the stop flag is not looked at.
PlayLeaveOnEmpty ==
    /\ play.pc = "loop" /\ rd.skip = 0 /\ ring = <<>> /\ ~rd.running
    /\ play' = [play EXCEPT !.pc = "next"]
    /\ UNCHANGED <<rd, ring, http, ctl, log>>

PlayLeave ==
    /\ play.pc = "loop"
    /\ \/ rd.stop /\ UNCHANGED <<rd, ring, log>> /\ play' = [play EXCEPT !.pc = "next"]
       \/ /\ ~rd.stop /\ rd.skip # 0
          /\ rd' = SkipTaken(rd) /\ ring' = <<>>
          /\ play' = [play EXCEPT !.pc = "next", !.cur = SkipTarget(rd, play.cur)]
          /\ log' = [log EXCEPT !.to = SkipTarget(rd, play.cur)]
       \/ /\ ~rd.stop /\ rd.skip = 0 /\ ring = <<>> /\ ~rd.running
          /\ play' = [play EXCEPT !.pc = "next"]
          /\ UNCHANGED <<rd, ring, log>>
    /\ UNCHANGED <<http, ctl>>

\* ring_read, the decoder and output_write; the stall check follows a block that
\* was played (an empty ring goes round without reaching it)
PlayDecode(nomem, stalled) ==
    /\ play.pc = "loop" /\ ~rd.stop /\ rd.skip = 0 /\ ring # <<>>
    /\ ring' = Tail(ring)
    /\ IF nomem THEN /\ rd' = Failed(rd) /\ play' = [play EXCEPT !.pc = "clean"] /\ http' = http
       ELSE IF stalled /\ rd.running /\ rd.client # 0
       THEN /\ rd' = [Aborted(rd) EXCEPT !.failed = TRUE] /\ http' = Shut(rd, http)
            /\ play' = play
       ELSE UNCHANGED <<rd, http, play>>
    /\ UNCHANGED <<ctl, log>>

\* next_track: abort and wait for the download to be gone, at most three seconds
PlayAwait(timeout) ==
    /\ play.pc = "next" /\ rd.task # 0
    /\ rd' = [Aborted(rd) EXCEPT !.stop = @ \/ timeout]
    /\ http' = Shut(rd, http)
    /\ play' = [play EXCEPT !.pc = IF timeout THEN "clean" ELSE @]
    /\ UNCHANGED <<ring, ctl, log>>

NextTrack ==
    /\ \/ /\ rd.stop \/ (rd.failed /\ ~rd.abort)
          /\ rd' = IF rd.stop THEN rd ELSE Failed(rd)
          /\ play' = [play EXCEPT !.pc = "clean"]
       \/ /\ ~rd.stop /\ rd.abort
          /\ rd' = rd /\ play' = [play EXCEPT !.pc = "top"]
       \/ /\ ~rd.stop /\ ~rd.abort /\ ~rd.failed
          /\ IF play.cur + 1 < Total(rd)
             THEN rd' = rd /\ play' = [play EXCEPT !.pc = "top", !.cur = @ + 1]
             ELSE rd' = [rd EXCEPT !.state = "IDLE"] /\ play' = [play EXCEPT !.pc = "clean"]
    /\ UNCHANGED <<ring, http, ctl, log>>
\* Mutant: the next track is begun with the download still alive.
PlayNextUnwaited == play.pc = "next" /\ NextTrack
PlayNext == play.pc = "next" /\ rd.task = 0 /\ NextTrack

\* cleanup: the task goes; a download that still runs is left to a stop
PlayClean ==
    /\ play.pc = "clean"
    /\ play' = NoPlay
    /\ UNCHANGED <<rd, ring, http, ctl, log>>

-----------------------------------------------------------------------------
(* The control functions.                                                    *)

Gone(r) == play.pc = "none" /\ r.task = 0
\* the end of radio_stop_internal: everything back to rest
AtRest(r) == [r EXCEPT !.stop = FALSE, !.skip = 0, !.failed = FALSE, !.abort = FALSE,
                       !.state = "IDLE", !.list = 0, !.single = FALSE]

\* radio_stop_internal up to its wait: nothing to stop, or the request
StopBegin(c, then) ==
    /\ ctl[c] = "idle"
    /\ IF Gone(rd) THEN /\ rd' = [rd EXCEPT !.state = "IDLE"]
                        /\ ctl' = [ctl EXCEPT ![c] = IF then = "play" THEN "open" ELSE "idle"]
                        /\ http' = http
                   ELSE /\ rd' = Aborted([rd EXCEPT !.stop = TRUE])
                        /\ ctl' = [ctl EXCEPT ![c] = then]
                        /\ http' = Shut(rd, http)
    /\ UNCHANGED <<ring, play, log>>

\* one round of the wait: abort again, in case the client was not there before
StopWait(c) ==
    /\ ctl[c] \in {"stop", "play"} /\ ~Gone(rd)
    /\ rd' = Aborted(rd) /\ http' = Shut(rd, http)
    /\ UNCHANGED <<ring, play, ctl, log>>

StopDone(c) ==
    /\ ctl[c] \in {"stop", "play"} /\ Gone(rd)
    /\ rd' = AtRest(rd) /\ ring' = <<>>
    /\ ctl' = [ctl EXCEPT ![c] = IF @ = "play" THEN "open" ELSE "idle"]
    /\ UNCHANGED <<http, play, log>>

\* five seconds: the stop flag is kept, and play_url gives up
StopTimeout(c) ==
    /\ ctl[c] \in {"stop", "play"} /\ ~Gone(rd)
    /\ rd' = IF ctl[c] = "play" THEN Failed(rd) ELSE rd
    /\ ctl' = [ctl EXCEPT ![c] = "idle"]
    /\ UNCHANGED <<ring, http, play, log>>

WebStop == StopBegin("web", "stop")
RtspYield == StopBegin("rtsp", "stop")
WebPlay == rd.next < MaxGen /\ StopBegin("web", "play")

\* play_url refuses an address that is not http, or longer than its buffer
WebPlayBad ==
    /\ ctl["web"] = "idle"
    /\ rd' = Failed(rd)
    /\ UNCHANGED <<ring, http, play, ctl, log>>

\* play_url after the stop: a playlist is fetched first, for up to eight seconds
PlayOpen(list) ==
    /\ ctl["web"] = "open"
    /\ IF list THEN /\ rd' = [rd EXCEPT !.state = "CONNECTING"]
                    /\ ctl' = [ctl EXCEPT !["web"] = "load"]
               ELSE /\ rd' = [rd EXCEPT !.list = 0, !.single = TRUE]
                    /\ ctl' = [ctl EXCEPT !["web"] = "ready"]
    /\ UNCHANGED <<ring, http, play, log>>

PlayLoad(n) ==
    /\ ctl["web"] = "load"
    /\ rd' = IF n = 0 THEN Failed([rd EXCEPT !.list = 0]) ELSE [rd EXCEPT !.list = n]
    /\ ctl' = [ctl EXCEPT !["web"] = IF n = 0 THEN "idle" ELSE "ready"]
    /\ UNCHANGED <<ring, http, play, log>>

\* the flags of a new session, then output_stop takes the I2S, for up to two seconds
PlayReady ==
    /\ ctl["web"] = "ready"
    /\ rd' = TrackBegin([rd EXCEPT !.state = "CONNECTING", !.stop = FALSE, !.skip = 0])
    /\ ring' = <<>>
    /\ ctl' = [ctl EXCEPT !["web"] = "take"]
    /\ UNCHANGED <<http, play, log>>

\* both tasks are created; either create may fail
PlayGo(ok, task) ==
    /\ ctl["web"] = "take"
    /\ LET r == StartHttp(rd, ok)
       IN rd' = IF ok /\ ~task THEN Failed([r EXCEPT !.stop = TRUE]) ELSE r
    /\ http' = HttpTask(rd, ok)
    /\ play' = IF ok /\ task THEN [pc |-> "alloc", cur |-> 0, first |-> TRUE] ELSE play
    /\ ctl' = [ctl EXCEPT !["web"] = "idle"]
    /\ log' = [log EXCEPT !.to = Songs, !.broke = FALSE]
    /\ UNCHANGED ring

\* web_radio_skip: only in a playlist and while a download is running (2 is -1)
Skip(d) ==
    /\ ctl["web"] = "idle" /\ log.skips < MaxSkips
    /\ Active(rd) /\ rd.list > 0 /\ rd.task # 0
    /\ rd' = Aborted([rd EXCEPT !.skip = d])
    /\ http' = Shut(rd, http)
    /\ log' = [log EXCEPT !.skips = @ + 1]
    /\ UNCHANGED <<ring, play, ctl>>

Http == \/ \E ok \in BOOLEAN : HttpInit(ok)
        \/ HttpData
        \/ \E broken \in BOOLEAN : HttpReturn(broken)
Play == \/ \E ok \in BOOLEAN : PlayAlloc(ok)
        \/ PlayTop \/ PlayProbe
        \/ \E ok, dec \in BOOLEAN : PlayStart(ok, dec)
        \/ PlayLeave
        \/ \E nomem, stalled \in BOOLEAN : PlayDecode(nomem, stalled)
        \/ \E timeout \in BOOLEAN : PlayAwait(timeout)
        \/ PlayNext \/ PlayClean
Control == \/ \E c \in Callers : StopWait(c) \/ StopDone(c) \/ StopTimeout(c)
           \/ WebStop \/ RtspYield \/ WebPlay \/ WebPlayBad
           \/ \E list \in BOOLEAN : PlayOpen(list)
           \/ \E n \in {0, Songs} : PlayLoad(n)
           \/ PlayReady
           \/ \E ok, task \in BOOLEAN : PlayGo(ok, task)
           \/ \E d \in {1, 2} : Skip(d)

Next == Http \/ Play \/ Control

\* The tasks are scheduled, and a perform() whose socket was shut down returns.
Fairness == WF_vars(Play) /\ WF_vars(\E ok \in BOOLEAN : HttpInit(ok))
            /\ WF_vars(HttpData) /\ WF_vars(HttpReturn(FALSE))
            /\ \A c \in Callers : WF_vars(StopWait(c))
Spec == Init /\ [][Next]_vars /\ Fairness

-----------------------------------------------------------------------------
(* Properties.                                                               *)

TypeOK ==
    /\ rd.state \in {"IDLE", "CONNECTING", "PLAYING", "ERROR"}
    /\ rd.next <= MaxGen + 2 /\ rd.task \in {0, rd.next} /\ rd.skip \in 0..2
    /\ Len(ring) <= RingChunks
    /\ ctl \in [Callers -> {"idle", "stop", "play", "open", "load", "ready", "take"}]

\* A download or play task is never created while the previous one is alive,
\* whatever stops, timeouts and skips come in between: two downloads would mix
\* two songs in one ring.
OneTaskEach ==
    [][/\ (http'.gen # http.gen /\ http'.pc = "init") => http.pc = "none"
       /\ (play'.pc = "alloc" /\ play.pc # "alloc") => play.pc = "none"]_vars

\* A skip taken from the decode loop is not followed by the step to the next
\* song that the end of its aborted download would cause.
SkipLands == play.pc \in {"probe", "start"} => log.to \in {play.cur, Songs}

\* Once a stop is requested both tasks go, also when the caller timed out.
StopSettles == rd.stop ~> (http.pc = "none" /\ play.pc = "none")

\* The comment in play_task: when a download fails, playback stops with the
\* error and does not go on to the next song.
FailureStops ==
    [][(play.pc = "top" /\ play'.pc \in {"probe", "start"}) => ~log.broke \/ play.first]_vars
=============================================================================
