------------------------------ MODULE SdPlayer ------------------------------
(* SD card player (components/sd_player/sd_player.c): a reader task fills a    *)
(* ring buffer from a file, a play task decodes it and walks the songs of the  *)
(* directory; the web server plays, stops and skips, and the RTSP connection   *)
(* makes the player yield.  An action is a run of code between blocking calls. *)
EXTENDS Naturals, Sequences

CONSTANTS
    Songs,       \* audio files in the directory
    FileChunks,  \* chunks in a file
    RingChunks,  \* chunks the ring holds
    MaxPlays,    \* bound: play requests
    MaxSkips     \* bound: skips accepted

Callers == {"web", "rtsp"}
None == Songs

VARIABLES
    sd,     \* the module's globals
    ring,   \* number of chunks buffered
    rdr,    \* the reader task: pc and chunks left in its file
    play,   \* the play task: pc, cur, and the flags saved at the end of a song
    ctl,    \* where each caller is
    log     \* history: plays, skips, the song that ended, the song a skip chose

vars == <<sd, ring, rdr, play, ctl, log>>

NoReader == [pc |-> "none", left |-> 0]
NoPlay == [pc |-> "none", cur |-> 0, aborted |-> FALSE, failed |-> FALSE]

Init ==
    /\ sd = [state |-> "IDLE", stop |-> FALSE, skip |-> 0, abort |-> FALSE, failed |-> FALSE,
             running |-> FALSE, task |-> FALSE, list |-> 0]
    /\ ring = 0 /\ rdr = NoReader /\ play = NoPlay
    /\ ctl = [c \in Callers |-> "idle"]
    /\ log = [plays |-> 0, skips |-> 0, ended |-> None, to |-> None]

\* set_error
Failed(s) == [s EXCEPT !.state = "ERROR"]
\* apply_skip: forward (1) wraps, backward (2) stops at the first song
SkipTarget(s, cur) ==
    IF s.skip = 0 \/ s.list <= 1 THEN cur
    ELSE IF s.skip = 1 THEN (cur + 1) % s.list
    ELSE IF cur > 0 THEN cur - 1 ELSE 0
SkipTaken(s) == [s EXCEPT !.skip = 0]
\* track_begin clears the per-song flags, then reads the tags from the card
TrackBegin(s) == [s EXCEPT !.failed = FALSE, !.abort = FALSE]
\* start_reader; the create may fail
StartReader(s, ok) ==
    LET t == [s EXCEPT !.abort = FALSE, !.failed = FALSE, !.running = ok, !.task = ok \/ @]
    IN IF ok THEN t ELSE Failed(t)

-----------------------------------------------------------------------------
(* reader_task.                                                              *)

ReaderExit(failed) ==
    /\ rdr' = NoReader
    /\ sd' = [sd EXCEPT !.running = FALSE, !.task = FALSE, !.failed = @ \/ failed]

\* fopen or the buffer fails, or the file is open
ReaderOpen(ok) ==
    /\ rdr.pc = "open"
    /\ IF ok THEN rdr' = [rdr EXCEPT !.pc = "read"] /\ sd' = sd ELSE ReaderExit(TRUE)
    /\ UNCHANGED <<ring, play, ctl, log>>

\* Mutants: the stop and abort flags are not looked at; nor the room in the ring.
ReaderReadDeaf ==
    /\ rdr.pc = "read"
    /\ \/ /\ ring < RingChunks /\ rdr.left > 0
          /\ ring' = ring + 1 /\ rdr' = [rdr EXCEPT !.left = @ - 1] /\ sd' = sd
       \/ rdr.left = 0 /\ ReaderExit(FALSE) /\ ring' = ring
    /\ UNCHANGED <<play, ctl, log>>
ReaderReadUnpaced ==
    /\ rdr.pc = "read"
    /\ \/ /\ rdr.left > 0
          /\ ring' = ring + 1 /\ rdr' = [rdr EXCEPT !.left = @ - 1] /\ sd' = sd
       \/ rdr.left = 0 /\ ReaderExit(FALSE) /\ ring' = ring
    /\ UNCHANGED <<play, ctl, log>>

\* one round of the read loop: it waits while the ring is full
ReaderRead ==
    /\ rdr.pc = "read"
    /\ \/ (sd.stop \/ sd.abort) /\ ReaderExit(FALSE) /\ ring' = ring
       \/ /\ ~sd.stop /\ ~sd.abort /\ ring < RingChunks /\ rdr.left > 0
          /\ ring' = ring + 1 /\ rdr' = [rdr EXCEPT !.left = @ - 1] /\ sd' = sd
       \/ /\ ~sd.stop /\ ~sd.abort /\ rdr.left = 0
          /\ ReaderExit(FALSE) /\ ring' = ring
    /\ UNCHANGED <<play, ctl, log>>

\* fread fails: an error unless the reader was told to go
ReaderError ==
    /\ rdr.pc = "read" /\ rdr.left > 0
    /\ ReaderExit(~sd.stop /\ ~sd.abort)
    /\ UNCHANGED <<ring, play, ctl, log>>

-----------------------------------------------------------------------------
(* play_task.                                                                *)

PlayAlloc(ok) ==
    /\ play.pc = "alloc"
    /\ play' = [play EXCEPT !.pc = IF ok THEN "top" ELSE "clean"]
    /\ sd' = IF ok THEN sd ELSE Failed(sd)
    /\ UNCHANGED <<ring, rdr, ctl, log>>

PlayTop ==
    /\ play.pc = "top"
    /\ LET cur == SkipTarget(sd, play.cur)
           goes == cur < sd.list
       IN /\ sd' = IF goes THEN TrackBegin(SkipTaken(sd)) ELSE SkipTaken(sd)
          /\ play' = [play EXCEPT !.cur = cur, !.pc = IF goes THEN "tags" ELSE "clean"]
          /\ log' = [log EXCEPT !.ended = None, !.to = IF sd.skip # 0 THEN cur ELSE @]
    /\ UNCHANGED <<ring, rdr, ctl>>

\* the tags are read (the card is slow); the ring is emptied, the reader started
\* and the decoder opened
PlayStart(ok, dec) ==
    /\ play.pc = "tags"
    /\ ring' = 0
    /\ LET s == StartReader(sd, ok) IN sd' = IF ok /\ ~dec THEN [Failed(s) EXCEPT !.failed = TRUE] ELSE s
    /\ rdr' = IF ok THEN [pc |-> "open", left |-> FileChunks] ELSE rdr
    /\ play' = IF ok /\ dec THEN [play EXCEPT !.pc = "loop"]
               ELSE IF ok THEN [play EXCEPT !.pc = "next", !.aborted = FALSE, !.failed = TRUE]
               ELSE [play EXCEPT !.pc = "clean"]
    /\ log' = [log EXCEPT !.to = None]
    /\ UNCHANGED ctl

\* Mutant: the abort flag is read after the wait, which has set it.
LeaveAfterWait(s, cur) == [play EXCEPT !.pc = "next", !.cur = cur, !.aborted = TRUE, !.failed = s.failed]
\* next_track saves s_reader_abort and s_reader_failed before it waits
Leave(s, cur) == [play EXCEPT !.pc = "next", !.cur = cur, !.aborted = s.abort, !.failed = s.failed]

PlayLeave ==
    /\ play.pc = "loop"
    /\ \/ sd.stop /\ play' = Leave(sd, play.cur) /\ UNCHANGED <<sd, ring, log>>
       \/ /\ ~sd.stop /\ sd.skip # 0
          /\ sd' = SkipTaken(sd) /\ ring' = 0
          /\ play' = Leave(sd, SkipTarget(sd, play.cur))
          /\ log' = [log EXCEPT !.to = SkipTarget(sd, play.cur)]
       \/ /\ ~sd.stop /\ sd.skip = 0 /\ ring = 0 /\ ~sd.running
          /\ play' = Leave(sd, play.cur)
          /\ log' = [log EXCEPT !.ended = IF sd.abort \/ sd.failed THEN None ELSE play.cur]
          /\ UNCHANGED <<sd, ring>>
    /\ UNCHANGED <<rdr, ctl>>

\* ring_read, decode and output_write; growing the PCM buffer may fail
PlayDecode(nomem) ==
    /\ play.pc = "loop" /\ ~sd.stop /\ sd.skip = 0 /\ ring > 0
    /\ ring' = ring - 1
    /\ sd' = IF nomem THEN Failed(sd) ELSE sd
    /\ play' = IF nomem THEN [play EXCEPT !.pc = "clean"] ELSE play
    /\ UNCHANGED <<rdr, ctl, log>>

\* stop_reader_and_wait: the abort flag, then up to three seconds
PlayReap(timeout) ==
    /\ play.pc \in {"next", "clean"} /\ sd.task
    /\ sd' = [sd EXCEPT !.abort = TRUE, !.stop = @ \/ timeout \/ play.pc = "clean"]
    /\ play' = [play EXCEPT !.pc = IF ~timeout THEN @ ELSE IF @ = "next" THEN "clean" ELSE "exit"]
    /\ UNCHANGED <<ring, rdr, ctl, log>>

NextSong ==
    /\ LET s == [sd EXCEPT !.abort = TRUE]
       IN \/ /\ s.stop \/ (play.failed /\ ~play.aborted)
             /\ sd' = IF s.stop THEN s ELSE Failed(s)
             /\ play' = [play EXCEPT !.pc = "clean"]
          \/ /\ ~s.stop /\ play.aborted
             /\ sd' = s /\ play' = [play EXCEPT !.pc = "top"]
          \/ /\ ~s.stop /\ ~play.aborted /\ ~play.failed
             /\ IF play.cur + 1 < s.list
                THEN sd' = s /\ play' = [play EXCEPT !.pc = "top", !.cur = @ + 1]
                ELSE sd' = [s EXCEPT !.state = "IDLE"] /\ play' = [play EXCEPT !.pc = "clean"]
    /\ UNCHANGED <<ring, rdr, ctl, log>>

\* Mutant: the next song is begun with the reader still alive.
PlayNextUnwaited == play.pc = "next" /\ NextSong
PlayNext == play.pc = "next" /\ ~sd.task /\ NextSong

\* Mutant: the task goes without waiting for its reader.
PlayCleanAtOnce ==
    /\ play.pc \in {"exit", "clean"}
    /\ play' = NoPlay
    /\ UNCHANGED <<sd, ring, rdr, ctl, log>>

\* the task goes once its reader is gone, or after the wait
PlayClean ==
    /\ play.pc = "exit" \/ (play.pc = "clean" /\ ~sd.task)
    /\ play' = NoPlay
    /\ UNCHANGED <<sd, ring, rdr, ctl, log>>

-----------------------------------------------------------------------------
(* The control functions.                                                    *)

Gone == play.pc = "none" /\ ~sd.task

\* player_stop_internal up to its wait
StopBegin(c, then) ==
    /\ ctl[c] = "idle"
    /\ IF Gone THEN /\ sd' = [sd EXCEPT !.state = "IDLE"]
                    /\ ctl' = [ctl EXCEPT ![c] = IF then = "play" THEN "open" ELSE "idle"]
               ELSE /\ sd' = [sd EXCEPT !.stop = TRUE, !.abort = TRUE]
                    /\ ctl' = [ctl EXCEPT ![c] = then]
    /\ UNCHANGED <<ring, rdr, play, log>>

\* both tasks are gone: the globals go back to rest and the playlist is freed
StopDone(c) ==
    /\ ctl[c] \in {"stop", "play"} /\ Gone
    /\ sd' = [sd EXCEPT !.stop = FALSE, !.skip = 0, !.abort = FALSE, !.failed = FALSE,
                        !.running = FALSE, !.state = "IDLE", !.list = 0]
    /\ ring' = 0
    /\ ctl' = [ctl EXCEPT ![c] = IF @ = "play" THEN "open" ELSE "idle"]
    /\ UNCHANGED <<rdr, play, log>>

StopTimeout(c) ==
    /\ ctl[c] \in {"stop", "play"} /\ ~Gone
    /\ sd' = IF ctl[c] = "play" THEN Failed(sd) ELSE sd
    /\ ctl' = [ctl EXCEPT ![c] = "idle"]
    /\ UNCHANGED <<ring, rdr, play, log>>

WebStop == StopBegin("web", "stop")
RtspYield == StopBegin("rtsp", "stop")
WebPlay ==
    /\ log.plays < MaxPlays /\ StopBegin("web", "play")

\* sd_player_play with a bad path, or no card
WebPlayBad ==
    /\ ctl["web"] = "idle"
    /\ sd' = Failed(sd)
    /\ UNCHANGED <<ring, rdr, play, ctl, log>>

\* stat and playlist_build read the card: nothing there, or the list of songs;
\* a file path selects where to start
PlayOpen(n) ==
    /\ ctl["web"] = "open"
    /\ sd' = IF n = 0 THEN Failed([sd EXCEPT !.list = 0])
             ELSE TrackBegin([sd EXCEPT !.list = n, !.state = "PLAYING", !.stop = FALSE, !.skip = 0])
    /\ ring' = IF n = 0 THEN ring ELSE 0
    /\ ctl' = [ctl EXCEPT !["web"] = IF n = 0 THEN "idle" ELSE "take"]
    /\ UNCHANGED <<rdr, play, log>>

\* output_stop has taken the I2S; the play task is created
PlayGo(ok, cur) ==
    /\ ctl["web"] = "take"
    /\ sd' = IF ok THEN sd ELSE Failed([sd EXCEPT !.stop = TRUE])
    /\ play' = IF ok THEN [NoPlay EXCEPT !.pc = "alloc", !.cur = cur] ELSE play
    /\ ctl' = [ctl EXCEPT !["web"] = "idle"]
    /\ log' = [log EXCEPT !.plays = @ + 1, !.ended = None, !.to = None]
    /\ UNCHANGED <<ring, rdr>>

\* sd_player_skip
Skip(d) ==
    /\ ctl["web"] = "idle" /\ log.skips < MaxSkips
    /\ sd.state = "PLAYING" /\ sd.list > 1 /\ play.pc # "none"
    /\ sd' = [sd EXCEPT !.skip = d, !.abort = TRUE]
    /\ log' = [log EXCEPT !.skips = @ + 1]
    /\ UNCHANGED <<ring, rdr, play, ctl>>

Reader == (\E ok \in BOOLEAN : ReaderOpen(ok)) \/ ReaderRead
Play == \/ \E ok \in BOOLEAN : PlayAlloc(ok)
        \/ PlayTop
        \/ \E ok, dec \in BOOLEAN : PlayStart(ok, dec)
        \/ PlayLeave
        \/ \E nomem \in BOOLEAN : PlayDecode(nomem)
        \/ \E timeout \in BOOLEAN : PlayReap(timeout)
        \/ PlayNext \/ PlayClean
Control == \/ \E c \in Callers : StopDone(c) \/ StopTimeout(c)
           \/ WebStop \/ RtspYield \/ WebPlay \/ WebPlayBad
           \/ \E n \in {0, Songs} : PlayOpen(n)
           \/ \E ok \in BOOLEAN, cur \in 0..Songs - 1 : PlayGo(ok, cur)
           \/ \E d \in {1, 2} : Skip(d)
Next == Reader \/ ReaderError \/ Play \/ Control

\* The two tasks are scheduled.
Fairness == WF_vars(Reader) /\ WF_vars(Play)
Spec == Init /\ [][Next]_vars /\ Fairness

-----------------------------------------------------------------------------
(* Properties.                                                               *)

TypeOK ==
    /\ sd.state \in {"IDLE", "PLAYING", "ERROR"}
    /\ sd.list \in {0, Songs} /\ sd.skip \in 0..2
    /\ ring \in 0..RingChunks /\ play.cur \in 0..Songs
    /\ ctl \in [Callers -> {"idle", "stop", "play", "open", "take"}]

\* A reader or play task is never created while the previous one is alive.
OneTaskEach ==
    [][/\ (rdr'.pc = "open" /\ rdr.pc # "open") => rdr.pc = "none"
       /\ (play'.pc = "alloc" /\ play.pc # "alloc") => play.pc = "none"]_vars

\* A song that played to its end is not started again: the flag the wait for
\* the reader sets is not taken for a skip.
EndMovesOn ==
    [][(play.pc = "top" /\ play'.pc = "tags" /\ log.ended # None)
         => play'.cur # log.ended \/ sd.skip # 0]_vars

\* Once a stop is requested the play task and its reader both go, also when the
\* play task leaves by an error with the reader waiting for room.
StopSettles == sd.stop ~> (play.pc = "none" /\ rdr.pc = "none")
\* A player that has failed on memory leaves no reader behind.
NoOrphanReader == (play.pc = "clean") ~> (rdr.pc = "none")

\* The comment in play_task: after a skip the song it chose is played, the step
\* to the following song is not added to it.
SkipLands == play.pc = "tags" => log.to \in {play.cur, None}
=============================================================================
