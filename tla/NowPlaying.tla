----------------------------- MODULE NowPlaying -----------------------------
(* What is playing, from the phone to the panel: SET_PARAMETER's metadata    *)
(* and progress (main/rtsp/rtsp_handlers.c), the events of rtsp_events.c,    *)
(* and the display (components/display/display.c), which keeps one copy,     *)
(* extrapolates the position and draws on a panel whose bus may drop a       *)
(* transfer.  Time is in half seconds, an RTP timestamp too.                 *)
EXTENDS Integers, Sequences

CONSTANTS Titles,      \* titles of tracks
          TrackLength, \* every track's length, in half seconds
          RtpMod,      \* 2^32 of an RTP timestamp; a uint64_t holds its square
          TrackStarts, \* RTP timestamps at which tracks start
          MaxNow, MaxEvents, MaxErrors   \* bounds: time, events, transfers dropped

\* A track is longer than a second and shorter than a turn of the timestamps (27 hours).
ASSUME DisplayAssumption ==
    /\ RtpMod \in Nat /\ RtpMod % 2 = 0
    /\ TrackStarts \subseteq 0..RtpMod - 1
    /\ TrackLength \in 2..RtpMod - 1

VARIABLES phone,    \* [title, at, start, playing]: the track, its position and RTP start
          np,       \* s_display: [title, artist, pos, dur, state, sync, dirty]; sync 0 is none
          now,      \* esp_timer_get_time
          frame,    \* display_task: the snapshot it draws, or <<>>
          panel,    \* what the panel shows: [title, artist, state]
          dropped,  \* the last frame lost a transfer: the shadow is invalid
          tracked, pauses,  \* the position shown came from the phone; pauses since
          events, errors    \* bounds
displayVars == <<phone, np, now, frame, panel, dropped, tracked, pauses, events, errors>>

BlankDisplay == [title |-> "", artist |-> "", pos |-> 0, dur |-> 0, state |-> "standby", sync |-> 0, dirty |-> TRUE]
Text(d) == [title |-> d.title, artist |-> d.artist, state |-> d.state]
DisplayInit ==
    /\ \E t \in Titles, s \in TrackStarts : phone = [title |-> t, at |-> 0, start |-> s, playing |-> FALSE]
    /\ np = BlankDisplay /\ now = 1 /\ frame = <<>> /\ panel = [title |-> "", artist |-> "", state |-> "blank"]
    /\ dropped = FALSE /\ tracked = FALSE /\ pauses = 0 /\ events = 0 /\ errors = 0

\* estimated_position_locked, in seconds.
Estimated ==
    IF np.state = "playing" /\ np.sync > 0
    THEN LET p == np.pos + (now - np.sync) \div 2 IN IF np.dur > 0 /\ p > np.dur THEN np.dur ELSE p
    ELSE np.pos
-----------------------------------------------------------------------------
NoData == [title |-> "", artist |-> "", pos |-> 0, dur |-> 0]
\* parse_progress: uint64_t differences of timestamps that wrap at 2^32, then a uint32_t of seconds.
Seconds(a, b) == (((a - b) % (RtpMod * RtpMod)) \div 2) % RtpMod
Progress(start, at, end) == [NoData EXCEPT !.pos = Seconds(at, start), !.dur = Seconds(end, start)]
\* parse_dmap_metadata: an item is read if its containers are eight deep at most and nothing before it in them is
\* malformed; of the items of one tag the last that is not empty counts.
MaxNesting == 8
Read(items) == {i \in 1..Len(items) : items[i].depth <= MaxNesting /\ \A j \in 1..i : ~items[j].malformed}
Dmap(items) ==
    LET of(tag) == {i \in Read(items) : items[i].tag = tag /\ items[i].text # ""}
        last(tag) == IF of(tag) = {} THEN "" ELSE items[CHOOSE i \in of(tag) : \A j \in of(tag) : j <= i].text
    IN [NoData EXCEPT !.title = last("minm"), !.artist = last("asar")]
Item(tag, text, depth) == [tag |-> tag, text |-> text, depth |-> depth, malformed |-> FALSE]
\* The bodies a sender writes of its track: DMAP one container deep or too many, with a good or a bad artist, or the
\* strings of a binary plist.
Bodies == [kind : {"dmap"}, nesting : {1, MaxNesting + 1}, bad : BOOLEAN] \cup [kind : {"plist"}, nesting : {0}, bad : {FALSE}]
Metadata(title, body) ==
    IF body.kind = "plist" THEN [NoData EXCEPT !.title = title, !.artist = title]
    ELSE LET artist == Item("asar", title, body.nesting)
         IN Dmap(<<Item("minm", title, body.nesting), [artist EXCEPT !.malformed = body.bad]>>)
-----------------------------------------------------------------------------
Event == events < MaxEvents /\ events' = events + 1 /\ UNCHANGED <<now, frame, panel, dropped, errors>>
\* on_rtsp_event of display.c, under its lock.
DisplayCleared(state) == [BlankDisplay EXCEPT !.state = state]
Merged(m) ==
    LET changed == m.title # "" /\ m.title # np.title IN
    [np EXCEPT !.title = IF m.title # "" THEN m.title ELSE @, !.artist = IF m.artist # "" THEN m.artist ELSE @,
               !.dur = IF m.dur # 0 THEN m.dur ELSE @, !.dirty = TRUE,
               !.pos = IF m.pos # 0 \/ changed THEN m.pos ELSE @,
               !.sync = IF m.pos # 0 \/ changed THEN now ELSE @]
OnConnected == /\ Event /\ np' = DisplayCleared("connected") /\ tracked' = FALSE /\ UNCHANGED <<phone, pauses>>
OnDisconnected == /\ Event /\ np' = DisplayCleared("standby") /\ tracked' = FALSE /\ phone' = [phone EXCEPT !.playing = FALSE]
                  /\ UNCHANGED pauses
\* PLAYING is emitted again by a resuming SETUP, by RECORD and by the local unmute.
OnPlaying == /\ Event /\ np' = [np EXCEPT !.state = "playing", !.sync = now, !.dirty = TRUE]
             /\ phone' = [phone EXCEPT !.playing = TRUE]
             /\ tracked' = (tracked /\ np.state # "playing") /\ UNCHANGED pauses
\* (a mutant: the position is not frozen at the estimate)
PausedAtLast == /\ Event /\ np' = [np EXCEPT !.sync = 0, !.state = "paused", !.dirty = TRUE]
                /\ phone' = [phone EXCEPT !.playing = FALSE] /\ pauses' = pauses + 1 /\ UNCHANGED tracked
OnPaused == /\ Event /\ np' = [np EXCEPT !.pos = Estimated, !.sync = 0, !.state = "paused", !.dirty = TRUE]
            /\ phone' = [phone EXCEPT !.playing = FALSE] /\ pauses' = pauses + 1 /\ UNCHANGED tracked
\* The phone starts a track and says so; its position, zero, counts only with a title that is new.
Track(title, start, body) ==
    LET m == Metadata(title, body) IN
    /\ Event /\ np.state \in {"playing", "paused"} /\ np' = Merged(m)
    /\ phone' = [phone EXCEPT !.title = title, !.at = 0, !.start = start]
    /\ tracked' = (m.title # "" /\ m.title # np.title) /\ pauses' = 0
\* The phone reports its progress; a position of zero is not believed.
Report == LET m == Progress(phone.start, (phone.start + phone.at) % RtpMod, (phone.start + TrackLength) % RtpMod)
              wrapped == phone.start + phone.at >= RtpMod \/ phone.start + TrackLength >= RtpMod IN
          /\ Event /\ np.state \in {"playing", "paused"} /\ np' = Merged(m) /\ UNCHANGED phone
          /\ IF m.pos = 0 THEN UNCHANGED pauses /\ tracked' = (tracked /\ ~wrapped)
                          ELSE tracked' = ~wrapped /\ pauses' = 0
\* The listener's user moves in the track; nothing is said until the next report.
Seek(p) == /\ Event /\ phone' = [phone EXCEPT !.at = p] /\ tracked' = FALSE /\ UNCHANGED <<np, pauses>>
TimePasses == /\ now < MaxNow /\ now' = now + 1
              /\ phone' = [phone EXCEPT !.at = IF phone.playing /\ @ < TrackLength THEN @ + 1 ELSE @]
              /\ UNCHANGED <<np, frame, panel, dropped, tracked, pauses, events, errors>>
-----------------------------------------------------------------------------
\* display_task draws again each second while playing, and otherwise what is dirty; display_render clears the flag in
\* the critical section of its snapshot.
Snapshot == /\ frame = <<>> /\ (np.state = "playing" \/ np.dirty)
            /\ frame' = <<Text(np)>> /\ np' = [np EXCEPT !.dirty = FALSE]
            /\ UNCHANGED <<phone, now, panel, dropped, tracked, pauses, events, errors>>
\* (a mutant: the flag is cleared after the frame, as display_task once cleared it apart from the snapshot)
SendClearing == /\ frame # <<>> /\ frame' = <<>> /\ panel' = frame[1] /\ dropped' = FALSE
                /\ np' = [np EXCEPT !.dirty = FALSE]
                /\ UNCHANGED <<phone, now, tracked, pauses, events, errors>>
\* send_dirty_rows; a dropped transfer leaves the rows it had drawn, and the shadow invalid.
Send == /\ frame # <<>> /\ frame' = <<>> /\ panel' = frame[1] /\ dropped' = FALSE
        /\ UNCHANGED <<phone, np, now, tracked, pauses, events, errors>>
SendDropped == /\ frame # <<>> /\ frame' = <<>> /\ errors < MaxErrors /\ errors' = errors + 1 /\ dropped' = TRUE
               /\ UNCHANGED <<phone, np, now, panel, tracked, pauses, events>>

DisplayNext ==
    \/ OnConnected \/ OnDisconnected \/ OnPlaying \/ OnPaused \/ Report \/ TimePasses
    \/ Snapshot \/ Send \/ SendDropped
    \/ \E t \in Titles, s \in TrackStarts, b \in Bodies : Track(t, s, b)
    \/ \E p \in {0, TrackLength - 2} : Seek(p)
DisplaySpec == DisplayInit /\ [][DisplayNext]_displayVars
-----------------------------------------------------------------------------
\* The position shown is the phone's to a second, and half a second more for every pause since the last report: as
\* long as the phone's timestamps have not wrapped and PLAYING did not come while playing (which takes the position back
\* to the last report) since it was told.  At the end of a track whose length the display was not told it counts on.
PositionClose ==
    tracked => /\ phone.at <= 2 * Estimated + 2 + pauses
               /\ phone.at < TrackLength \/ np.dur = TrackLength \div 2 => 2 * Estimated <= phone.at
\* What the panel shows is what the display was told, or a frame is under way or due that will show it, however events
\* fall between a snapshot, its drawing and the flag; unless the last frame was dropped.
Repaints == panel = Text(np) \/ np.dirty \/ frame # <<>> \/ np.state = "playing"
ScreenCatchesUp == Repaints \/ dropped
ScreenTrue == ScreenCatchesUp /\ PositionClose
\* What display.c:328-330 says of a dropped transfer: the next frame repaints in full.  False: the flag was cleared
\* with the snapshot, and a display that is not playing draws no next frame.
RepaintsDropped == Repaints
=============================================================================
