----------------------------- MODULE SeekGates -----------------------------
(***************************************************************************)
(* How main/audio/audio_receiver.c and audio_stream.c keep the audio of    *)
(* before a seek out of the ring: the RTSP task flushes, closes a blanket  *)
(* gate and, on the next anchor, arms a window [before, above] around it;  *)
(* the buffered-stream task tests every frame it takes off the TCP         *)
(* connection before and after decoding it.  The two tasks share the gates *)
(* without a lock, so each read or write of a gate is a step of its own.   *)
(*                                                                         *)
(* An RTP position is a number of threshold units (5 s of samples), modulo *)
(* PosMod.  The phone plays tracks that start at the positions Bases, each *)
(* further from the others than the window; the track a frame belongs to   *)
(* can be told from its position.                                          *)
(***************************************************************************)
EXTENDS Integers, Sequences, FiniteSets

CONSTANTS PosMod,       \* RTP positions (2^32 samples in the code)
          Threshold,    \* seek_threshold
          Window,       \* gate_window
          NearlyFull,   \* ring occupancy at which the reader waits
          Bases,        \* where the phone's tracks start
          FirstBase,    \* the track it plays first
          MaxFrames,    \* bound: frames sent of a track
          MaxBacklog,   \* bound: frames on the connection
          MaxElapsed,   \* the 600 s cap of Path B, also bounds the clock
          Off           \* a gate or snapshot that is not valid

Pos == 0..(PosMod - 1)

ASSUME PositionAssumption ==
    /\ PosMod \in Nat \ {0}
    /\ Threshold \in Nat /\ Window \in Nat /\ MaxFrames \in Nat
    /\ Threshold <= Window
    /\ MaxBacklog \in Nat /\ MaxElapsed \in Nat /\ NearlyFull \in Nat
    /\ Bases \subseteq Pos /\ FirstBase \in Bases
    /\ Off \notin Pos

(* (int32_t)(a - b) *)
Diff(a, b) == LET d == (a - b) % PosMod
              IN  IF d < PosMod \div 2 THEN d ELSE d - PosMod
Abs(d)     == IF d < 0 THEN -d ELSE d
Plus(a, n) == (a + n) % PosMod

TrackOf(p) == CHOOSE b \in Bases : Diff(p, b) \in 0..(MaxFrames + MaxElapsed)

(* Two tracks are further apart than a window, everything sent of one and   *)
(* the time the clock may run.                                              *)
ASSUME TracksApartAssumption ==
    \A a, b \in Bases : a # b => Abs(Diff(a, b)) > Window + MaxFrames + MaxElapsed

(* The phone stays within half of the range, where the signed difference    *)
(* of two positions says which is the later one.                            *)
ASSUME HalfRangeAssumption ==
    \E o \in Pos : \A b \in Bases :
        ((b - o) % PosMod) + MaxFrames + MaxElapsed < PosMod \div 2

VARIABLES
    \* the phone and the connection
    phone,      \* "play", "paused", "flushed" or "await": what it does next
    track,      \* base of the track it plays
    sent,       \* frames sent of it
    played,     \* positions it has moved on since the track's base
    used,       \* tracks played so far
    wire,       \* frames in the TCP connection
    \* the RTSP task
    rtsp,       \* where its handler is
    req,        \* rtpTime of the anchor being handled
    armed,      \* gates_armed
    \* audio_receiver_state_t
    ring,       \* positions in the buffer
    before, above,   \* discard_before_rtp, discard_above_rtp or Off
    blanket,    \* discard_all_until_anchor
    armNext,    \* arm_gate_on_next_anchor
    pausedRtp,  \* paused_rtp or Off
    anchor,     \* timing.anchor_rtp_time, or Off when not valid
    elapsed,    \* time since anchor_local_time_ns
    playing,    \* timing.playing
    \* the buffered-stream task
    reader,     \* where it is
    frame,      \* the frame in its hands
    \* history
    stale,      \* frames left behind that entered the ring
    caught      \* what was on its way to the ring when gates were armed

phoneVars  == <<phone, track, sent, played, used>>
rtspVars   == <<rtsp, req, armed>>
gateVars   == <<before, above, blanket, armNext>>
timeVars   == <<pausedRtp, anchor, elapsed, playing>>
readerVars == <<reader, frame>>
vars == <<phoneVars, wire, rtspVars, ring, gateVars, timeVars, readerVars,
          stale, caught>>

Init ==
    /\ phone = "play" /\ track = FirstBase /\ sent = 0 /\ played = 0
    /\ used = {FirstBase}
    /\ wire = <<>>
    /\ rtsp = "idle" /\ req = FirstBase /\ armed = FALSE
    /\ ring = {}
    /\ before = Off /\ above = Off /\ blanket = FALSE /\ armNext = FALSE
    /\ pausedRtp = Off /\ anchor = FirstBase /\ elapsed = 0 /\ playing = TRUE
    /\ reader = "idle" /\ frame = FirstBase
    /\ stale = 0 /\ caught = {}

Position == Plus(track, played)
Older(p) == TrackOf(p) # track

(* A frame of an older track that plays before the track: the seek went     *)
(* forwards.                                                                *)
Behind(p) == Older(p) /\ Diff(p, track) < 0

-----------------------------------------------------------------------------
(* The phone.  It sends the frames of a track in order, as fast as the      *)
(* connection takes them, and a request only when the last one is answered. *)

Send ==
    /\ sent < MaxFrames /\ Len(wire) < MaxBacklog
    /\ phone # "paused"
    /\ wire' = Append(wire, Plus(track, sent))
    /\ sent' = sent + 1
    /\ UNCHANGED <<phone, track, played, used, rtspVars, ring, gateVars,
                   timeVars, readerVars, stale, caught>>

(* The listener moves to another track. *)
NewTrack(next) ==
    \E b \in Bases \ used :
        /\ track' = b /\ used' = used \cup {b}
        /\ sent' = 0 /\ played' = 0
        /\ phone' = next

(* ... announced by FLUSHBUFFERED or FLUSH. *)
Seek ==
    /\ rtsp = "idle" /\ phone \in {"play", "paused"}
    /\ NewTrack("flushed")
    /\ rtsp' = "flushRing"
    /\ UNCHANGED <<wire, req, armed, ring, gateVars, timeVars, readerVars,
                   stale, caught>>

(* ... by a PAUSE and a new anchor only. *)
Skip ==
    /\ rtsp = "idle" /\ phone = "paused"
    /\ NewTrack("await")
    /\ UNCHANGED <<wire, rtspVars, ring, gateVars, timeVars, readerVars,
                   stale, caught>>

(* SETRATEANCHORTIME with a rate: the anchor of a new track, or of a resume. *)
SendAnchor ==
    /\ rtsp = "idle" /\ phone \in {"flushed", "await", "paused"}
    /\ phone' = "play"
    /\ req' = Position
    /\ rtsp' = "paths" /\ armed' = FALSE
    /\ UNCHANGED <<track, sent, played, used, wire, ring, gateVars, timeVars,
                   readerVars, stale, caught>>

(* Time passes; while it plays, the track moves on through what was sent. *)
Tick ==
    /\ elapsed < MaxElapsed
    /\ elapsed' = elapsed + 1
    /\ played' = IF phone = "play" THEN played + 1 ELSE played
    /\ played' <= sent
    /\ UNCHANGED <<phone, track, sent, used, wire, rtspVars, ring, gateVars,
                   pausedRtp, anchor, playing, readerVars, stale, caught>>

-----------------------------------------------------------------------------
(* The RTSP task.                                                          *)

(* SETRATEANCHORTIME with rate 0: audio_receiver_pause. *)
Pause ==
    /\ rtsp = "idle" /\ phone = "play"
    /\ phone' = "paused"
    /\ playing' = FALSE
    /\ UNCHANGED <<track, sent, played, used, wire, rtspVars, ring, gateVars,
                   pausedRtp, anchor, elapsed, readerVars, stale, caught>>

(* TEARDOWN of the streams: audio_receiver_set_playing(false) takes the     *)
(* snapshot, audio_receiver_stop ends the reader, closes the connection     *)
(* with the backlog on it and flushes.  The phone starts over from where it *)
(* was, on a new connection and with a new anchor.                          *)
TeardownStreams ==
    /\ rtsp = "idle" /\ phone = "play"
    /\ phone' = "flushed" /\ sent' = played
    /\ playing' = FALSE
    /\ pausedRtp' = IF anchor = Off THEN pausedRtp ELSE Plus(anchor, elapsed)
    /\ wire' = <<>> /\ reader' = "idle"
    /\ rtsp' = "stopRing"
    /\ UNCHANGED <<track, played, used, req, armed, ring, gateVars, anchor,
                   elapsed, frame, stale, caught>>

(* audio_receiver_flush: the ring and the timing state ... *)
FlushRing ==
    /\ rtsp \in {"flushRing", "stopRing"}
    /\ ring' = {} /\ anchor' = Off
    /\ rtsp' = IF rtsp = "flushRing" THEN "flushGates" ELSE "stopGates"
    /\ UNCHANGED <<phoneVars, wire, req, armed, gateVars, pausedRtp, elapsed,
                   playing, readerVars, stale, caught>>

(* ... then the gates and the snapshot. *)
FlushGates ==
    /\ rtsp \in {"flushGates", "stopGates"}
    /\ before' = Off /\ above' = Off /\ blanket' = FALSE /\ armNext' = FALSE
    /\ pausedRtp' = Off
    /\ rtsp' = IF rtsp = "flushGates" THEN "closeBlanket" ELSE "idle"
    /\ UNCHANGED <<phoneVars, wire, req, armed, ring, anchor, elapsed, playing,
                   readerVars, stale, caught>>

(* What audio_receiver_seek_flush adds. *)
CloseBlanket ==
    /\ rtsp = "closeBlanket"
    /\ armNext' = TRUE /\ blanket' = TRUE
    /\ rtsp' = "idle"
    /\ UNCHANGED <<phoneVars, wire, req, armed, ring, before, above, timeVars,
                   readerVars, stale, caught>>

(* The frames that have yet to pass the gates. *)
Coming == (IF reader = "testBefore" THEN <<frame>> ELSE <<>>) \o wire

(* A frame left backwards is on its way before one left forwards. *)
Crossed ==
    \E i, j \in DOMAIN Coming :
        /\ i < j
        /\ Older(Coming[i]) /\ ~Behind(Coming[i])
        /\ Behind(Coming[j])

(* Both gates around the new anchor.  A reader that is past its first test  *)
(* and still at the gates can disarm a new gate with an old frame.          *)
ArmGates ==
    /\ before' = req
    /\ above' = Plus(req, Window)
    /\ caught' = caught
                  \cup (IF reader \in {"disarmBefore", "testAbove", "disarmAbove"}
                         THEN {"atGates"} ELSE {})
                  \cup (IF reader = "queue" THEN {"accepted"} ELSE {})
                  \cup (IF Crossed THEN {"crossed"} ELSE {})

(* Where Path B expects playback to be. *)
Reference == IF pausedRtp # Off THEN pausedRtp ELSE Plus(anchor, elapsed)

(* Path A arms at once; Path B flushes first when the anchor is far from    *)
(* where playback should be.                                                *)
PathA ==
    /\ rtsp = "paths" /\ armNext
    /\ armNext' = FALSE /\ ArmGates /\ armed' = TRUE
    /\ rtsp' = "openBlanket"
    /\ UNCHANGED <<phoneVars, wire, req, ring, blanket, timeVars, readerVars,
                   stale>>

PathB ==
    /\ rtsp = "paths" /\ ~armNext
    /\ IF anchor = Off
         THEN rtsp' = "openBlanket" /\ UNCHANGED <<ring, pausedRtp>>
         ELSE /\ pausedRtp' = Off
              /\ IF Abs(Diff(req, Reference)) > Threshold
                   THEN rtsp' = "armB" /\ ring' = {}
                   ELSE rtsp' = "openBlanket" /\ ring' = ring
    /\ UNCHANGED <<phoneVars, wire, req, armed, gateVars, anchor, elapsed,
                   playing, readerVars, stale, caught>>

ArmB ==
    /\ rtsp = "armB"
    /\ ArmGates /\ armed' = TRUE
    /\ rtsp' = "openBlanket"
    /\ UNCHANGED <<phoneVars, wire, req, ring, blanket, armNext, timeVars,
                   readerVars, stale>>

OpenBlanket ==
    /\ rtsp = "openBlanket"
    /\ blanket' = FALSE
    /\ rtsp' = "phase2"
    /\ UNCHANGED <<phoneVars, wire, req, armed, ring, before, above, armNext,
                   timeVars, readerVars, stale, caught>>

Oldest == CHOOSE p \in ring : \A q \in ring : Diff(p, q) <= 0

(* Phase 2: a ring whose oldest frame is far from the anchor is flushed. *)
Phase2 ==
    /\ rtsp = "phase2"
    /\ IF ring # {} /\ Abs(Diff(Oldest, req)) > Threshold
         THEN ring' = {} /\ rtsp' = IF armed THEN "setAnchor" ELSE "armLate"
         ELSE ring' = ring /\ rtsp' = "setAnchor"
    /\ UNCHANGED <<phoneVars, wire, req, armed, gateVars, timeVars, readerVars,
                   stale, caught>>

ArmLate ==
    /\ rtsp = "armLate"
    /\ ArmGates
    /\ rtsp' = "setAnchor"
    /\ UNCHANGED <<phoneVars, wire, req, armed, ring, blanket, armNext,
                   timeVars, readerVars, stale>>

(* audio_timing_set_anchor, then audio_receiver_set_playing(true). *)
SetAnchor ==
    /\ rtsp = "setAnchor"
    /\ anchor' = req /\ elapsed' = 0 /\ playing' = TRUE
    /\ stale' = Cardinality({p \in ring : Behind(p)})
    /\ rtsp' = "idle"
    /\ UNCHANGED <<phoneVars, wire, req, armed, ring, gateVars, pausedRtp,
                   readerVars, caught>>

Rtsp ==
    \/ FlushRing \/ FlushGates \/ CloseBlanket
    \/ PathA \/ PathB \/ ArmB \/ OpenBlanket \/ Phase2 \/ ArmLate \/ SetAnchor

-----------------------------------------------------------------------------
(* The buffered-stream task: one frame from the connection to the ring.    *)

Reads(next, p) ==
    /\ reader' = next /\ frame' = p
    /\ UNCHANGED <<phoneVars, rtspVars, timeVars>>

TakeFrameUnpaced ==
    /\ reader = "idle" /\ wire # <<>>
    /\ wire' = Tail(wire)
    /\ Reads(IF blanket THEN "idle" ELSE "testBefore", Head(wire))
    /\ UNCHANGED <<ring, gateVars, stale, caught>>

(* Back-pressure, then the next frame; the blanket gate is tested first. *)
TakeFrame ==
    /\ reader = "idle" /\ wire # <<>>
    /\ Cardinality(ring) < NearlyFull
    /\ wire' = Tail(wire)
    /\ Reads(IF blanket THEN "idle" ELSE "testBefore", Head(wire))
    /\ UNCHANGED <<ring, gateVars, stale, caught>>

TestBefore ==
    /\ reader = "testBefore"
    /\ Reads(IF before = Off THEN "testAbove"
             ELSE IF Diff(frame, before) < 0 THEN "idle"
             ELSE "disarmBefore", frame)
    /\ UNCHANGED <<wire, ring, gateVars, stale, caught>>

DisarmBefore ==
    /\ reader = "disarmBefore"
    /\ before' = Off
    /\ Reads("testAbove", frame)
    /\ UNCHANGED <<wire, ring, above, blanket, armNext, stale, caught>>

TestAbove ==
    /\ reader = "testAbove"
    /\ Reads(IF above = Off THEN "decode"
             ELSE IF Diff(frame, above) > 0 THEN "idle"
             ELSE "disarmAbove", frame)
    /\ UNCHANGED <<wire, ring, gateVars, stale, caught>>

DisarmAbove ==
    /\ reader = "disarmAbove"
    /\ above' = Off
    /\ Reads("decode", frame)
    /\ UNCHANGED <<wire, ring, before, blanket, armNext, stale, caught>>

(* timestamp_is_gated *)
Gated(p) ==
    \/ blanket
    \/ before # Off /\ Diff(p, before) < 0
    \/ above # Off /\ Diff(p, above) > 0

RecheckMissing ==
    /\ reader = "decode"
    /\ Reads("queue", frame)
    /\ UNCHANGED <<wire, ring, gateVars, stale, caught>>

(* The test after decoding: it drops the frame and disarms nothing. *)
Recheck ==
    /\ reader = "decode"
    /\ Reads(IF Gated(frame) THEN "idle" ELSE "queue", frame)
    /\ UNCHANGED <<wire, ring, gateVars, stale, caught>>

Queue ==
    /\ reader = "queue"
    /\ ring' = ring \cup {frame}
    /\ stale' = IF Behind(frame) /\ stale < MaxFrames THEN stale + 1 ELSE stale
    /\ Reads("idle", frame)
    /\ UNCHANGED <<wire, gateVars, caught>>

Reader ==
    \/ TakeFrame \/ TestBefore \/ DisarmBefore \/ TestAbove \/ DisarmAbove
    \/ Recheck \/ Queue

(* The consumer takes the oldest frame while playback is on. *)
Play ==
    /\ playing /\ ring # {}
    /\ ring' = ring \ {Oldest}
    /\ UNCHANGED <<phoneVars, wire, rtspVars, gateVars, timeVars, readerVars,
                   stale, caught>>

Next ==
    \/ Send \/ Seek \/ Skip \/ SendAnchor \/ Tick
    \/ Pause \/ TeardownStreams \/ Rtsp
    \/ Reader
    \/ Play

Spec == Init /\ [][Next]_vars

-----------------------------------------------------------------------------
(* Properties.                                                             *)

Gate == Pos \cup {Off}

(* Every variable has its type; the ring never holds more than the reader's *)
(* back-pressure lets in.                                                   *)
TypeOK ==
    /\ phone \in {"play", "paused", "flushed", "await"}
    /\ track \in Bases /\ sent \in 0..MaxFrames /\ played \in 0..MaxFrames
    /\ used \subseteq Bases
    /\ wire \in Seq(Pos) /\ Len(wire) <= MaxBacklog
    /\ rtsp \in {"idle", "flushRing", "stopRing", "flushGates", "stopGates",
                 "closeBlanket", "paths", "armB", "openBlanket", "phase2",
                 "armLate", "setAnchor"}
    /\ req \in Pos /\ armed \in BOOLEAN
    /\ ring \subseteq Pos /\ Cardinality(ring) <= NearlyFull
    /\ before \in Gate /\ above \in Gate
    /\ blanket \in BOOLEAN /\ armNext \in BOOLEAN
    /\ pausedRtp \in Gate /\ anchor \in Gate
    /\ elapsed \in 0..MaxElapsed /\ playing \in BOOLEAN
    /\ reader \in {"idle", "testBefore", "disarmBefore", "testAbove",
                   "disarmAbove", "decode", "queue"}
    /\ frame \in Pos
    /\ stale \in 0..MaxFrames /\ caught \subseteq {"atGates", "accepted", "crossed"}

(* The handlers are done and the anchor is one of the track being played. *)
Anchored == rtsp = "idle" /\ phone = "play" /\ anchor # Off /\ ~Older(anchor)

(* Once the anchor of a track is in force, nothing of what was left behind  *)
(* by seeking forwards is in the ring or enters it, but for the one frame   *)
(* that was past its last test when gates were armed.  Two states of        *)
(* the reader at that moment are excepted: between its tests of the gates,  *)
(* and with the backlog of two seeks before it (GatesHoldBothWays).         *)
BacklogStaysOut ==
    Anchored /\ caught \cap {"atGates", "crossed"} = {}
        => stale <= Cardinality(caught \cap {"accepted"})

(* "both gates together handle both seek directions" (audio_stream.c): the  *)
(* backlog stays out also when some of it lies above and some below.        *)
GatesHoldBothWays ==
    Anchored /\ "crossed" \in caught /\ "atGates" \notin caught
        => stale <= Cardinality(caught \cap {"accepted"})

(* "If stale data managed to enter the buffer (e.g. queued before           *)
(* seek_flush was called), detect it" (audio_receiver.c): phase 2 flushes a *)
(* ring with frames of an older track in it.                                *)
Phase2FindsBacklog ==
    [][Phase2 /\ (\E p \in ring : Older(p)) => ring' = {}]_vars

(* "no flush or offset compensation is needed" on resume, and the snapshot  *)
(* keeps Path B from "a false seek flush on any pause >= seek_threshold"    *)
(* (audio_receiver.c): an anchor at the position playback has reached does  *)
(* not flush the ring.                                                      *)
ResumeKeepsBuffer ==
    [][PathB /\ anchor # Off /\ ~Older(anchor) /\ req = Position
          => ring' = ring]_vars

(* "whichever direction the seek went, one gate fires and the other is      *)
(* harmless" (audio_receiver_internal.h): no frame of the announced track,  *)
(* from its anchor on, is rejected by a gate.                               *)
GatesPassNewTrack ==
    [][(TestBefore \/ TestAbove) /\ reader' = "idle" /\ Anchored
          => Older(frame) \/ Diff(frame, anchor) < 0]_vars
=============================================================================
