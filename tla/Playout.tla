------------------------------ MODULE Playout ------------------------------
(* When a frame is played: audio_timing.c.  Frames are numbered back from the *)
(* one the sender sends next, which is 0: a period passes, a frame arrives    *)
(* and every number falls by one.  Time is in half frames; Due(f) is          *)
(* compute_early_us.  The playback task reads once a period; one attempt of   *)
(* its drain loop is a step, between which the request handlers may come.     *)
EXTENDS Integers, FiniteSets

CONSTANTS Wide, Strict,     \* timing_threshold_us and half a frame period
          Target,           \* target_buffer_frames
          Depth,            \* bound: frames the ring keeps
          Leads,            \* how far ahead of its time the sender sends
          Far,              \* an anchor that is out of reach
          MaxEarly,         \* MAX_CONSECUTIVE_EARLY
          MaxFaults         \* bound: losses, stalls and requests

VARIABLES
    t,       \* audio_timing_t
    lead,    \* Due(0) under the anchor
    ring,    \* the frames queued
    pc,      \* the playback task: out of its loop or in it, with dropped_late
    out,     \* what the last read put out: a frame and how early it was, or silence
    faults   \* what the bound has been spent on

vars == <<t, lead, ring, pc, out, faults>>

None == 1
Idle == [at |-> "idle", dropped |-> FALSE]
Silence == [frame |-> None, early |-> 0]
\* audio_timing_reset; playing and the pending buffer stay
Reset(x) == [x EXCEPT !.started = FALSE, !.anchor = FALSE, !.pending = None, !.early = 0, !.quick = FALSE, !.until = None,
                      !.dropping = FALSE, !.expected = None, !.waited = FALSE]
Init == /\ t = [playing |-> TRUE, started |-> FALSE, anchor |-> FALSE, pending |-> None, expected |-> None, early |-> 0,
                quick |-> FALSE, until |-> None, dropping |-> FALSE, waited |-> FALSE]
        /\ lead = 0 /\ ring = {} /\ pc = Idle /\ out = Silence /\ faults = 0

Due(f) == lead + 2 * f
Oldest == CHOOSE f \in ring : \A g \in ring : f <= g
\* audio_buffer_bulk_start_rtp: where the run that ends at the newest begins
Bulk == CHOOSE f \in ring : /\ \A g \in ring : g >= f => (g + 1 \in ring \/ \A h \in ring : h <= g)
                            /\ f - 1 \notin ring
Older(f) == IF f = None \/ f < -Depth - 2 THEN f ELSE f - 1

\* a period passes: the sender's next frame arrives, or is lost
Period(arrives) ==
    LET kept == {g \in {f - 1 : f \in ring} : g >= -Depth}
    IN /\ ring' = IF arrives THEN kept \cup {-1} ELSE kept
       /\ t' = [t EXCEPT !.pending = Older(@), !.expected = Older(@), !.until = Older(@)]
       /\ UNCHANGED lead

-----------------------------------------------------------------------------
(* audio_timing_read.                                                        *)

Ends(o) == pc' = [at |-> "done", dropped |-> FALSE] /\ out' = o
\* nothing to do, not enough to start with, or no anchor yet
ReadBegin ==
    /\ pc.at = "idle"
    /\ LET few == Cardinality(ring) < IF t.quick THEN 1 ELSE Target
           start == ~t.started /\ t.pending = None
       IN IF ~t.playing \/ (start /\ few) THEN Ends(Silence) /\ UNCHANGED t
          ELSE IF start /\ ~t.anchor /\ ~t.waited THEN Ends(Silence) /\ t' = [t EXCEPT !.waited = TRUE]
          ELSE pc' = [at |-> "drain", dropped |-> t.dropping] /\ UNCHANGED <<t, out>>
    /\ UNCHANGED <<lead, ring, faults>>
\* the frame of an attempt, gone from where it was
Frame == IF t.pending # None THEN t.pending ELSE Oldest
Rest == IF t.pending # None THEN ring ELSE ring \ {Oldest}
Past(f) == IF t.expected = None \/ f + 1 > t.expected THEN f + 1 ELSE t.expected
Draining == pc.at = "drain" /\ (t.pending # None \/ ring # {})
Underrun == /\ pc.at = "drain" /\ t.pending = None /\ ring = {}
            /\ Ends(Silence) /\ UNCHANGED <<t, lead, ring, faults>>
\* the frame a deferred flush waits for: the rest is flushed
Deferred == t.until # None /\ Frame >= t.until
FlushNow == /\ Draining /\ Deferred
            /\ t' = [t EXCEPT !.pending = None, !.until = None, !.started = FALSE, !.waited = FALSE, !.early = 0, !.quick = TRUE, !.expected = None]
            /\ ring' = {} /\ Ends(Silence) /\ UNCHANGED <<lead, faults>>
\* a frame far below the contiguous run that is to be started with
Island == ~t.started /\ ring # {} /\ Bulk - Frame > 1
SkipIsland == /\ Draining /\ ~Deferred /\ Island
              /\ t' = [t EXCEPT !.pending = None] /\ ring' = Rest /\ UNCHANGED <<lead, pc, out, faults>>
Gap == t.pending = None /\ t.started /\ t.expected # None /\ Frame > t.expected
Release == IF t.pending # None \/ pc.dropped \/ Gap THEN Strict ELSE Wide
TooEarly == t.anchor /\ Due(Frame) > Release
TooLate == t.anchor /\ Due(Frame) < -(IF pc.dropped THEN Strict ELSE Wide)
Ready == Draining /\ ~Deferred /\ ~Island
\* held as the pending frame while silence is played
Hold == /\ Ready /\ TooEarly /\ (t.pending = None => t.early < MaxEarly)
        /\ t' = [t EXCEPT !.early = IF t.pending = None THEN @ + 1 ELSE @, !.pending = Frame]
        /\ ring' = Rest /\ Ends(Silence) /\ UNCHANGED <<lead, faults>>
\* Mutant: a late frame is held like an early one.
DropHeld == /\ Ready /\ TooLate
            /\ t' = [t EXCEPT !.pending = Frame, !.dropping = TRUE]
            /\ ring' = Rest /\ Ends(Silence) /\ UNCHANGED <<lead, faults>>
Drop == /\ Ready /\ TooLate
        /\ t' = [t EXCEPT !.pending = None, !.early = 0, !.dropping = TRUE, !.expected = Past(Frame)]
        /\ ring' = Rest /\ pc' = [pc EXCEPT !.dropped = TRUE] /\ UNCHANGED <<lead, out, faults>>
\* on time, without an anchor, or after too many early frames
Play == /\ Ready /\ ~TooLate /\ (TooEarly => t.pending = None /\ t.early >= MaxEarly)
        /\ t' = [t EXCEPT !.pending = None, !.early = 0, !.anchor = @ /\ ~TooEarly, !.dropping = FALSE, !.expected = Past(Frame),
                          !.started = TRUE, !.quick = FALSE]
        /\ ring' = Rest /\ Ends([frame |-> Frame, early |-> IF t.anchor /\ ~TooEarly THEN Due(Frame) ELSE 0])
        /\ UNCHANGED <<lead, faults>>
\* the time a read may take is over; what was dropped stays dropped
TimeUp == /\ Ready /\ pc.dropped /\ faults < MaxFaults /\ faults' = faults + 1
          /\ Ends(Silence) /\ UNCHANGED <<t, lead, ring>>
\* the period a read fills
PeriodEnd == /\ pc.at = "done" /\ pc' = Idle /\ Period(TRUE) /\ UNCHANGED <<out, faults>>

-----------------------------------------------------------------------------
(* What disturbs it.                                                         *)

Fault == faults < MaxFaults /\ faults' = faults + 1
Lose == Fault /\ pc.at = "done" /\ pc' = Idle /\ Period(FALSE) /\ UNCHANGED out
Recover(f) == Fault /\ f \notin ring /\ ring' = ring \cup {f} /\ UNCHANGED <<t, lead, pc, out>>
\* the playback task is held up for a period
Stall == Fault /\ pc.at = "idle" /\ Period(TRUE) /\ UNCHANGED <<pc, out>>
\* audio_timing_set_anchor
SetAnchor(l) == /\ Fault /\ lead' = l /\ t' = [t EXCEPT !.anchor = TRUE, !.early = 0]
                /\ UNCHANGED <<ring, pc, out>>
\* audio_receiver_flush and audio_receiver_seek_flush
Flush(quick) == /\ Fault /\ ring' = {} /\ t' = [Reset(t) EXCEPT !.quick = quick] /\ UNCHANGED <<lead, pc, out>>
\* audio_receiver_set_deferred_flush: until the frame that comes next
FlushLater == /\ Fault /\ t' = [t EXCEPT !.until = 0] /\ UNCHANGED <<lead, ring, pc, out>>
\* audio_timing_set_playing
SetPlaying(on) == /\ Fault /\ t.playing # on
                  /\ t' = [t EXCEPT !.playing = on, !.pending = IF on THEN @ ELSE None] /\ UNCHANGED <<lead, ring, pc, out>>

Read == ReadBegin \/ Underrun \/ FlushNow \/ SkipIsland \/ Hold \/ Drop \/ Play
Next == \/ Read \/ TimeUp \/ PeriodEnd \/ Lose \/ Stall \/ FlushLater
        \/ \E f \in -Depth..-1 : Recover(f)
        \/ \E l \in Leads : SetAnchor(l)
        \/ \E b \in BOOLEAN : Flush(b) \/ SetPlaying(b)
Fairness == WF_vars(Read) /\ WF_vars(PeriodEnd)
Spec == Init /\ [][Next]_vars /\ Fairness

-----------------------------------------------------------------------------
(* Properties.                                                               *)

Scheduled == t.playing /\ t.anchor /\ lead < Far
\* Whatever was lost, late, flushed, paused or moved, the frames are played at
\* their times again and go on being.
Recovers == <>[](Scheduled => out.frame # None /\ -Wide <= out.early /\ out.early <= Wide)
\* audio_timing.c: an anchor out of reach is given up "so playback can continue".
StuckAnchorGivenUp == []<>(~t.playing \/ out.frame # None)
=============================================================================
