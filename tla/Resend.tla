------------------------------- MODULE Resend -------------------------------
(* The resend window of the realtime stream (audio_stream_realtime.c): the   *)
(* receiver task tracks the sequence numbers it misses, asks the sender for  *)
(* them again over a network that loses and reorders, and accepts each once; *)
(* an RTSP task may reset the window at any time (audio_receiver_flush,      *)
(* audio_receiver_set_client_control).                                       *)
EXTENDS Integers, FiniteSets, FiniteSetsExt

CONSTANTS SeqNumbers, \* sequence numbers are counted modulo SeqNumbers (2^16)
          Window,     \* RESEND_WINDOW_BITS, and MAX_RESEND_GAP
          FirstSeq,   \* sequence number of the first packet
          Packets,    \* bound: packets the sender sends
          MaxNet,     \* bound: packets in flight
          MaxFaults,  \* bound: lost packets and failed sends
          MaxWindowResets  \* bound: resets of the window

\* The window is far smaller than the half of the numbers that a signed difference takes for later ones, and no packet
\* is overtaken by so many that it would count as a later one.
ASSUME SequenceAssumption ==
    /\ SeqNumbers \in Nat /\ FirstSeq \in Nat
    /\ Window \in Nat \ {0} /\ Window < SeqNumbers \div 2
    /\ Packets \in Nat /\ Packets <= SeqNumbers \div 2

VARIABLES
    rx,     \* rtp_sequence_valid, stats.last_seq, the window and its two timers
    work,   \* the receiver task inside resend_track_missing
    medium, \* packets in flight: [kind, n] and [kind, first, count]
    sent,   \* packets sent so far
    got,    \* packets given to audio_stream_process_frame since the reset, and how often
    left    \* faults and resets left, and whether a reset tore an update

resendVars == <<rx, work, medium, sent, got, left>>

NotTracking == [on |-> FALSE]
\* audio_receiver_reset_resend_state; asked is the age of the last request
Fresh(rx0) == [rx0 EXCEPT !.valid = FALSE, !.first = 0, !.mask = {}, !.asked = "never", !.backoff = FALSE]

ResendInit ==
        /\ rx = [valid |-> FALSE, last |-> 0, first |-> 0, mask |-> {}, asked |-> "never", backoff |-> FALSE]
        /\ work = NotTracking /\ medium = {} /\ sent = 0 /\ got = {}
        /\ left = [faults |-> MaxFaults, resets |-> MaxWindowResets, torn |-> FALSE]

SeqOf(n) == (FirstSeq + n) % SeqNumbers
\* (uint16_t)(a - b) and (int16_t)(a - b)
Ahead(a, b) == (a - b) % SeqNumbers
Delta(a, b) == IF Ahead(a, b) < SeqNumbers \div 2 THEN Ahead(a, b) ELSE Ahead(a, b) - SeqNumbers

-----------------------------------------------------------------------------
(* The window: the mask is the set of its offsets that are missing.          *)

\* resend_slide_window
Slide(r) == IF r.mask = {} THEN [r EXCEPT !.asked = "never"]
            ELSE LET k == Min(r.mask)
                 IN [r EXCEPT !.mask = {o - k : o \in @}, !.first = (@ + k) % SeqNumbers]
\* resend_mark_received
Marked(r, s) == Ahead(s, r.first) \in r.mask
Mark(r, s) == Slide([r EXCEPT !.mask = @ \ {Ahead(s, r.first)}])

\* resend_next_range
RangeOf(r) == LET k == Min(r.mask)
                  run == {c \in 1..Window : \A o \in k..(k + c - 1) : o \in r.mask}
              IN [first |-> (r.first + k) % SeqNumbers, count |-> Max(run)]

\* send_resend_request and resend_request_range: what becomes of a request
\* Mutant: a failed send counts as a request.
AskedSilently(r, n, ask, fails) ==
    IF r.backoff THEN <<[r EXCEPT !.asked = "now"], n>>
    ELSE IF fails THEN <<[r EXCEPT !.backoff = TRUE, !.asked = "now"], n>>
    ELSE <<[r EXCEPT !.asked = "now"], n \cup {[kind |-> "nack", first |-> ask.first, count |-> ask.count]}>>
Asked(r, n, ask, fails) ==
    IF r.backoff THEN <<r, n>>
    ELSE IF fails THEN <<[r EXCEPT !.backoff = TRUE], n>>
    ELSE <<[r EXCEPT !.asked = "now"], n \cup {[kind |-> "nack", first |-> ask.first, count |-> ask.count]}>>
\* resend_retry_if_due
Retried(r, n, fails) ==
    IF r.mask = {} \/ r.asked = "now" THEN <<r, n>> ELSE Asked(r, n, RangeOf(r), fails)

Faults == IF left.faults > 0 THEN BOOLEAN ELSE {FALSE}
Use(fault) == left' = [left EXCEPT !.faults = IF fault THEN @ - 1 ELSE @]

-----------------------------------------------------------------------------
(* The receiver task.                                                        *)

Deliver(n) == got' = got \cup {<<n, 1 + Cardinality({q \in got : q[1] = n})>>}
\* A packet goes to the decoder, then a due retry is sent.
Accept(r, p, fails) == /\ Deliver(p.n)
                       /\ LET x == Retried(r, medium \ {p}, fails) IN rx' = x[1] /\ medium' = x[2]
                       /\ UNCHANGED <<work, sent>> /\ Use(fails)
Drop(p) == medium' = medium \ {p} /\ UNCHANGED <<rx, work, sent, got, left>>

\* track_regular_rtp_sequence: in order, or the first packet
InOrder(p, fails) ==
    /\ ~rx.valid \/ Delta(SeqOf(p.n), rx.last + 1) = 0
    /\ Accept([rx EXCEPT !.valid = TRUE, !.last = SeqOf(p.n)], p, fails)
\* a gap too long to be asked for
LongGap(p, fails) ==
    /\ rx.valid /\ Delta(SeqOf(p.n), rx.last + 1) > Window
    /\ Accept([rx EXCEPT !.last = SeqOf(p.n)], p, fails)
\* a gap: resend_track_missing writes the first number, then the mask
TrackFirst(p) ==
    LET expected == (rx.last + 1) % SeqNumbers
        gap == Delta(SeqOf(p.n), expected)
        offset == Ahead(expected, rx.first)
        fits == rx.mask # {} /\ offset + gap <= Window
    IN /\ rx.valid /\ gap \in 1..Window
       /\ rx' = [rx EXCEPT !.first = IF fits THEN @ ELSE expected]
       /\ work' = [on |-> TRUE, p |-> p, keep |-> fits, first |-> expected, count |-> gap,
                   bits |-> IF fits THEN offset..(offset + gap - 1) ELSE 0..(gap - 1)]
       /\ UNCHANGED <<medium, sent, got, left>>
TrackMask(fails) ==
    /\ work.on /\ work' = NotTracking
    /\ LET r == [rx EXCEPT !.mask = IF work.keep THEN @ \cup work.bits ELSE work.bits]
           x == Asked(r, medium \ {work.p}, [first |-> work.first, count |-> work.count], fails)
           y == Retried([x[1] EXCEPT !.last = SeqOf(work.p.n)], x[2], FALSE)
       IN rx' = y[1] /\ medium' = y[2]
    /\ Deliver(work.p.n)
    /\ UNCHANGED sent /\ Use(fails)
\* a late packet fills its hole, a second copy is dropped
Late(p, fails) ==
    /\ rx.valid /\ Delta(SeqOf(p.n), rx.last + 1) < 0
    /\ IF Marked(rx, SeqOf(p.n)) THEN Accept(Mark(rx, SeqOf(p.n)), p, fails) ELSE fails = FALSE /\ Drop(p)

\* Mutant: the window is not asked whether it misses the packet.
RetransmitUnchecked(p, fails) ==
    /\ p.kind = "again"
    /\ Accept(Mark(rx, SeqOf(p.n)), p, fails)
Retransmit(p, fails) ==
    /\ p.kind = "again"
    /\ IF Marked(rx, SeqOf(p.n)) THEN Accept(Mark(rx, SeqOf(p.n)), p, fails) ELSE fails = FALSE /\ Drop(p)

Receive(p, fails) ==
    /\ ~work.on
    /\ \/ p.kind = "rtp" /\ (InOrder(p, fails) \/ LongGap(p, fails) \/ Late(p, fails) \/ (fails = FALSE /\ TrackFirst(p)))
       \/ Retransmit(p, fails)
\* SO_RCVTIMEO: a tenth of a second without a packet
\* Mutant: a quiet socket repeats nothing.
TimeoutQuiet(fails) ==
    /\ ~work.on /\ rx.mask # {} /\ rx.asked # "now" /\ ~rx.backoff
    /\ fails = FALSE /\ UNCHANGED resendVars
Timeout(fails) ==
    /\ ~work.on /\ rx.mask # {} /\ rx.asked # "now" /\ ~rx.backoff
    /\ LET x == Retried(rx, medium, fails) IN rx' = x[1] /\ medium' = x[2]
    /\ UNCHANGED <<work, sent, got>> /\ Use(fails)
\* RESEND_RETRY_INTERVAL_US and RESEND_ERROR_BACKOFF_US elapse
IntervalPasses == rx.asked = "now" /\ rx' = [rx EXCEPT !.asked = "due"] /\ UNCHANGED <<work, medium, sent, got, left>>
BackoffPasses == rx.backoff /\ rx' = [rx EXCEPT !.backoff = FALSE] /\ UNCHANGED <<work, medium, sent, got, left>>

\* Another task resets the window, wherever the receiver task stands; torn
\* remembers that it was between the two writes of resend_track_missing.
Reset ==
    /\ left.resets > 0
    /\ rx' = Fresh(rx) /\ got' = {}
    /\ left' = [left EXCEPT !.resets = @ - 1, !.torn = @ \/ work.on]
    /\ UNCHANGED <<work, medium, sent>>

-----------------------------------------------------------------------------
(* The sender and the network.                                               *)

Send == /\ sent < Packets /\ Cardinality(medium) < MaxNet
        /\ sent' = sent + 1 /\ medium' = medium \cup {[kind |-> "rtp", n |-> sent]}
        /\ UNCHANGED <<rx, work, got, left>>
\* radio silence: more packets in a row are lost than the window can hold
Outage == /\ left.faults > 0 /\ sent + Window + 1 < Packets
          /\ sent' = sent + Window + 1 /\ left' = [left EXCEPT !.faults = @ - 1]
          /\ UNCHANGED <<rx, work, medium, got>>
\* the sender repeats what it still has of the range
Answer(q) ==
    /\ q.kind = "nack"
    /\ medium' = (medium \ {q}) \cup {[kind |-> "again", n |-> n] : n \in {n \in 0..(sent - 1) : Ahead(SeqOf(n), q.first) < q.count}}
    /\ UNCHANGED <<rx, work, sent, got, left>>
Lose(p) == /\ left.faults > 0 /\ medium' = medium \ {p} /\ left' = [left EXCEPT !.faults = @ - 1]
           /\ UNCHANGED <<rx, work, sent, got>>

ResendNext ==
        \/ \E p \in medium, fails \in Faults : Receive(p, fails)
        \/ \E fails \in Faults : TrackMask(fails) \/ Timeout(fails)
        \/ IntervalPasses \/ BackoffPasses \/ Reset \/ Send \/ Outage
        \/ \E p \in medium : Answer(p) \/ Lose(p)

ResendFairness ==
        /\ WF_resendVars(\E p \in medium, fails \in {FALSE} : Receive(p, fails))
        /\ WF_resendVars(TrackMask(FALSE)) /\ WF_resendVars(Timeout(FALSE))
        /\ WF_resendVars(IntervalPasses) /\ WF_resendVars(BackoffPasses)
        /\ WF_resendVars(\E p \in medium : Answer(p)) /\ WF_resendVars(Send)
ResendSpec == ResendInit /\ [][ResendNext]_resendVars /\ ResendFairness

-----------------------------------------------------------------------------
(* Properties.                                                               *)

\* No packet reaches the decoder twice, however often it was asked for,
\* repeated or overtaken, also where the sequence numbers wrap. A reset that
\* tears an update in two is excused.
OnceEach == left.torn \/ \A q \in got : q[2] = 1
\* Every hole is filled or forgotten: the retries go on until the sender has
\* repeated the packets, on a socket that is quiet as well.
HolesFilled == (rx.mask # {}) ~> (rx.mask = {} \/ left.torn)
=============================================================================
