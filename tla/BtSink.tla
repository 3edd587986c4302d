------------------------------- MODULE BtSink -------------------------------
(* The Bluetooth audio and volume paths (main/audio/a2dp_sink.c): the stack's *)
(* data callback fills a ring, the writer task waits for a prefetch and plays *)
(* it; the phone and the keys of the device both move the AVRCP volume.       *)
EXTENDS Naturals, Sequences

CONSTANTS Size, Prefetch,   \* the ring and its prefetch, in packets
          AbsVolumes,       \* what the phone may set
          MaxSessions, MaxKeys, MaxCmds   \* bounds

\* An absolute volume of AVRCP has seven bits.
ASSUME VolumeAssumption == AbsVolumes \subseteq 0..127

VARIABLES
    ring,   \* s_ringbuf: present, packets in it, s_ringbuf_mode
    wr,     \* the writer task, s_i2s_task_running, the semaphore
    stop,   \* bt_app is inside i2s_task_stop
    vol,    \* s_avrc_volume, the DAC's volume, s_vol_ntf_pending
    key,    \* where the task of a volume key is
    app,    \* AVRCP commands queued for bt_app
    phone,  \* the phone: registered for the notification, the volume it shows
    log     \* history: sessions, keys, commands; a key overlapped a command

sinkVars == <<ring, wr, stop, vol, key, app, phone, log>>

SinkInit ==
    /\ ring = [here |-> FALSE, level |-> 0, mode |-> "PREFETCHING"]
    /\ wr = [pc |-> "none", running |-> FALSE, sem |-> 0]
    /\ stop = FALSE
    /\ vol = [set |-> 64, dac |-> 64, pending |-> FALSE]
    /\ key = "idle"
    /\ app = <<>>
    /\ phone = [reg |-> FALSE, shown |-> 64]
    /\ log = [sessions |-> 0, keys |-> 0, cmds |-> 0, overlap |-> FALSE]

avrcp == <<vol, key, app, phone>>
audio == <<ring, wr, stop>>

-----------------------------------------------------------------------------
(* The audio path.                                                           *)

\* i2s_task_start
Start ==
    /\ ~stop /\ wr.pc = "none" /\ log.sessions < MaxSessions
    /\ ring' = [here |-> TRUE, level |-> IF ring.here THEN ring.level ELSE 0, mode |-> "PREFETCHING"]
    /\ wr' = [pc |-> "wait", running |-> TRUE, sem |-> 0]
    /\ log' = [log EXCEPT !.sessions = @ + 1]
    /\ UNCHANGED <<stop, avrcp>>

\* i2s_task_stop: the writer is told, and woken in case it still prefetches
\* Mutant: it is not woken.
StopBeginAsleep ==
    /\ ~stop /\ wr.running
    /\ stop' = TRUE /\ wr' = [wr EXCEPT !.running = FALSE]
    /\ UNCHANGED <<ring, log, avrcp>>
StopBegin ==
    /\ ~stop /\ wr.running
    /\ stop' = TRUE /\ wr' = [wr EXCEPT !.running = FALSE, !.sem = 1]
    /\ UNCHANGED <<ring, log, avrcp>>
\* the writer is gone: the ring is drained and deleted
StopEnd ==
    /\ stop /\ wr.pc = "none"
    /\ stop' = FALSE /\ ring' = [ring EXCEPT !.here = FALSE, !.level = 0] /\ wr' = [wr EXCEPT !.sem = 0]
    /\ UNCHANGED <<log, avrcp>>

\* bt_a2dp_data_cb, one packet, in each mode of the ring
Data ==
    /\ ring.here
    /\ \/ /\ ring.mode = "PREFETCHING"
          /\ LET n == IF ring.level < Size THEN ring.level + 1 ELSE ring.level
                 full == ring.level + 1 >= Prefetch
             IN /\ ring' = [ring EXCEPT !.level = n, !.mode = IF full THEN "PROCESSING" ELSE @]
                /\ wr' = IF full THEN [wr EXCEPT !.sem = 1] ELSE wr
       \/ /\ ring.mode = "PROCESSING"
          /\ ring' = IF ring.level = Size THEN [ring EXCEPT !.mode = "DROPPING"] ELSE [ring EXCEPT !.level = @ + 1]
          /\ wr' = wr
       \/ /\ ring.mode = "DROPPING"
          /\ ring' = IF Size - ring.level > Prefetch THEN [ring EXCEPT !.mode = "PROCESSING", !.level = @ + 1] ELSE ring
          /\ wr' = wr
    /\ UNCHANGED <<stop, log, avrcp>>

\* bt_i2s_writer_task
WriterWake ==
    /\ wr.pc = "wait" /\ wr.sem = 1
    /\ wr' = [wr EXCEPT !.pc = "loop", !.sem = 0]
    /\ UNCHANGED <<ring, stop, log, avrcp>>
\* what is buffered, or silence; the loop ends when it is told to
Writer ==
    /\ wr.pc = "loop"
    /\ IF wr.running
       THEN wr' = wr /\ ring' = [ring EXCEPT !.level = IF @ > 0 THEN @ - 1 ELSE 0]
       ELSE wr' = [wr EXCEPT !.pc = "none"] /\ ring' = ring
    /\ UNCHANGED <<stop, log, avrcp>>

-----------------------------------------------------------------------------
(* AVRCP volume.                                                             *)

Command(c) ==
    /\ log.cmds < MaxCmds /\ app' = Append(app, c)
    /\ log' = [log EXCEPT !.cmds = @ + 1, !.overlap = @ \/ key # "idle"]
\* the phone registers for the volume (again, once it has been told a change)
Registers == ~phone.reg /\ Command([op |-> "reg", v |-> 0]) /\ phone' = [phone EXCEPT !.reg = TRUE]
             /\ UNCHANGED <<audio, vol, key>>
SetsVolume(v) == Command([op |-> "set", v |-> v]) /\ UNCHANGED <<audio, vol, key, phone>>

\* bt_avrc_tg_evt_handler
TgCommand ==
    /\ app # <<>> /\ app' = Tail(app)
    /\ IF Head(app).op = "set"
       THEN vol' = [vol EXCEPT !.set = Head(app).v, !.dac = Head(app).v]
            /\ phone' = [phone EXCEPT !.shown = Head(app).v]
       ELSE vol' = [vol EXCEPT !.pending = TRUE] /\ phone' = [phone EXCEPT !.shown = vol.set]
    /\ UNCHANGED <<audio, key, log>>

\* bt_a2dp_send_volume_up and _down
Up(v) == IF v <= 117 THEN v + 10 ELSE 127
\* Mutant: the last step down wraps in eight bits.
DownWrapped(v) == (v + 246) % 256
Down(v) == IF v >= 10 THEN v - 10 ELSE 0
KeyPress(v) ==
    /\ key = "idle" /\ log.keys < MaxKeys
    /\ key' = "notify"
    /\ vol' = [vol EXCEPT !.set = v, !.dac = v]
    /\ log' = [log EXCEPT !.keys = @ + 1, !.overlap = @ \/ app # <<>>]
    /\ UNCHANGED <<audio, app, phone>>
\* notify_volume_changed: the response, then the flag
KeyNotify ==
    /\ key = "notify"
    /\ key' = IF vol.pending THEN "clear" ELSE "idle"
    /\ phone' = IF vol.pending THEN [reg |-> FALSE, shown |-> vol.set] ELSE phone
    /\ UNCHANGED <<audio, vol, app, log>>
KeyClear ==
    /\ key = "clear"
    /\ key' = "idle" /\ vol' = [vol EXCEPT !.pending = FALSE]
    /\ UNCHANGED <<audio, app, phone, log>>

AudioNext == Start \/ StopBegin \/ StopEnd \/ Data \/ WriterWake \/ Writer
VolumeNext ==
        \/ Registers \/ (\E v \in AbsVolumes : SetsVolume(v)) \/ TgCommand
        \/ KeyPress(Up(vol.set)) \/ KeyPress(Down(vol.set)) \/ KeyNotify \/ KeyClear
SinkNext == AudioNext \/ VolumeNext

\* The tasks run; the stack's packets and the phone are not promised.
SinkFairness == WF_sinkVars(WriterWake) /\ WF_sinkVars(Writer) /\ WF_sinkVars(StopEnd)
SinkSpec == SinkInit /\ [][SinkNext]_sinkVars /\ SinkFairness

-----------------------------------------------------------------------------
(* Properties.                                                               *)

\* i2s_task_stop, which the bt_app task cannot leave early, always ends, also
\* when the phone goes before the ring was prefetched.
StopEnds == stop ~> ~stop

\* As long as no command arrived in the middle of a key press, the volume the
\* phone shows (once told), the sink's and the DAC's are one, and a phone that
\* is registered will be told of the next key.
Quiet == app = <<>> /\ key = "idle"
VolumesAgree == Quiet /\ ~log.overlap => /\ vol.dac = vol.set /\ vol.set \in 0..127
                                         /\ phone.reg => vol.pending /\ phone.shown = vol.set

\* The comment of s_vol_ntf_pending: "phone registered for volume change".
PendingMeansRegistered == Quiet => (vol.pending <=> phone.reg)
=============================================================================
