------------------------------- MODULE Volume -------------------------------
(* The one volume of the device and its four writers: the phone (the client  *)
(* task of main/rtsp/rtsp_server.c), the web page, the buttons' task         *)
(* (main/playback_control.c) and the server's start-up refresh.  The value   *)
(* lives in the settings' RAM copy, as Q15 for the audio path, in the DAC,   *)
(* and as the value the next client is told.  Nothing locks the writers: a   *)
(* job is the list of the stores its task has still to do, and the stores of *)
(* different tasks interleave.  Volumes are percents of the 30 dB range.     *)
EXTENDS Integers, Sequences, FiniteSets

CONSTANTS Levels,    \* the percents the phone and the page ask for
          Step,      \* VOLUME_STEP_DB in percents
          MaxOps     \* bound: requests of all writers together

VARIABLES saved,     \* g_volume_db of settings.c
          q15,       \* s_volume_q15, what audio_output multiplies by
          last,      \* s_last_set_volume_db
          synced,    \* s_volume_synced_to_airplay
          dac,       \* what dac_set_volume was last given
          session,   \* has_session of the current slot
          source,    \* s_source is AIRPLAY
          muted, pre,   \* s_muted, s_pre_mute_db
          flash,     \* the volume in NVS
          job,       \* by task: the stores still to do and the value they store
          ops, crossed  \* bound; two jobs have overlapped
heard == <<saved, q15, last, synced, dac, session, flash>>
local == <<source, muted, pre>>
volumeVars == <<heard, local, job, ops, crossed>>

Tasks == {"client", "web", "button", "server"}
Clamp(p) == IF p < 0 THEN 0 ELSE IF p > 100 THEN 100 ELSE p
\* The squared curve of the slider, and its inverse rounded to a percent.
Q15Of(p) == (Clamp(p) * Clamp(p) * 32768) \div 10000
PercentOf(q) == CHOOSE p \in 0 .. 100 : /\ (2 * p - 1) * (2 * p - 1) * 32768 <= 40000 * q \/ p = 0
                                        /\ 40000 * q < (2 * p + 1) * (2 * p + 1) * 32768

NoJob == [todo |-> <<>>, v |-> 0]
VolumeInit ==
        /\ saved \in Levels /\ q15 = 8192 /\ last = 100 /\ synced = TRUE /\ dac = saved /\ session = FALSE
        /\ source = TRUE /\ muted = FALSE /\ pre = 50 /\ flash = saved
        /\ job = [t \in Tasks |-> IF t = "server" THEN [todo |-> <<"read", "q15">>, v |-> 0] ELSE NoJob]
        /\ ops = 0 /\ crossed = FALSE

Free(t) == job[t].todo = <<>>
Rest == \A t \in Tasks : Free(t)
Begin(t, todo, v) ==
    /\ Free(t) /\ ops < MaxOps /\ ops' = ops + 1
    /\ job' = [job EXCEPT ![t] = [todo |-> todo, v |-> v]]
    /\ crossed' = (crossed \/ \E u \in Tasks \ {t} : ~Free(u))

\* airplay_apply_volume_db, settings_set_volume included.
Apply == <<"q15", "last", "check", "saved">>
\* airplay_set_volume_q15 without a session (and a mutant that forgets the audio path's copy).
AloneStale == <<"last", "check", "saved", "flag">>
Alone == <<"last", "q15", "check", "saved", "flag">>

\* client_task: a client takes what the page set while nobody was there.
PhoneConnects == ~session /\ Begin("client", <<"take">>, 0) /\ UNCHANGED <<heard, local>>
\* SET_PARAMETER volume.
PhoneSets(p) == session /\ Begin("client", Apply, p) /\ UNCHANGED <<heard, local>>
\* RECORD and the resume SETUP put the DAC back where Bluetooth may have left it.
PutDacBack == session /\ Begin("client", <<"read", "force">>, 0) /\ UNCHANGED <<heard, local>>
\* rtsp_conn_free.
Disconnect == /\ session /\ Free("client") /\ session' = FALSE /\ flash' = saved
              /\ UNCHANGED <<saved, q15, last, synced, dac, local, job, ops, crossed>>
\* volume_post_handler and airplay_set_volume_q15.
WebSets(p) == /\ Begin("web", IF session THEN Apply ELSE Alone, PercentOf(Q15Of(p)))
              /\ UNCHANGED <<heard, local>>
\* airplay_adjust_volume; airplay_set_volume does nothing without a session.
Key(delta) == /\ source
              /\ Begin("button", (IF session THEN Apply ELSE <<>>) \o <<"key">>, Clamp(saved + delta))
              /\ UNCHANGED <<heard, local>>
\* playback_control_toggle_mute, and play/pause when no DACP session is there.
ToggleMute == /\ source
              /\ Begin("button", IF muted THEN <<"restore", "unmuted">> ELSE <<"pre", "silence", "muted">>, 0)
              /\ UNCHANGED <<heard, local>>
\* playback_control_set_source: Bluetooth comes and goes, and the server starts again.
SetSource == /\ Free("server") /\ Free("client") /\ ~session /\ ops < MaxOps /\ ops' = ops + 1
             /\ source' = ~source /\ muted' = FALSE
             /\ IF source' THEN /\ job' = [job EXCEPT !["server"] = [todo |-> <<"read", "q15">>, v |-> 0]]
                                /\ crossed' = (crossed \/ ~Rest)
                           ELSE UNCHANGED <<job, crossed>>
             /\ UNCHANGED <<heard, pre>>

\* One store of task t.
Do(t, store) == ~Free(t) /\ Head(job[t].todo) = store
Then(t, todo, v) == job' = [job EXCEPT ![t] = [todo |-> todo, v |-> v]]
Left(t) == Tail(job[t].todo)
After(t) == Then(t, Left(t), job[t].v)
\* settings_set_volume leaves the DAC alone when the value is the one it holds.
Check(t) == /\ Do(t, "check")
            /\ IF saved = job[t].v THEN dac' = dac /\ Then(t, Tail(Left(t)), job[t].v)
                                   ELSE dac' = job[t].v /\ After(t)
            /\ UNCHANGED <<saved, q15, last, synced, session, flash, local>>
\* airplay_take_volume_pending_sync reads its flag, then sets it.
Take(t) == /\ Do(t, "take")
           /\ Then(t, IF synced THEN <<"publish">> ELSE <<"taken", "pending">>, 0)
           /\ UNCHANGED <<heard, local>>
Store(t) ==
    LET v == job[t].v IN
    \/ /\ Do(t, "read") /\ Then(t, Left(t), saved) /\ UNCHANGED <<heard, local>>
    \/ /\ Do(t, "pending") /\ Then(t, Apply \o <<"publish">>, last) /\ UNCHANGED <<heard, local>>
    \/ /\ Do(t, "q15") /\ q15' = Q15Of(v) /\ After(t)
       /\ UNCHANGED <<saved, last, synced, dac, session, flash, local>>
    \/ /\ Do(t, "last") /\ last' = v /\ After(t)
       /\ UNCHANGED <<saved, q15, synced, dac, session, flash, local>>
    \/ /\ Do(t, "saved") /\ saved' = v /\ After(t)
       /\ UNCHANGED <<q15, last, synced, dac, session, flash, local>>
    \/ /\ \E flag \in {"flag", "taken"} : Do(t, flag) /\ synced' = (flag = "taken")
       /\ After(t) /\ UNCHANGED <<saved, q15, last, dac, session, flash, local>>
    \/ /\ Do(t, "publish") /\ session' = TRUE /\ After(t)
       /\ UNCHANGED <<saved, q15, last, synced, dac, flash, local>>
    \/ /\ Do(t, "force") /\ dac' = v /\ After(t)
       /\ UNCHANGED <<saved, q15, last, synced, session, flash, local>>
\* The stores of playback_control.c.
LocalStore ==
    LET t == "button" v == job[t].v quiet == <<saved, q15, last, synced, session, flash, source>> IN
    /\ ~Free(t) /\ After(t) /\ UNCHANGED quiet
    /\ \/ /\ Do(t, "key") /\ (IF muted THEN pre' = v /\ dac' = dac ELSE dac' = v /\ pre' = pre)
          /\ UNCHANGED muted
       \/ Do(t, "pre") /\ pre' = saved /\ UNCHANGED <<dac, muted>>
       \/ Do(t, "silence") /\ dac' = 0 /\ UNCHANGED <<muted, pre>>
       \/ Do(t, "restore") /\ dac' = pre /\ UNCHANGED <<muted, pre>>
       \/ \E flag \in {"muted", "unmuted"} : Do(t, flag) /\ muted' = (flag = "muted") /\ UNCHANGED <<dac, pre>>

Requests == \/ PhoneConnects \/ PutDacBack \/ Disconnect \/ ToggleMute \/ SetSource
            \/ \E p \in Levels : PhoneSets(p) \/ WebSets(p)
            \/ \E delta \in {Step, -Step} : Key(delta)
Working == /\ \/ \E t \in Tasks : Check(t) \/ Take(t) \/ Store(t)
              \/ LocalStore
           /\ UNCHANGED <<ops, crossed>>
VolumeNext == Requests \/ Working
VolumeSpec == VolumeInit /\ [][VolumeNext]_volumeVars
-----------------------------------------------------------------------------
\* rtsp_server.c:161-164 says the settings' copy and the Q15 copy are always the same, because every writer stores
\* both.  That is so at rest as long as no two writers overlapped, whatever mixture of phone, page, keys, reconnects
\* and restarts came before; and then the value a next client will be told is the one in force.
CachesAgree == (Rest /\ ~crossed) => q15 = Q15Of(saved) /\ (synced \/ last = saved)
\* What the comment says without the proviso.  False: the page and the phone may store their two copies in opposite
\* orders, and nothing puts them together again until the next change.
CopiesNeverDiffer == Rest => q15 = Q15Of(saved)
\* A muted device is silent.  False: a volume key (or the phone, or the page) goes through settings_set_volume, which
\* gives the DAC the new level while s_muted stays TRUE.
MutedIsSilent == (Rest /\ muted) => dac = 0
=============================================================================
