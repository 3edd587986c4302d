------------------------------- MODULE BtCoex -------------------------------
(* Bluetooth and AirPlay sharing the radio (main/bt_coex.c, the control part  *)
(* of main/audio/a2dp_sink.c, and their callbacks in main/main.c).  The coex  *)
(* task owns the state machine; the bt_app task runs the stack's callbacks    *)
(* and, for the coex task, which waits, suspend and resume.                   *)
EXTENDS Naturals, Sequences

CONSTANTS QueueLen,    \* BT_COEX_QUEUE_LEN
          MaxEvents    \* bound: what the phones do

VARIABLES
    co,    \* coex task: its state and the operation it waits for
    q,     \* the queue of the coex task
    app,   \* the queue of the bt_app task
    bt,    \* a2dp_sink's globals and the radio they control
    air,   \* the AirPlay services and session
    log    \* history: events; a play status after a Bluetooth stream; a request or event lost

vars == <<co, q, app, bt, air, log>>

Init ==
    /\ co = [st |-> "ACTIVE", wait |-> "none", res |-> "none"]
    /\ q = <<>> /\ app = <<>>
    /\ bt = [conn |-> FALSE, susp |-> FALSE, disc |-> TRUE, scan |-> TRUE, radio |-> "on", link |-> "down"]
    /\ air = [on |-> TRUE, session |-> "none"]
    /\ log = [events |-> 0, late |-> FALSE, lost |-> FALSE]

\* bt_coex_post drops what does not fit
Post(queue, es) == SubSeq(queue \o es, 1, IF Len(queue \o es) > QueueLen THEN QueueLen ELSE Len(queue \o es))
Lost(queue, es) == Len(queue \o es) > QueueLen
\* Mutant: the scan mode forgets what was asked for meanwhile.
RestoredVisible(b) == [b EXCEPT !.radio = "on", !.scan = TRUE, !.susp = FALSE]
\* bt_apply_scan_mode, after bt_register_profiles
Restored(b) == [b EXCEPT !.radio = "on", !.scan = b.disc, !.susp = FALSE]
\* bt_a2dp_sink_set_discoverable: only remembered while connected or suspended
Discoverable(b, d) == IF b.conn \/ b.susp THEN [b EXCEPT !.disc = d] ELSE [b EXCEPT !.disc = d, !.scan = d]

-----------------------------------------------------------------------------
(* The two phones.                                                           *)

\* on_airplay_client_event: the name of the event posted, if any
ClientEvent(e) ==
    IF bt.conn THEN UNCHANGED <<q, bt>>
    ELSE /\ q' = Post(q, <<e>>)
         /\ bt' = IF e = "AIRPLAY_CONNECTED" THEN Discoverable(bt, FALSE)
                  ELSE IF e = "AIRPLAY_DISCONNECTED" THEN Discoverable(bt, TRUE) ELSE bt

AirPlay(to, e) ==
    /\ air.on /\ log.events < MaxEvents
    /\ air' = [air EXCEPT !.session = to]
    /\ ClientEvent(e)
    /\ log' = [log EXCEPT !.events = @ + 1, !.lost = @ \/ Lost(q, <<e>>)]
    /\ UNCHANGED <<co, app>>
AirPlayConnects == air.session = "none" /\ AirPlay("quiet", "AIRPLAY_CONNECTED")
AirPlayPlays == air.session = "quiet" /\ AirPlay("playing", "AIRPLAY_PLAYING")
AirPlayPauses == air.session = "playing" /\ AirPlay("quiet", "AIRPLAY_PAUSED")
AirPlayLeaves == air.session # "none" /\ AirPlay("none", "AIRPLAY_DISCONNECTED")

\* the stack's callbacks are handed to the bt_app task (bt_app_work_dispatch)
Phone(to, e) ==
    /\ log.events < MaxEvents
    /\ bt' = [bt EXCEPT !.link = to]
    /\ app' = Append(app, e)
    /\ log' = [log EXCEPT !.events = @ + 1, !.late = @ \/ (e # "conn" /\ e # "disc" /\ to # "up")]
    /\ UNCHANGED <<co, q, air>>
PhoneConnects == bt.link = "down" /\ bt.scan /\ bt.radio = "on" /\ Phone("up", "conn")
\* the audio stream ends first; the remote control may outlive it
PhoneStreamEnds == bt.link = "up" /\ Phone("control", "disc")
PhonePlays == bt.link \in {"up", "control"} /\ Phone(bt.link, "play")
PhonePauses == bt.link \in {"up", "control"} /\ Phone(bt.link, "pause")
PhoneGoes == bt.link = "control" /\ bt' = [bt EXCEPT !.link = "down"] /\ UNCHANGED <<co, q, app, air, log>>

-----------------------------------------------------------------------------
(* bt_app_task.                                                              *)

Take(e) == app # <<>> /\ Head(app) = e /\ app' = Tail(app)

\* A2DP connected: AirPlay and the local players stop, the writer starts, and
\* no other phone may connect
AppConnected ==
    /\ Take("conn")
    /\ bt' = [bt EXCEPT !.conn = TRUE, !.scan = FALSE]
    /\ air' = [on |-> FALSE, session |-> "none"]
    /\ q' = Post(q, <<"BT_CONNECTED">>)
    /\ log' = [log EXCEPT !.lost = @ \/ Lost(q, <<"BT_CONNECTED">>)]
    /\ UNCHANGED co

\* A2DP disconnected: the event for the display reaches on_airplay_client_event,
\* then the AirPlay services come back
\* Mutant: the flag is cleared after the listeners have been told.
AppDisconnectedLate ==
    /\ Take("disc")
    /\ bt' = [bt EXCEPT !.conn = FALSE]
    /\ q' = Post(q, <<"BT_DISCONNECTED">>)
    /\ air' = [air EXCEPT !.on = TRUE]
    /\ UNCHANGED <<co, log>>
AppDisconnected ==
    /\ Take("disc")
    /\ bt' = Discoverable([bt EXCEPT !.conn = FALSE], TRUE)
    /\ q' = Post(q, <<"AIRPLAY_DISCONNECTED", "BT_DISCONNECTED">>)
    /\ air' = [air EXCEPT !.on = TRUE]
    /\ log' = [log EXCEPT !.lost = @ \/ Lost(q, <<1, 2>>)]
    /\ UNCHANGED co

\* AVRCP play status: the same events an AirPlay session raises
AppPlayStatus(e) ==
    /\ Take(e)
    /\ ClientEvent(IF e = "play" THEN "AIRPLAY_PLAYING" ELSE "AIRPLAY_PAUSED")
    /\ log' = [log EXCEPT !.lost = @ \/ Lost(q, <<e>>)]
    /\ UNCHANGED <<co, air>>

\* bt_suspend_locked: how far it gets
AppSuspend(how) ==
    /\ Take("suspend")
    /\ IF bt.susp THEN how = "ok" /\ bt' = bt /\ co' = [co EXCEPT !.res = "ok"]
       ELSE IF bt.conn THEN how = "ok" /\ bt' = bt /\ co' = [co EXCEPT !.res = "refused"]
       ELSE \/ /\ how = "ok"
               /\ bt' = [bt EXCEPT !.susp = TRUE, !.radio = "off", !.scan = FALSE, !.link = "down"]
               /\ co' = [co EXCEPT !.res = "ok"]
            \/ how = "failed" /\ bt' = [Restored(bt) EXCEPT !.link = "down"] /\ co' = [co EXCEPT !.res = "failed"]
            \/ /\ how = "dead"
               /\ bt' = [bt EXCEPT !.radio = "dead", !.scan = FALSE, !.link = "down"]
               /\ co' = [co EXCEPT !.res = "failed"]
    /\ UNCHANGED <<q, air, log>>

\* bt_resume_locked
AppResume(ok) ==
    /\ Take("resume")
    /\ IF ~bt.susp THEN ok /\ bt' = bt ELSE bt' = IF ok THEN Restored(bt) ELSE bt
    /\ co' = [co EXCEPT !.res = IF ok THEN "ok" ELSE "failed"]
    /\ UNCHANGED <<q, air, log>>

-----------------------------------------------------------------------------
(* bt_coex_task.                                                             *)

\* bt_run_on_app_task: the operation is queued, or the dispatch fails at once
Request(fn, sent) ==
    /\ co' = [co EXCEPT !.wait = fn, !.res = IF sent THEN "none" ELSE "failed"]
    /\ app' = IF sent THEN Append(app, fn) ELSE app
    /\ log' = [log EXCEPT !.lost = @ \/ ~sent]
Stay(st) == co' = [co EXCEPT !.st = st] /\ UNCHANGED <<app, log>>

\* coex_on_event
CoexEvent(sent) ==
    /\ co.wait = "none" /\ q # <<>>
    /\ q' = Tail(q)
    /\ LET e == Head(q)
       IN CASE e = "AIRPLAY_PLAYING" ->
                 IF co.st = "SUSPENDED" THEN sent /\ Stay("SUSPENDED") ELSE Request("suspend", sent)
            [] e \in {"AIRPLAY_CONNECTED", "AIRPLAY_PAUSED"} ->
                 sent /\ Stay(IF co.st = "RESUME_WAIT" THEN "SUSPENDED" ELSE co.st)
            [] e = "AIRPLAY_DISCONNECTED" ->
                 sent /\ Stay(IF co.st \in {"SUSPENDED", "RESUME_WAIT"} THEN "RESUME_WAIT" ELSE "ACTIVE")
            [] e \in {"BT_CONNECTED", "BT_DISCONNECTED"} ->
                 IF bt.susp THEN Request("resume", sent) ELSE sent /\ Stay("ACTIVE")
    /\ UNCHANGED <<bt, air>>

\* coex_on_timeout: the retry, or the idle delay after a session, has run out
CoexTimeout(sent) ==
    /\ co.wait = "none" /\ q = <<>>
    /\ \/ co.st = "SUSPEND_RETRY" /\ Request("suspend", sent)
       \/ co.st = "RESUME_WAIT" /\ Request("resume", sent)
    /\ UNCHANGED <<q, bt, air>>

\* coex_do_suspend and coex_do_resume: the answer decides the next state
\* Mutant: a failed suspend is taken for a refused one.
AnswerNoRetry ==
    IF co.wait = "suspend" THEN IF co.res = "ok" THEN "SUSPENDED" ELSE "ACTIVE"
    ELSE IF co.res = "ok" THEN "ACTIVE" ELSE "SUSPENDED"
Answer ==
    IF co.wait = "suspend"
    THEN CASE co.res = "ok" -> "SUSPENDED" [] co.res = "refused" -> "ACTIVE" [] co.res = "failed" -> "SUSPEND_RETRY"
    ELSE IF co.res = "ok" THEN "ACTIVE" ELSE "RESUME_WAIT"
CoexAnswer ==
    /\ co.wait # "none" /\ co.res # "none"
    /\ co' = [st |-> Answer, wait |-> "none", res |-> "none"]
    /\ UNCHANGED <<q, app, bt, air, log>>

App == \/ AppConnected \/ AppDisconnected
       \/ \E e \in {"play", "pause"} : AppPlayStatus(e)
       \/ \E how \in {"ok", "failed", "dead"} : AppSuspend(how)
       \/ \E ok \in BOOLEAN : AppResume(ok)
Coex == \E sent \in BOOLEAN : CoexEvent(sent) \/ CoexTimeout(sent)
Next == \/ AirPlayConnects \/ AirPlayPlays \/ AirPlayPauses \/ AirPlayLeaves
        \/ PhoneConnects \/ PhoneStreamEnds \/ PhonePlays \/ PhonePauses \/ PhoneGoes
        \/ App \/ Coex \/ CoexAnswer

\* Both tasks run, the timers expire, and a resume tried for ever succeeds once.
Fairness == WF_vars(App) /\ WF_vars(Coex) /\ WF_vars(CoexAnswer)
            /\ SF_vars(AppResume(TRUE)) /\ SF_vars(CoexTimeout(TRUE))
Spec == Init /\ [][Next]_vars /\ Fairness

-----------------------------------------------------------------------------
(* Properties.                                                               *)

Settled == q = <<>> /\ app = <<>> /\ co.wait = "none"

\* What the coex task believes of the radio is what the sink has done with it,
\* also when a connection overtakes a suspend ("so the state never desyncs").
InSync == Settled /\ ~log.lost => (bt.susp <=> co.st \in {"SUSPENDED", "RESUME_WAIT"})

\* The comment in coex_on_event: "In ACTIVE and SUSPEND_RETRY the radio is up".
RetryMeansUp == Settled /\ co.st \in {"ACTIVE", "SUSPEND_RETRY"} => ~bt.susp

\* A phone that plays over AirPlay cannot be lured to Bluetooth: nothing makes
\* the device connectable during a session.
HiddenInSession == Settled /\ air.session # "none" => ~bt.scan

\* The end of the last AirPlay session brings Bluetooth back, whatever failed or
\* was overtaken, unless the radio could not be rolled back.
BluetoothReturns ==
    (<>[](air.session = "none") /\ [](~log.late /\ ~log.lost)) => <>[](bt.radio # "off" /\ (bt.scan \/ bt.conn \/ bt.radio = "dead"))
=============================================================================
