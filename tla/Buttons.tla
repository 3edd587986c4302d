------------------------------ MODULE Buttons ------------------------------
(* The buttons of main/buttons.c: a GPIO edge restarts the debounce timer,   *)
(* and the timer daemon's callbacks (debounce, repeat, double-click window,  *)
(* long press) turn settled levels into actions for the action task.  Two    *)
(* buttons: play/pause, which clicks, and volume, which repeats.             *)
EXTENDS Naturals, Sequences

CONSTANTS QueueLen,   \* ACTION_QUEUE_LEN
          MaxEdges    \* bound: edges of the two GPIOs

Buttons == {"play", "volume"}
VARIABLES level,     \* by button: the GPIO is low
          pressed,   \* the debounced state
          timers,    \* the timers that run: <<button, "debounce" | "repeat" | "click" | "long">>
          count,     \* click_count of play/pause
          queue,     \* s_action_queue
          off,       \* the board has powered off
          edges      \* bound
vars == <<level, pressed, timers, count, queue, off, edges>>

Init == /\ level = [b \in Buttons |-> FALSE] /\ pressed = level /\ timers = {} /\ count = 0
        /\ queue = <<>> /\ off = FALSE /\ edges = 0

\* gpio_isr_handler.
Edge(b) == /\ ~off /\ edges < MaxEdges /\ edges' = edges + 1
           /\ level' = [level EXCEPT ![b] = ~@]
           /\ timers' = timers \cup {<<b, "debounce">>}
           /\ UNCHANGED <<pressed, count, queue, off>>

\* Any running timer may expire next; LongPress and Click keep the order their periods give them.
Expires(b, t) == ~off /\ <<b, t>> \in timers
\* post_button_action drops the action when the queue is full.
Post(action) == queue' = IF Len(queue) < QueueLen THEN Append(queue, action) ELSE queue

\* debounce_timer_cb, the level settled as it was: nothing.
Bounce(b) == /\ Expires(b, "debounce") /\ level[b] = pressed[b]
             /\ timers' = timers \ {<<b, "debounce">>}
             /\ UNCHANGED <<level, pressed, count, queue, off, edges>>
\* ... pressed: the click is counted and the window starts again; volume acts at once and starts its repeat.
Press(b) ==
    /\ Expires(b, "debounce") /\ level[b] /\ ~pressed[b]
    /\ pressed' = [pressed EXCEPT ![b] = TRUE]
    /\ IF b = "play"
       THEN /\ count' = count + 1 /\ queue' = queue
            /\ timers' = (timers \ {<<b, "debounce">>}) \cup {<<b, "click">>, <<b, "long">>}
       ELSE /\ Post("volume") /\ count' = count
            /\ timers' = (timers \ {<<b, "debounce">>}) \cup {<<b, "repeat">>}
    /\ UNCHANGED <<level, off, edges>>
\* (a mutant: the release does not look whether the window is still open)
ReleaseAtOnce(b) ==
    /\ Expires(b, "debounce") /\ ~level[b] /\ pressed[b]
    /\ pressed' = [pressed EXCEPT ![b] = FALSE]
    /\ timers' = timers \ {<<b, "debounce">>, <<b, "repeat">>, <<b, "long">>}
    /\ UNCHANGED <<level, off, edges, count, queue>>
\* ... released: repeat and long press stop; a click whose window ended during the hold plays now.
Release(b) ==
    /\ Expires(b, "debounce") /\ ~level[b] /\ pressed[b]
    /\ pressed' = [pressed EXCEPT ![b] = FALSE]
    /\ timers' = timers \ {<<b, "debounce">>, <<b, "repeat">>, <<b, "long">>}
    /\ IF b = "play" /\ count = 1 /\ <<b, "click">> \notin timers
       THEN count' = 0 /\ Post("play") ELSE UNCHANGED <<count, queue>>
    /\ UNCHANGED <<level, off, edges>>
\* repeat_timer_cb.
Repeat == /\ Expires("volume", "repeat")
          /\ IF pressed["volume"] THEN Post("volume") /\ timers' = timers
             ELSE queue' = queue /\ timers' = timers \ {<<"volume", "repeat">>}
          /\ UNCHANGED <<level, pressed, count, off, edges>>
\* click_timer_cb: two presses or more cycle the channels, one plays unless it is still held.
Click == /\ Expires("play", "click") /\ timers' = timers \ {<<"play", "click">>}
         /\ IF count >= 2 THEN count' = 0 /\ Post("channel")
            ELSE IF count = 1 /\ ~pressed["play"] THEN count' = 0 /\ Post("play")
            ELSE UNCHANGED <<count, queue>>
         /\ UNCHANGED <<level, pressed, off, edges>>
\* long_press_timer_cb: the click is cancelled and the board powered off; the window, shorter, ended before.
LongPress == /\ Expires("play", "long") /\ <<"play", "click">> \notin timers
             /\ timers' = timers \ {<<"play", "long">>} /\ count' = 0 /\ off' = TRUE
             /\ UNCHANGED <<level, pressed, queue, edges>>
\* button_action_task takes the next action to playback_control.c.
Act == ~off /\ queue # <<>> /\ queue' = Tail(queue) /\ UNCHANGED <<level, pressed, timers, count, off, edges>>

Timer == LongPress \/ Click \/ Repeat \/ \E b \in Buttons : Bounce(b) \/ Press(b) \/ Release(b)
Next == (\E b \in Buttons : Edge(b)) \/ Timer \/ Act
\* Each running timer expires: the daemon task serves every one of them.
Fairness == /\ \A b \in Buttons : WF_vars(Bounce(b) \/ Press(b) \/ Release(b))
            /\ WF_vars(Click) /\ WF_vars(LongPress) /\ WF_vars(Act)
Spec == Init /\ [][Next]_vars /\ Fairness
-----------------------------------------------------------------------------
\* Every press of play/pause that was counted is answered, by an action or by the power off: whatever the bouncing, the
\* order in which the window and the release are served, and however long the button is held, no click is left counted
\* to turn a later single click into a channel change.
EveryPressAnswered == count > 0 ~> count = 0 \/ off
\* A volume button that has settled released does not repeat.
NoGhostRepeat == ~pressed["volume"] => <<"volume", "repeat">> \notin timers
=============================================================================
