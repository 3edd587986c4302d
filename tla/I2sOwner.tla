------------------------------ MODULE I2sOwner ------------------------------
(* Who writes the I2S channel (main/main.c hooks and services, the start, stop *)
(* and write of main/audio/audio_output.c, main/audio/a2dp_sink.c).  AirPlay's *)
(* playback task, the play tasks of the radio and the SD player and the        *)
(* Bluetooth writer share one channel; each caller runs a program of steps,    *)
(* interleaved with the others', and s_airplay_owns_i2s is the only note of    *)
(* whose turn it is.                                                           *)
EXTENDS Naturals, Sequences

CONSTANTS MaxOps      \* bound: operations started

Players == {"radio", "sd"}
Other(p) == IF p = "radio" THEN "sd" ELSE "radio"
Callers == {"web", "rtsp", "bt", "net"}

VARIABLES
    out,      \* audio_output: playback task, playback_running, I2S rate
    owns,     \* s_airplay_owns_i2s
    started,  \* s_airplay_started
    pl,       \* each player: is_active() and whether its play task lives
    bt,       \* Bluetooth: connected, writer task alive
    todo,     \* the steps each caller has left
    calls     \* history: operations; clean: so far no overlapped call, no call
              \* but its own while Bluetooth is connected, no stop that timed out
              \* and no failed download; AirPlay in session

ownerVars == <<out, owns, started, pl, bt, todo, calls>>

Rest == \A c \in Callers : todo[c] = <<>>
Handle == out.task # "none"
Playing(p) == pl[p].task

OwnerInit ==
    /\ out = [task |-> "run", running |-> TRUE, rate |-> "base"]
    /\ owns = TRUE /\ started = TRUE
    /\ pl = [p \in Players |-> [active |-> FALSE, task |-> FALSE, rated |-> FALSE]]
    /\ bt = [on |-> FALSE, writer |-> FALSE]
    /\ todo = [c \in Callers |-> <<>>]
    /\ calls = [ops |-> 0, clean |-> TRUE, session |-> FALSE]

Do(op, p) == [op |-> op, p |-> p]
Resume == <<Do("check", ""), Do("rate", ""), Do("start", "")>>
\* audio_hook_yield_all: each player is stopped, then hands the channel back
\* Mutant: the channel is not handed back.
YieldAllSilently == <<Do("stop", "radio"), Do("stop", "sd")>>
YieldAll == <<Do("stop", "radio")>> \o Resume \o <<Do("stop", "sd")>> \o Resume
\* the web handlers stop the other player, then play: stop, claim, take, go
PlayOf(p) == <<Do("stop", Other(p)), Do("restop", p), Do("claim", p), Do("take", ""), Do("go", p)>>
StopOf(p) == <<Do("stop", p)>> \o Resume
\* on_bt_state_changed: services and players stop, the rate is restored
BtUp == <<Do("services", "off"), Do("stop", "radio"), Do("stop", "sd"), Do("btrate", ""), Do("btgo", "")>>
BtDown == <<Do("btend", ""), Do("services", "on")>>

\* an operation that starts while another is under way is remembered
BeginCall(c, prog, session) ==
    /\ todo[c] = <<>> /\ calls.ops < MaxOps
    /\ todo' = [todo EXCEPT ![c] = prog]
    /\ calls' = [calls EXCEPT !.ops = @ + 1, !.clean = @ /\ Rest /\ (bt.on => c = "bt"), !.session = session]
    /\ UNCHANGED <<out, owns, started, pl>>

WebPlay(p) == BeginCall("web", PlayOf(p), FALSE) /\ UNCHANGED bt
WebStop(p) == BeginCall("web", StopOf(p), calls.session) /\ UNCHANGED bt
\* ANNOUNCE, RECORD and SETUP each make the players yield
RtspYield == started /\ BeginCall("rtsp", YieldAll, TRUE) /\ UNCHANGED bt
BtConnect == ~bt.on /\ BeginCall("bt", BtUp, FALSE) /\ bt' = [bt EXCEPT !.on = TRUE]
BtDisconnect == bt.on /\ BeginCall("bt", BtDown, FALSE) /\ bt' = [bt EXCEPT !.on = FALSE]
\* network_monitor_task: a network that comes back starts the services again
NetworkUp == BeginCall("net", <<Do("services", "on")>>, calls.session) /\ UNCHANGED bt

-----------------------------------------------------------------------------
(* The steps of a caller's program.                                          *)

At(c, op) == todo[c] # <<>> /\ Head(todo[c]).op = op
Arg(c) == Head(todo[c]).p
Done(c) == todo' = [todo EXCEPT ![c] = Tail(@)]
\* a stop that timed out: a yield skips its resume, a play gives up
GiveUp(c) ==
    todo' = [todo EXCEPT ![c] = IF Head(@).op = "restop" THEN <<>>
                                ELSE IF Len(@) > 1 /\ @[2].op = "check" THEN SubSeq(@, 5, Len(@))
                                ELSE Tail(@)]

\* *_stop: the task is gone and the state is idle, or the wait ran out
StepStop(c) ==
    /\ At(c, "stop") \/ At(c, "restop")
    /\ ~pl[Arg(c)].task
    /\ pl' = [pl EXCEPT ![Arg(c)].active = FALSE]
    /\ Done(c)
    /\ UNCHANGED <<out, owns, started, bt, calls>>

StepStopTimeout(c) ==
    /\ At(c, "stop") \/ At(c, "restop")
    /\ pl[Arg(c)].task
    /\ GiveUp(c)
    /\ calls' = [calls EXCEPT !.clean = FALSE]
    /\ UNCHANGED <<out, owns, started, pl, bt>>

\* audio_hook_resume_airplay: not while a player is active, and only once
StepCheck(c) ==
    /\ At(c, "check")
    /\ IF owns \/ \E p \in Players : pl[p].active
       THEN todo' = [todo EXCEPT ![c] = SubSeq(@, 4, Len(@))] /\ owns' = owns
       ELSE Done(c) /\ owns' = TRUE
    /\ UNCHANGED <<out, started, pl, bt, calls>>

\* Mutant: the rate of the last song is kept.
StepRateKept(c) == At(c, "rate") /\ Done(c) /\ UNCHANGED <<out, owns, started, pl, bt, calls>>
\* audio_output_set_sample_rate
StepRate(c) ==
    /\ At(c, "rate")
    /\ out' = [out EXCEPT !.rate = "base"]
    /\ Done(c)
    /\ UNCHANGED <<owns, started, pl, bt, calls>>

\* audio_output_start: nothing when the task's handle is still there
Started(o) == IF o.task = "none" THEN [o EXCEPT !.task = "run", !.running = TRUE] ELSE o
StepStart(c) ==
    /\ At(c, "start")
    /\ out' = Started(out)
    /\ Done(c)
    /\ UNCHANGED <<owns, started, pl, bt, calls>>

\* the player's state turns active before the channel is taken
StepClaim(c) ==
    /\ At(c, "claim")
    /\ pl' = [pl EXCEPT ![Arg(c)].active = TRUE]
    /\ Done(c)
    /\ UNCHANGED <<out, owns, started, bt, calls>>

\* audio_output_stop: running is cleared and the task waited for; the playback
\* loop is milliseconds long, so its two-second limit is not reached
StopOutput(c) ==
    /\ At(c, "take") \/ (At(c, "services") /\ Arg(c) = "off" /\ started)
    /\ Handle /\ out.running
    /\ out' = [out EXCEPT !.running = FALSE]
    /\ UNCHANGED <<owns, started, pl, bt, todo, calls>>

\* Mutant: the owner is not changed.
StepTakeKeepingOwner(c) == At(c, "take") /\ ~Handle /\ Done(c) /\ UNCHANGED <<out, owns, started, pl, bt, calls>>
\* audio_hook_output_stop
StepTake(c) ==
    /\ At(c, "take") /\ ~Handle
    /\ owns' = FALSE
    /\ Done(c)
    /\ UNCHANGED <<out, started, pl, bt, calls>>

StepGo(c) ==
    /\ At(c, "go")
    /\ pl' = [pl EXCEPT ![Arg(c)].task = TRUE, ![Arg(c)].rated = FALSE]
    /\ Done(c)
    /\ UNCHANGED <<out, owns, started, bt, calls>>

\* stop_airplay_services
StepServicesOff(c) ==
    /\ At(c, "services") /\ Arg(c) = "off" /\ (~started \/ ~Handle)
    /\ started' = FALSE
    /\ Done(c)
    /\ UNCHANGED <<out, owns, pl, bt, calls>>

\* start_airplay_services
StepServicesOn(c) ==
    /\ At(c, "services") /\ Arg(c) = "on"
    /\ IF started THEN UNCHANGED <<out, started>> ELSE out' = Started(out) /\ started' = TRUE
    /\ Done(c)
    /\ UNCHANGED <<owns, pl, bt, calls>>

\* bt_release_i2s_from_local_sources, after its stops
StepBtRate(c) ==
    /\ At(c, "btrate")
    /\ IF Handle THEN UNCHANGED <<out, owns>> ELSE out' = [out EXCEPT !.rate = "base"] /\ owns' = FALSE
    /\ Done(c)
    /\ UNCHANGED <<started, pl, bt, calls>>

\* i2s_task_start
StepBtGo(c) ==
    /\ At(c, "btgo")
    /\ bt' = [bt EXCEPT !.writer = TRUE]
    /\ Done(c)
    /\ UNCHANGED <<out, owns, started, pl, calls>>

\* i2s_task_stop: the writer is gone and the rate is put back
StepBtEnd(c) ==
    /\ At(c, "btend")
    /\ bt' = [bt EXCEPT !.writer = FALSE]
    /\ out' = [out EXCEPT !.rate = "base"]
    /\ Done(c)
    /\ UNCHANGED <<owns, started, pl, calls>>

-----------------------------------------------------------------------------
(* The tasks.                                                                *)

\* playback_task leaves its loop and clears its handle
PlaybackExit ==
    /\ Handle /\ ~out.running
    /\ out' = [out EXCEPT !.task = "none"]
    /\ UNCHANGED <<owns, started, pl, bt, todo, calls>>

\* a play task knows its format: the I2S rate follows, unless AirPlay is writing
PlayerRate(p) ==
    /\ Playing(p) /\ ~pl[p].rated
    /\ pl' = [pl EXCEPT ![p].rated = TRUE]
    /\ out' = IF Handle THEN out ELSE [out EXCEPT !.rate = "song"]
    /\ UNCHANGED <<owns, started, bt, todo, calls>>

\* the radio's download fails: the state is error, no longer active, while the
\* play task still plays what is buffered
RadioBroken ==
    /\ Playing("radio") /\ pl["radio"].active
    /\ pl' = [pl EXCEPT !["radio"].active = FALSE]
    /\ calls' = [calls EXCEPT !.clean = FALSE]
    /\ UNCHANGED <<out, owns, started, bt, todo>>

\* the songs are over, or the player was told to stop
PlayerExit(p, idle) ==
    /\ Playing(p)
    /\ pl' = [pl EXCEPT ![p].task = FALSE, ![p].active = @ /\ ~idle]
    /\ UNCHANGED <<out, owns, started, bt, todo, calls>>

Step(c) == \/ StepStop(c) \/ StepStopTimeout(c) \/ StepCheck(c) \/ StepRate(c) \/ StepStart(c)
           \/ StepClaim(c) \/ StopOutput(c) \/ StepTake(c) \/ StepGo(c) \/ StepServicesOff(c)
           \/ StepServicesOn(c) \/ StepBtRate(c) \/ StepBtGo(c) \/ StepBtEnd(c)
OwnerNext ==
        \/ \E p \in Players : WebPlay(p) \/ WebStop(p) \/ PlayerRate(p)
        \/ \E p \in Players, idle \in BOOLEAN : PlayerExit(p, idle)
        \/ RadioBroken \/ RtspYield \/ BtConnect \/ BtDisconnect \/ NetworkUp \/ PlaybackExit
        \/ \E c \in Callers : Step(c)
OwnerSpec == OwnerInit /\ [][OwnerNext]_ownerVars

-----------------------------------------------------------------------------
(* Properties.                                                               *)

\* As long as the history is clean, an AirPlay session
\* that has begun and has not been taken over has its playback task.
HandBack == calls.clean /\ calls.session /\ Rest => out.task = "run" /\ out.running

\* The flag says AirPlay only when its playback task is there: resume trusts it.
OwnerPlays == calls.clean /\ Rest /\ owns /\ started => Handle

\* AirPlay's task never plays at the rate of the last song.
PitchRight == calls.clean /\ Rest /\ Handle => out.rate = "base"

\* What the callers, who know each other only by the flag, owe each other.
SourcesShare == HandBack /\ OwnerPlays /\ PitchRight

\* The comment of audio_output_set_sample_rate: "Only safe to call when no writer
\* task is actively using I2S".
QuietRate ==
    [][\A c \in Callers : StepRate(c) /\ calls.clean => ~Handle /\ ~bt.writer /\ \A p \in Players : ~pl[p].task]_ownerVars
=============================================================================
