----------------------------- MODULE SqueezeAmp -----------------------------
(* The SqueezeAMP board: the TAS57xx driver (components/dac_tas57xx), whose  *)
(* chips lose their DSP flow in powerdown and run one only if it was loaded  *)
(* with the I2S clocks up, and the board's task (boards/squeezeamp/board.c)  *)
(* that silences the speakers on a fault or a headphone plug.  The driver's  *)
(* operations hold its lock, all but enable_speaker: a speaker write of the  *)
(* board's task that comes while the driver has another register page        *)
(* selected goes astray.                                                     *)
EXTENDS Naturals, Sequences, FiniteSets

CONSTANTS Dacs,         \* chips found, the mains first
          DacVolumes, Trims,    \* what the volume and the subwoofer's trim are set to
          MaxOrders     \* bound: operations, and edges of the two lines

Flows == {"none", "plain", "mixer"}   \* tas57xx_load_hf: what a chip finds on SPIFFS; a mixer is a bi-amp flow's
Sources == {"mix", "left"}   \* tas57xx_input_src_t; the right channel is as the left
DacChips == 1 .. Dacs
VARIABLES file,     \* by chip: its flow
          tas,      \* by chip: [run, muted, analog, flow, vol, mix], what its registers and RAM hold
          hasMix,   \* by chip: has_input_mix
          power,    \* s_power_state
          running, resident,   \* s_i2s_running, s_flow_resident
          lastDb, offset, src,   \* s_last_airplay_db, s_sub_offset_db, s_input_src
          busy,     \* the operation inside the lock, with its pages selected
          failed,   \* a download failed since the last power off
          faultLow, jackLow,     \* the two lines, low when active
          fault, jack, notes, at, \* speaker_fault_active, headphone_inserted, the task's bits, and where it is
          orders    \* bound
dacVars == <<file, tas, hasMix, power, running, resident, lastDb, offset, src, busy, failed>>
board == <<faultLow, jackLow, fault, jack, notes, at>>
squeezeVars == <<dacVars, board, orders>>

Parked == <<>>         \* the volume a flow's exit-shutdown tail leaves
Level(c, l, o) == <<l, IF c > 1 THEN o ELSE 0>>     \* tas57xx_apply_volume_locked: the trim is the sub's
Blank == [run |-> "standby", muted |-> TRUE, analog |-> FALSE, flow |-> FALSE, vol |-> Parked, mix |-> "reset"]
\* tas57xx_init without the clocks, then the board restores the volume and powers the chips down.
SqueezeInit ==
        /\ file \in [DacChips -> Flows]
        /\ lastDb \in DacVolumes /\ offset \in Trims /\ src \in Sources
        /\ tas = [c \in DacChips |-> [Blank EXCEPT !.run = "down", !.vol = Level(c, lastDb, offset)]]
        /\ hasMix = [c \in DacChips |-> FALSE] /\ power = "off" /\ running = FALSE /\ resident = FALSE
        /\ busy = <<>> /\ failed = FALSE
        /\ faultLow = FALSE /\ jackLow = FALSE /\ fault = FALSE /\ jack = FALSE /\ notes = {} /\ at = <<"wait">>
        /\ orders = 0

Enabled(chips, on) == [c \in DacChips |-> [chips[c] EXCEPT !.analog = on]]
\* write_cmd of a power command and a mute to every chip.
Sent(chips, run, muted) == [c \in DacChips |-> [chips[c] EXCEPT !.run = run, !.muted = muted]]

Loads(ok) == {c \in DacChips : file[c] # "none" /\ running /\ ok[c]}
Mixes(ok) == [c \in DacChips |-> IF c \in Loads(ok) THEN file[c] = "mixer" ELSE hasMix[c]]
\* (a mutant: the volume the flow parked is not put back)
ProgramParked(chips, ok) ==
    [c \in DacChips |->
        [chips[c] EXCEPT !.run = "standby", !.muted = TRUE, !.vol = IF c \in Loads(ok) THEN Parked ELSE @,
                         !.flow = IF file[c] # "none" /\ running THEN ok[c] ELSE @,
                         !.mix = IF c \notin Loads(ok) THEN @ ELSE IF file[c] = "mixer" THEN src ELSE "flow"]]
\* tas57xx_program_device downloads only with the clocks up; a download that fails leaves a chip after its module
\* reset.  tas57xx_restore_config does so for every chip and puts the volume back; the chips are parked in standby.
ProgramDevice(chips, ok) ==
    [c \in DacChips |->
        [chips[c] EXCEPT !.run = "standby", !.muted = TRUE, !.vol = Level(c, lastDb, offset),
                         !.flow = IF file[c] # "none" /\ running THEN ok[c] ELSE @,
                         !.mix = IF c \notin Loads(ok) THEN @ ELSE IF file[c] = "mixer" THEN src ELSE "flow"]]
Programmed(needed, ok) ==
    IF ~needed THEN [tas |-> tas, hasMix |-> hasMix, resident |-> resident, failed |-> failed]
    ELSE [tas |-> ProgramDevice(tas, ok), hasMix |-> Mixes(ok), resident |-> resident \/ Loads(ok) # {},
          failed |-> failed \/ (running /\ \E c \in DacChips : file[c] # "none" /\ ~ok[c])]
-----------------------------------------------------------------------------
Operation == orders < MaxOrders /\ orders' = orders + 1
\* tas57xx_set_volume and dac_tas57xx_set_sub_offset_db.
SetDacVolume(l, o) ==
    /\ Operation /\ busy = <<>> /\ (l = lastDb) # (o = offset)
    /\ lastDb' = l /\ offset' = o /\ tas' = [c \in DacChips |-> [tas[c] EXCEPT !.vol = Level(c, l, o)]]
    /\ UNCHANGED <<file, hasMix, power, running, resident, src, busy, failed, board>>
\* The operations that select pages, or wait, inside the lock: set_power_mode and on_i2s_started put the speakers off
\* first.  RTSP events set the power (board.c:175-193), the playback task starts the clocks.
Enter(op) ==
    /\ Operation /\ busy = <<>> /\ busy' = op
    /\ running' = (running \/ op[1] = "i2s") /\ src' = IF op[1] = "input" THEN op[2] ELSE src
    /\ tas' = IF op[1] = "input" \/ (op[1] = "i2s" /\ (power = "off" \/ resident)) THEN tas ELSE Enabled(tas, FALSE)
    /\ UNCHANGED <<file, hasMix, power, resident, lastDb, offset, failed, board>>
Needed == \/ busy = <<"standby">> /\ power = "off"
          \/ busy = <<"on">> /\ power # "on" /\ ~resident
          \/ busy = <<"i2s">> /\ power # "off" /\ ~resident
Leave(ok) ==
    LET p == Programmed(Needed, ok) IN
    /\ busy # <<>> /\ busy[1] \in {"standby", "on", "i2s"} /\ busy' = <<>>
    /\ hasMix' = p.hasMix /\ resident' = p.resident /\ failed' = p.failed
    /\ power' = IF busy[1] = "i2s" THEN power ELSE busy[1]
    /\ tas' = CASE busy = <<"standby">> -> Sent(p.tas, "standby", TRUE)
                  [] busy = <<"on">> \/ (Needed /\ power = "on") -> Enabled(Sent(p.tas, "active", FALSE), TRUE)
                  [] OTHER -> p.tas
    /\ UNCHANGED <<file, running, lastDb, offset, src, board, orders>>
\* Powerdown loses the RAM: the flow and its mixer.
PowerOff == /\ busy = <<"off">> /\ busy' = <<>> /\ power' = "off" /\ resident' = FALSE /\ failed' = FALSE
            /\ hasMix' = [c \in DacChips |-> FALSE]
            /\ tas' = [c \in DacChips |-> [tas[c] EXCEPT !.run = "down", !.muted = TRUE, !.flow = FALSE, !.mix = "reset"]]
            /\ UNCHANGED <<file, running, lastDb, offset, src, board, orders>>
\* dac_tas57xx_set_input_source: both banks of every recognised mixer.
WriteMix == /\ busy # <<>> /\ busy[1] = "input" /\ busy' = <<>>
            /\ tas' = [c \in DacChips |-> [tas[c] EXCEPT !.mix = IF hasMix[c] THEN src ELSE @]]
            /\ UNCHANGED <<file, hasMix, power, running, resident, lastDb, offset, src, failed, board, orders>>
-----------------------------------------------------------------------------
Astray == busy # <<>> /\ (Needed \/ (busy[1] = "input" /\ \E c \in DacChips : hasMix[c]))
\* dac_enable_speaker, which takes no lock.
Speaker(on) == tas' = IF Astray THEN tas ELSE Enabled(tas, on)
Still == UNCHANGED <<file, hasMix, power, running, resident, lastDb, offset, src, busy, failed>>
\* The interrupts: the fault's bit says the level it read, the jack's only that something changed.
FaultEdge == /\ Operation /\ faultLow' = ~faultLow /\ notes' = notes \cup {IF faultLow' THEN "fault" ELSE "clear"}
             /\ UNCHANGED <<dacVars, jackLow, fault, jack, at>>
JackEdge == /\ Operation /\ jackLow' = ~jackLow /\ notes' = notes \cup {"jack"}
            /\ UNCHANGED <<dacVars, faultLow, fault, jack, at>>
\* spkfault_task takes all the bits at once, and does the fault's first, then the clear's, then the jack's.
Wake == /\ at[1] = "wait" /\ notes # {} /\ at' = <<"fault", notes>> /\ notes' = {}
        /\ UNCHANGED <<dacVars, faultLow, jackLow, fault, jack, orders>>
DoFault == /\ at[1] = "fault" /\ at' = <<"clear", at[2]>>
           /\ IF "fault" \in at[2] /\ ~fault THEN fault' = TRUE /\ Speaker(FALSE) ELSE UNCHANGED <<fault, tas>>
           /\ UNCHANGED <<faultLow, jackLow, jack, notes, orders>> /\ Still
DoClear == /\ at[1] = "clear" /\ at' = IF "jack" \in at[2] THEN <<"jack", {}>> ELSE <<"wait">>
           /\ IF "clear" \in at[2] /\ fault
              THEN fault' = FALSE /\ (IF jack THEN tas' = tas ELSE Speaker(TRUE)) ELSE UNCHANGED <<fault, tas>>
           /\ UNCHANGED <<faultLow, jackLow, jack, notes, orders>> /\ Still
\* The jack is read again after the debounce.
DoJack == /\ at[1] = "jack" /\ at' = <<"wait">> /\ jack' = jackLow
          /\ IF jack' = jack \/ (~jack' /\ fault) THEN tas' = tas ELSE Speaker(~jack')
          /\ UNCHANGED <<faultLow, jackLow, fault, notes, orders>> /\ Still

Board == DoFault \/ DoClear \/ DoJack
SqueezeNext ==
        \/ \E l \in DacVolumes, o \in Trims : SetDacVolume(l, o)
        \/ \E op \in {<<"standby">>, <<"on">>, <<"off">>, <<"i2s">>} \cup {<<"input", s>> : s \in Sources} : Enter(op)
        \/ \E ok \in [DacChips -> BOOLEAN] : Leave(ok)
        \/ PowerOff \/ WriteMix \/ FaultEdge \/ JackEdge \/ Wake \/ Board
SqueezeSpec == SqueezeInit /\ [][SqueezeNext]_squeezeVars
-----------------------------------------------------------------------------
\* Outside the lock the chips hold what the driver was told, whatever the order of events, clocks, volumes, sources and
\* failing downloads: muted unless the power is on, at the last volume with the sub's trim, the mixer of every flow that
\* has one at the last source; and with the clocks up and the power not off each chip that has a flow runs it.
ChipsAsTold == busy = <<>> =>
    \A c \in DacChips :
        /\ tas[c].muted = (power # "on") /\ tas[c].vol = Level(c, lastDb, offset)
        /\ (tas[c].flow /\ file[c] = "mixer") => tas[c].mix = src
        /\ (running /\ power # "off" /\ file[c] # "none" /\ ~failed) => tas[c].flow
\* When its task has nothing left to do, the board knows whether a plug is in.
JackFollows == (at[1] = "wait" /\ notes = {}) => jack = jackLow
\* The same of the fault line, whose level the interrupt reads "to determine fault or clear" (board.c:88).  False: a
\* clear and a new fault before the task runs are done in the opposite order.
FaultFollows == (at[1] = "wait" /\ notes = {}) => fault = faultLow
\* "Headphone inserted - speaker off" (board.c:159).  False: the next PLAYING puts the speakers on.
PluggedIsSilent == (at[1] = "wait" /\ notes = {} /\ jack /\ busy = <<>>) => \A c \in DacChips : ~tas[c].analog
=============================================================================
