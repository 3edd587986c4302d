------------------------------ MODULE Amplifier ------------------------------
(***************************************************************************)
(* One or two TAS5825M amplifier chips, the driver that keeps a shadow of  *)
(* their settings in RAM, the settings saved in flash, the web requests    *)
(* that change all three, the restore at boot, and the player's events     *)
(* that put the chips to sleep and wake them.                              *)
(* dac_tas58xx.c, settings.c, web_server.c, main.c and the Esparagus       *)
(* board.  A chain is the program of a channel's 15 biquads: its crossover *)
(* filter, the corner and the gains of its equaliser bands.                *)
(***************************************************************************)
EXTENDS Integers, Sequences

CONSTANTS
  Devs,            \* chips on the bus, 1 or 2
  Corners,         \* sub crossover corners asked for, 0 = off
  BiampCorners,    \* bi-amp corners, the first one the default
  Gains,           \* equaliser curves, 0 = flat
  Offsets,         \* sub offsets, dB
  Volumes,         \* AirPlay volumes, -30..0
  MaxVolume,       \* CONFIG_TAS58XX_MAX_VOLUME, dB
  BiampSupported,  \* TAS58XX_BIAMP_SUPPORTED
  MaxChanges       \* bound on requests, events, volume changes and power cuts

(* One chip or two; -1 is the mark of a curve never saved.                 *)
ASSUME AmplifierAssumption == Devs \in {1, 2} /\ -1 \notin Gains

VARIABLES
  nv,    \* the saved settings; eq = -1: never saved
  drv,   \* the driver's statics
  chip,  \* registers and coefficients of each chip
  http,  \* what is left of the web request being served
  rt,    \* the player's event task: restoring the saved curve
  lost,  \* a save failed, or a curve was saved while an older one was restored
  changes

ampVars == <<nv, drv, chip, http, rt, lost, changes>>
Chips == 1..Devs
Ways == {"low", "high"}
NoRestore == [at |-> "idle", g |-> 0]
FlatGains == [w \in Ways |-> 0]
DefaultCorner == CHOOSE c \in BiampCorners : \A d \in BiampCorners : c <= d
Defaults == [off |-> 0, subXo |-> 0, subEq |-> FlatGains, dual |-> "sub",
             baXo |-> DefaultCorner, baSwap |-> FALSE,
             baEq |-> [d \in {1, 2} |-> FlatGains], eq |-> -1]

-----------------------------------------------------------------------------
(* What a chip is told. *)

Flat == [x |-> "none", at |-> 0, g |-> 0]
Way(w, hz, gains) == [x |-> w, at |-> hz, g |-> gains[w]]
Junk == [x |-> "junk", at |-> 0, g |-> 0]

Biamp(dv) == Devs > 1 /\ dv.active = "biamp"
Pbtl(dv, d) == Devs > 1 /\ dv.active = "sub" /\ d = 2
Mix(dv, d) == IF Devs = 1 THEN "stereo"
              ELSE IF dv.active = "biamp" THEN <<"left", "right">>[d]
              ELSE <<"stereo", "mono">>[d]
SatelliteActive(dv) == dv.subXo > 0 /\ \E d \in Chips : Pbtl(dv, d)
OwnsChain(dv) == SatelliteActive(dv) \/ Biamp(dv)

(* Coefficient writes need the chip's defaults switched off; the first     *)
(* time, the whole signal path is written first.                           *)
SignalPathDefaults(c) ==
  [c EXCEPT !.dspw = TRUE, !.left = Flat, !.right = Flat, !.mix = "stereo"]
Custom(c) ==
  IF c.custom THEN c
  ELSE [(IF c.dspw THEN c ELSE SignalPathDefaults(c)) EXCEPT !.custom = TRUE]

Program(c, l, r) == [Custom(c) EXCEPT !.left = l, !.right = r]

ApplyMix(dv, c, d) ==
  IF Mix(dv, d) = "stereo" THEN c ELSE [Custom(c) EXCEPT !.mix = Mix(dv, d)]

SubChain(dv) == IF dv.subXo > 0 THEN Way("low", dv.subXo, dv.subEq) ELSE Flat
SatChain(dv) == IF SatelliteActive(dv) THEN Way("high", dv.subXo, dv.subEq)
                ELSE [Flat EXCEPT !.g = dv.eq]

ApplySub(dv, c) == Program(c, SubChain(dv), SubChain(dv))
ApplySatellite(dv, c) == Program(c, SatChain(dv), SatChain(dv))

ApplyBiamp(dv, c, d) ==
  LET low == Way("low", dv.baXo, dv.baEq[d])
      high == Way("high", dv.baXo, dv.baEq[d])
  IN  IF dv.baSwap THEN Program(c, high, low) ELSE Program(c, low, high)

ApplyXover(dv, c, d) ==
  IF Pbtl(dv, d) THEN ApplySub(dv, c) ELSE ApplySatellite(dv, c)

(* tenths of a dB; the C cast truncates towards zero *)
MapVolume(v) ==
  LET db == IF v >= -25 THEN 10 * (MaxVolume + 2 * v)
            ELSE -1030 + 2 * (v + 30) * (53 + MaxVolume)
  IN  IF db > 240 THEN 240 ELSE IF db < -1030 THEN -1030 ELSE db
DbToReg(db) ==
  LET top == IF db > 240 THEN 240 ELSE db
      raw == IF top >= 0 THEN 48 - top \div 5 ELSE 48 + (-top) \div 5
  IN  IF db <= -1030 THEN 255
      ELSE IF raw < 0 THEN 0 ELSE IF raw > 254 THEN 254 ELSE raw
VolReg(dv, d) ==
  DbToReg(MapVolume(dv.vol) + (IF Pbtl(dv, d) THEN 10 * dv.off ELSE 0))
ApplyVolume(dv, cs) == [d \in Chips |-> [cs[d] EXCEPT !.vol = VolReg(dv, d)]]

-----------------------------------------------------------------------------
(* Power modes.  Leaving deep sleep, the hardware keeps its registers or   *)
(* loses them all.                                                         *)

Kept(c) == c
Reverted(c) == [c EXCEPT !.custom = FALSE, !.left = Junk, !.right = Junk,
                         !.mix = "junk", !.bridge = FALSE, !.vol = 48,
                         !.regs = FALSE]
Wakes(c) == IF c.power = "off" THEN {Kept(c), Reverted(c)} ELSE {c}

PowerOnHasty(dv, c, was, d) ==
  [c EXCEPT !.regs = @ \/ was = "off", !.bridge = @ \/ Pbtl(dv, d),
            !.vol = VolReg(dv, d), !.power = "play"]

PowerOn(dv, c, was, d) ==
  LET a == IF was = "off"
           THEN [c EXCEPT !.regs = TRUE, !.custom = FALSE, !.dspw = FALSE]
           ELSE c
      b == [a EXCEPT !.bridge = @ \/ Pbtl(dv, d), !.vol = VolReg(dv, d),
                     !.power = "play"]
      m == ApplyMix(dv, b, d)
  IN  IF Biamp(dv) THEN ApplyBiamp(dv, m, d) ELSE ApplyXover(dv, m, d)

Standby(c) == [c EXCEPT !.power = "hiz"]
Sleep(c) == [c EXCEPT !.power = "off", !.dspw = FALSE]

(* The init sequence and the bridge; then the board sends the chips to     *)
(* deep sleep and sets a saved volume.                                     *)
InitOne(dv, d) ==
  [power |-> "hiz", custom |-> FALSE, dspw |-> FALSE, left |-> Junk,
   right |-> Junk, mix |-> "junk", bridge |-> Pbtl(dv, d), vol |-> 48,
   regs |-> TRUE]
BoardStart(dv) ==
  ApplyVolume(dv, [d \in Chips |-> Sleep(InitOne(dv, d))])

(* The driver's statics after main.c has read the flash and tas58xx_init   *)
(* has latched the dual mode.                                              *)
Latched(dv) == [dv EXCEPT !.active = IF Devs > 1 THEN dv.dual ELSE "sub"]
Restored(saved, v) ==
  Latched([off |-> saved.off, subXo |-> saved.subXo, subEq |-> saved.subEq,
           dual |-> IF BiampSupported THEN saved.dual ELSE "sub",
           baXo |-> saved.baXo, baSwap |-> saved.baSwap, baEq |-> saved.baEq,
           eq |-> 0, vol |-> v, active |-> "sub"])

AmpInit ==
  /\ nv = Defaults
  /\ \E v \in Volumes : drv = Restored(Defaults, v)
  /\ chip = BoardStart(drv)
  /\ http = <<>> /\ rt = NoRestore /\ lost = FALSE /\ changes = 0

Count == changes < MaxChanges /\ changes' = changes + 1

PowerCut ==
  /\ Count
  /\ \E v \in Volumes : drv' = Restored(nv, v)
  /\ chip' = BoardStart(drv')
  /\ http' = <<>> /\ rt' = NoRestore /\ lost' = FALSE /\ UNCHANGED nv

-----------------------------------------------------------------------------
(* The player's events, one task, each power change under the lock. *)

ClientConnectedOrPaused ==
  /\ Count /\ rt = NoRestore
  /\ \E w \in [Chips -> UNION {Wakes(chip[d]) : d \in Chips}] :
       /\ \A d \in Chips : w[d] \in Wakes(chip[d])
       /\ chip' = [d \in Chips |-> Standby(w[d])]
  /\ UNCHANGED <<nv, drv, http, rt, lost>>

Playing ==
  /\ Count /\ rt = NoRestore
  /\ \E w \in [Chips -> UNION {Wakes(chip[d]) : d \in Chips}] :
       /\ \A d \in Chips : w[d] \in Wakes(chip[d])
       /\ chip' = [d \in Chips |-> PowerOn(drv, w[d], chip[d].power, d)]
  /\ rt' = [at |-> "read", g |-> 0]
  /\ UNCHANGED <<nv, drv, http, lost>>

Disconnected ==
  /\ Count /\ rt = NoRestore
  /\ chip' = [d \in Chips |-> Sleep(chip[d])]
  /\ UNCHANGED <<nv, drv, http, rt, lost>>

(* restore_eq_from_nvs: the saved curve is read, then applied *)
RestoreRead ==
  /\ rt.at = "read"
  /\ rt' = IF nv.eq = -1 THEN NoRestore ELSE [at |-> "apply", g |-> nv.eq]
  /\ UNCHANGED <<nv, drv, chip, http, lost, changes>>

EqSetAll(g) ==
  LET dv == [drv EXCEPT !.eq = g]
      k == [Flat EXCEPT !.g = g]
  IN  /\ drv' = dv
      /\ chip' = [d \in Chips |->
                    IF Pbtl(dv, d) \/ OwnsChain(dv) THEN chip[d]
                    ELSE Program(chip[d], k, k)]

RestoreApply ==
  /\ rt.at = "apply" /\ EqSetAll(rt.g) /\ rt' = NoRestore
  /\ UNCHANGED <<nv, http, lost, changes>>

SetVolume == \E v \in Volumes :
  /\ Count /\ drv' = [drv EXCEPT !.vol = v]
  /\ chip' = ApplyVolume(drv', chip)
  /\ UNCHANGED <<nv, http, rt, lost>>

-----------------------------------------------------------------------------
(* Web requests: the steps of each body member, in the handler's order.    *)

Set(k, v) == [do |-> "set", key |-> k, val |-> v]
Save(k) == [do |-> "save", key |-> k, val |-> 0]
Steps(k, v, alsoSaved) == <<Set(k, v), Save(k)>> \o alsoSaved

SubOffsetPost ==
  \/ \E v \in Offsets : http' = Steps("off", v, <<>>)
  \/ \E hz \in Corners : http' = Steps("subXo", hz, <<Save("subEq")>>)
  \/ \E g, h \in Gains :
       http' = <<Set("subLow", g), Set("subHigh", h), Save("subEq")>>
DualModePost == \E m \in {"sub", "biamp"} :
  /\ m = "biamp" => BiampSupported
  /\ http' = Steps("dual", m, <<>>)
BiampPost ==
  \/ \E hz \in BiampCorners : http' = Steps("baXo", hz, <<Save("baEq")>>)
  \/ \E b \in BOOLEAN : http' = Steps("baSwap", b, <<>>)
  \/ \E d \in {1, 2}, w \in Ways, g \in Gains :
       http' = <<Set("baGain", <<d, w, g>>), Save("baEq")>>
OnEqEvent(g) == <<[Save("eq") EXCEPT !.val = g], Set("eq", g)>>
EqPost == \E g \in Gains : http' = OnEqEvent(g)

(* The driver's setters; a changed corner flattens the gains of its bands. *)
SubRetune(dv) == /\ drv' = dv
                 /\ chip' = [d \in Chips |-> ApplyXover(dv, chip[d], d)]
SetSubOffset(v) == /\ drv' = [drv EXCEPT !.off = v]
                   /\ chip' = ApplyVolume(drv', chip)
SetSubCrossover(hz) ==
  SubRetune([drv EXCEPT !.subXo = hz,
               !.subEq = IF hz # drv.subXo THEN FlatGains ELSE @])
SetSubGains(w, g) == SubRetune([drv EXCEPT !.subEq[w] = g])
SetDualMode(m) == drv' = [drv EXCEPT !.dual = m] /\ UNCHANGED chip

BiampRetune(dv, D) ==
  /\ drv' = dv
  /\ chip' = [d \in Chips |-> IF Biamp(dv) /\ d \in D
                              THEN ApplyBiamp(dv, chip[d], d) ELSE chip[d]]
SetBiampCrossover(hz) ==
  BiampRetune([drv EXCEPT !.baXo = hz,
                 !.baEq = IF hz # drv.baXo THEN [d \in {1, 2} |-> FlatGains]
                          ELSE @], Chips)
SetBiampSwap(b) == BiampRetune([drv EXCEPT !.baSwap = b], Chips)
SetBiampGains(d, w, g) == BiampRetune([drv EXCEPT !.baEq[d][w] = g], {d})

HttpRequest ==
  /\ Count /\ http = <<>>
  /\ SubOffsetPost \/ DualModePost \/ BiampPost \/ EqPost
  /\ UNCHANGED <<nv, drv, chip, rt, lost>>

RequestSet ==
  /\ http # <<>> /\ Head(http).do = "set" /\ http' = Tail(http)
  /\ LET k == Head(http).key  v == Head(http).val
     IN  \/ k = "off" /\ SetSubOffset(v)
         \/ k = "subXo" /\ SetSubCrossover(v)
         \/ k = "subLow" /\ SetSubGains("low", v)
         \/ k = "subHigh" /\ SetSubGains("high", v)
         \/ k = "dual" /\ SetDualMode(v)
         \/ k = "baXo" /\ SetBiampCrossover(v)
         \/ k = "baSwap" /\ SetBiampSwap(v)
         \/ k = "baGain" /\ SetBiampGains(v[1], v[2], v[3])
         \/ k = "eq" /\ EqSetAll(v)
  /\ UNCHANGED <<nv, rt, lost, changes>>

(* A save succeeds, or fails and the old value stays.  The offset, the     *)
(* corners, the mode and the swap answer success all the same; a failure   *)
(* to save gains is reported.                                              *)
Persist(new) == \/ nv' = new /\ lost' = lost
                \/ nv' = nv /\ lost' = TRUE
SaveSubOffset == Persist([nv EXCEPT !.off = drv.off])
SaveSubCrossover == Persist([nv EXCEPT !.subXo = drv.subXo])
SaveDualMode == Persist([nv EXCEPT !.dual = drv.dual])
SaveSubEq == Persist([nv EXCEPT !.subEq = drv.subEq])
SaveBiampCrossover == Persist([nv EXCEPT !.baXo = drv.baXo])
SaveBiampSwap == Persist([nv EXCEPT !.baSwap = drv.baSwap])
SaveBiampEq == Persist([nv EXCEPT !.baEq = drv.baEq])
(* an unchanged curve is not written; one saved while the event task is    *)
(* about to apply an older one races it                                    *)
SaveEq(v) ==
  \/ v = nv.eq /\ UNCHANGED <<nv, lost>>
  \/ v # nv.eq /\ rt.at # "apply" /\ Persist([nv EXCEPT !.eq = v])
  \/ v # nv.eq /\ rt.at = "apply" /\ nv' \in {nv, [nv EXCEPT !.eq = v]}
     /\ lost' = TRUE

RequestSave ==
  /\ http # <<>> /\ Head(http).do = "save" /\ http' = Tail(http)
  /\ LET k == Head(http).key
     IN  \/ k = "off" /\ SaveSubOffset
         \/ k = "subXo" /\ SaveSubCrossover
         \/ k = "dual" /\ SaveDualMode
         \/ k = "subEq" /\ SaveSubEq
         \/ k = "baXo" /\ SaveBiampCrossover
         \/ k = "baSwap" /\ SaveBiampSwap
         \/ k = "baEq" /\ SaveBiampEq
         \/ k = "eq" /\ SaveEq(Head(http).val)
  /\ UNCHANGED <<drv, chip, rt, changes>>

AmpNext ==
        \/ ClientConnectedOrPaused \/ Playing \/ Disconnected \/ RestoreRead
        \/ RestoreApply \/ SetVolume \/ HttpRequest \/ RequestSet \/ RequestSave
        \/ PowerCut
AmpSpec == AmpInit /\ [][AmpNext]_ampVars

-----------------------------------------------------------------------------
Quiet == http = <<>> /\ rt = NoRestore /\ ~lost

(* What the flash calls for on chip d of a speaker with or without a sub *)
WantedChain(d) ==
  IF Devs = 2 /\ nv.subXo > 0
  THEN Way(IF d = 2 THEN "low" ELSE "high", nv.subXo, nv.subEq)
  ELSE [Flat EXCEPT !.g = IF d = 2 \/ nv.eq = -1 THEN 0 ELSE nv.eq]

(* Between requests, a playing chip runs the chains that the saved         *)
(* settings call for, the sub's chip bridged and fed both channels, and    *)
(* each at the volume last set plus the saved offset: through any sequence *)
(* of requests, events, sleeps that lose the registers and power cuts in   *)
(* the middle of a request.  (sub_offset_post_handler, on_eq_event,        *)
(* set_power_mode_dev, app_main's restore.)                                *)
ChainsAsSaved ==
  Quiet /\ drv.active = "sub" => \A d \in Chips :
    chip[d].power = "play" =>
      /\ chip[d].left = WantedChain(d) /\ chip[d].right = WantedChain(d)
      /\ chip[d].vol = DbToReg(MapVolume(drv.vol)
                                 + (IF d = 2 THEN 10 * nv.off ELSE 0))
      /\ d = 2 => chip[d].bridge /\ chip[d].mix = "mono"

(* "exiting DEEP_SLEEP is similar to a power-on-reset - all registers may  *)
(* revert to defaults. Re-program the critical DSP registers"              *)
(* (dac_tas58xx.c:880): a playing chip has them.  They are reprogrammed    *)
(* only when deep sleep is left for PLAY in one step, and every client     *)
(* that connects leaves it for standby first.                              *)
WakeReprograms == \A d \in Chips : chip[d].power = "play" => chip[d].regs

=============================================================================
