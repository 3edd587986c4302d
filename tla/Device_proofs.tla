--------------------------- MODULE Device_proofs ----------------------------
(***************************************************************************)
(* Proofs about WebServer, for every length of a body, patience, set of    *)
(* passphrases and number of requests and power cuts, and about BtSink,    *)
(* for every set of volumes and number of keys and commands.               *)
(***************************************************************************)
EXTENDS WebServer, BtSink, TLAPS

Jobs == {"none", "sd", "fs", "test", "wifi", "restart", "otaBuffered",
         "otaStreaming", "otaFlash", "otaSwitch"}
Upgrading == {"otaBuffered", "otaStreaming", "otaFlash", "otaSwitch"}

(* What makes BootsWhole inductive.  Only an upgrade writes a slot, and it *)
(* writes the one that neither runs nor boots: the two are the same slot   *)
(* until otaSwitch, and after it the task does nothing but restart.        *)
JobOK == job \in [k : Jobs, left : Int, stall : Int]
SlotsOK == /\ slot \in [{0, 1} -> {"good", "empty", "part", "bad"}]
           /\ boot \in {0, 1} /\ runs \in {0, 1}
           /\ slot[boot] = "good" /\ slot[runs] = "good"
UpgradeInv == /\ busy \in BOOLEAN
              /\ busy => job.k \in Upgrading
              /\ job.k # "restart" => boot = runs
              /\ job.k = "otaSwitch" => slot[Target] = "good"
WebInv == JobOK /\ SlotsOK /\ UpgradeInv /\ UploadAsTold

-----------------------------------------------------------------------------
(* A step that leaves the upgrade alone may change the job, but not into   *)
(* or out of an upgrade, nor out of a pending restart.                     *)
LEMMA UpgradeLeftAlone ==
  ASSUME JobOK, SlotsOK, UpgradeInv, JobOK', UNCHANGED upgrade,
         \/ job'.k = job.k
         \/ job.k \notin Upgrading \cup {"restart"} /\ job'.k # "otaSwitch"
  PROVE  SlotsOK' /\ UpgradeInv'
<1>1. SlotsOK'
  BY DEF SlotsOK, upgrade
<1>2. Target' = Target
  BY DEF Target, upgrade
<1>3. UpgradeInv'
  BY <1>2 DEF UpgradeInv, upgrade, Upgrading
<1> QED
  BY <1>1, <1>3

LEMMA InitInv == Init => WebInv
<1> SUFFICES ASSUME Init PROVE WebInv
  OBVIOUS
<1>1. JobOK /\ job.k = "none"
  BY DEF Init, Rest, JobOK, Jobs
<1>2. slot = [s \in {0, 1} |-> IF s = 0 THEN "good" ELSE "empty"]
  BY DEF Init
<1>3. boot = 0 /\ runs = 0 /\ busy = FALSE /\ told = "nothing"
  BY DEF Init
<1>4. SlotsOK
  BY <1>2, <1>3 DEF SlotsOK
<1> QED
  BY <1>1, <1>3, <1>4 DEF WebInv, UpgradeInv, UploadAsTold

(* A new request: the task was free, so nothing is being upgraded.         *)
LEMMA AskFacts ==
  ASSUME NEW k \in Jobs, NEW n \in Int, Ask(k, n)
  PROVE  JobOK' /\ job.k = "none" /\ job'.k = k
BY DEF Ask, Free, Rest, JobOK

LEMMA DoneFacts ==
  ASSUME Done
  PROVE  JobOK' /\ job'.k = "none"
BY DEF Done, Rest, JobOK, Jobs

-----------------------------------------------------------------------------
(* The requests that start a job. *)
LEMMA StartStep ==
  ASSUME WebInv,
         SdUpload \/ FsUpload \/ SpeedtestUpload \/ OtaStart \/ WifiConfig
         \/ Restart
  PROVE  WebInv'
<1> USE DEF WebInv
<1>1. ASSUME NEW k \in {"sd", "fs", "test", "wifi", "restart"}, NEW n \in Int,
             Ask(k, n), UNCHANGED upgrade
      PROVE  JobOK' /\ SlotsOK' /\ UpgradeInv'
  <2>1. JobOK' /\ job.k = "none" /\ job'.k = k
    BY <1>1, AskFacts DEF Jobs
  <2> QED
    BY <1>1, <2>1, UpgradeLeftAlone DEF Upgrading
<1>2. CASE SdUpload
  <2>1. PICK n \in 1..Pieces : Ask("sd", n) /\ told' = "nothing" /\ UNCHANGED upgrade
    BY <1>2 DEF SdUpload
  <2> QED
    BY <1>1, <2>1 DEF UploadAsTold
<1>3. CASE FsUpload
  <2>1. PICK n \in 1..Pieces : Ask("fs", n) /\ UNCHANGED <<sd, told, upgrade>>
    BY <1>3 DEF FsUpload
  <2> QED
    BY <1>1, <2>1 DEF UploadAsTold
<1>4. CASE SpeedtestUpload
  <2>1. PICK n \in 1..Pieces : Ask("test", n) /\ UNCHANGED <<files, upgrade>>
    BY <1>4 DEF SpeedtestUpload
  <2> QED
    BY <1>1, <2>1 DEF UploadAsTold, files
<1>5. CASE WifiConfig
  BY <1>1, <1>5 DEF WifiConfig, UploadAsTold, files
<1>6. CASE Restart
  BY <1>1, <1>6 DEF Restart, UploadAsTold, files
<1>7. CASE OtaStart
  <2>1. ASSUME NEW given \in Passphrases, NEW playing \in BOOLEAN,
               OtaUpdate(given, playing)
        PROVE  WebInv'
    <3>1. PICK n \in 1..Pieces, k \in {"otaBuffered", "otaStreaming"} :
             /\ Ask(k, n)
             /\ slot' = IF k = "otaStreaming" THEN [slot EXCEPT ![Target] = "part"]
                        ELSE slot
      BY <2>1 DEF OtaUpdate
    <3>2. JobOK' /\ job.k = "none" /\ job'.k = k
      BY <3>1, AskFacts DEF Jobs
    <3>3. UNCHANGED <<boot, runs, files>> /\ busy' = TRUE
      BY <2>1 DEF OtaUpdate
    <3>4. boot = runs /\ Target \in {0, 1} /\ Target # runs
      BY <3>2 DEF UpgradeInv, SlotsOK, Target
    <3>5. SlotsOK'
      BY <3>1, <3>3, <3>4 DEF SlotsOK
    <3>6. UpgradeInv'
      BY <3>2, <3>3, <3>4 DEF UpgradeInv, Upgrading
    <3> QED
      BY <3>2, <3>3, <3>5, <3>6 DEF UploadAsTold, files
  <2>2. ASSUME NEW given \in Passphrases, NEW playing \in BOOLEAN,
               OtaRefused(given, playing)
        PROVE  WebInv'
    <3>1. UNCHANGED <<job, files, upgrade>>
      BY <2>2 DEF OtaRefused
    <3> QED
      BY <3>1, UpgradeLeftAlone DEF JobOK, UploadAsTold, files
  <2> QED
    BY <1>7, <2>1, <2>2 DEF OtaStart
<1> QED
  BY <1>2, <1>3, <1>4, <1>5, <1>6, <1>7

(* The short requests leave the task free. *)
LEMMA ShortStep ==
  ASSUME WebInv, SdDelete \/ FsDelete \/ SdMount \/ OtaPassword
  PROVE  WebInv'
<1>1. UNCHANGED <<job, upgrade>>
  BY DEF SdDelete, FsDelete, SdMount, OtaPassword, Short
<1>2. UploadAsTold'
  BY DEF WebInv, UploadAsTold, SdDelete, FsDelete, SdMount, OtaPassword,
         Remove, files
<1> QED
  BY <1>1, <1>2, UpgradeLeftAlone DEF WebInv, JobOK

-----------------------------------------------------------------------------
(* A body arrives, stalls, or is given up. *)
LEMMA BodyStep ==
  ASSUME WebInv, Receive \/ RecvTimeout \/ RecvFails \/ TimesOut
  PROVE  WebInv'
<1> USE DEF WebInv
<1>1. CASE Receive \/ RecvTimeout
  <2>1. JobOK' /\ job'.k = job.k
    <3>1. CASE Receive
      <4>1. job' = [job EXCEPT !.left = job.left - 1, !.stall = 0]
        BY <3>1 DEF Receive
      <4>2. job \in [k : Jobs, left : Int, stall : Int] /\ job.left - 1 \in Int /\ 0 \in Int
        BY DEF JobOK
      <4> QED
        BY <4>1, <4>2 DEF JobOK
    <3>2. CASE RecvTimeout
      <4>1. PICK n \in Int : job' = [job EXCEPT !.stall = n]
        BY <3>2 DEF RecvTimeout, JobOK
      <4> QED
        BY <4>1 DEF JobOK
    <3> QED
      BY <1>1, <3>1, <3>2
  <2>2. UNCHANGED <<upgrade, sd, told>>
    BY <1>1 DEF Receive, RecvTimeout, files
  <2> QED
    BY <2>1, <2>2, UpgradeLeftAlone DEF UploadAsTold
<1>2. ASSUME NEW reason, GiveUp(reason)
      PROVE  WebInv'
  <2>1. JobOK' /\ job'.k = "none"
    BY <1>2, DoneFacts DEF GiveUp
  <2>2. UNCHANGED <<slot, boot, runs>> /\ job.k \in Receiving
    BY <1>2 DEF GiveUp
  <2>3. SlotsOK'
    BY <2>2 DEF SlotsOK
  <2>4. boot = runs
    BY <2>2 DEF UpgradeInv, Receiving, Ota
  <2>5. busy' = FALSE
    <3>1. CASE job.k \in Ota
      BY <1>2, <3>1 DEF GiveUp, OtaFailed
    <3>2. CASE job.k \notin Ota
      BY <1>2, <2>2, <3>2 DEF GiveUp, UpgradeInv, Upgrading, Receiving, Ota
    <3> QED
      BY <3>1, <3>2
  <2>6. UpgradeInv'
    BY <2>1, <2>2, <2>4, <2>5 DEF UpgradeInv
  <2>7. UploadAsTold'
    BY <1>2 DEF GiveUp, SdAborted, UploadAsTold
  <2> QED
    BY <2>1, <2>3, <2>6, <2>7
<1> QED
  BY <1>1, <1>2 DEF RecvFails, TimesOut

(* A body is whole and no upgrade is concerned. *)
LEMMA EndStep ==
  ASSUME WebInv, SdDone \/ FsDone \/ TestDone \/ WifiPassword
  PROVE  WebInv'
<1> USE DEF WebInv
<1>1. UNCHANGED upgrade /\ job.k \in {"sd", "fs", "test", "wifi"}
  BY DEF SdDone, FsDone, TestDone, WifiPassword
<1>2. JobOK' /\ job'.k \in {"none", "restart"}
  BY DoneFacts DEF SdDone, FsDone, TestDone, WifiPassword, JobOK, Jobs
<1>3. UploadAsTold'
  BY DEF SdDone, FsDone, TestDone, WifiPassword, UploadAsTold, files
<1> QED
  BY <1>1, <1>2, <1>3, UpgradeLeftAlone DEF Upgrading

(* The upgrade itself. *)
LEMMA UpgradeStep ==
  ASSUME WebInv,
         ValidateFails \/ Flash \/ FlashFails \/ OtaEnd \/ OtaSwitch
         \/ OtaSwitchFails
  PROVE  WebInv'
<1> USE DEF WebInv
<1>1. UNCHANGED <<files, runs>> /\ job.k \in Upgrading
  BY DEF ValidateFails, Flash, FlashFails, OtaEnd, OtaSwitch, OtaSwitchFails,
         Written, Upgrading
<1>2. /\ boot = runs /\ Target \in {0, 1} /\ Target # runs /\ Target' = Target
      /\ UploadAsTold'
  BY <1>1 DEF UpgradeInv, SlotsOK, Target, UploadAsTold, files, Upgrading
<1>3. CASE ValidateFails \/ FlashFails \/ OtaSwitchFails
  <2>1. /\ Done /\ busy' = FALSE
        /\ UNCHANGED <<slot, boot>>
    BY <1>3 DEF ValidateFails, FlashFails, OtaSwitchFails, OtaFailed
  <2>2. JobOK' /\ job'.k = "none"
    BY <2>1, DoneFacts
  <2> QED
    BY <1>1, <1>2, <2>1, <2>2 DEF SlotsOK, UpgradeInv
<1>4. CASE Flash
  <2>1. /\ job' = [job EXCEPT !.k = "otaFlash"]
        /\ slot' = [slot EXCEPT ![Target] = "part"]
        /\ UNCHANGED <<boot, busy>>
    BY <1>4 DEF Flash
  <2>2. JobOK' /\ job'.k = "otaFlash"
    BY <2>1 DEF JobOK, Jobs
  <2>3. SlotsOK'
    BY <1>1, <1>2, <2>1 DEF SlotsOK
  <2>4. UpgradeInv'
    BY <1>1, <1>2, <2>1, <2>2 DEF UpgradeInv, Upgrading
  <2> QED
    BY <1>2, <2>2, <2>3, <2>4
<1>5. CASE OtaEnd
  <2>1. /\ slot' = [slot EXCEPT ![Target] = IF img THEN "good" ELSE "bad"]
        /\ UNCHANGED boot
    BY <1>5 DEF OtaEnd
  <2>2. SlotsOK'
    BY <1>1, <1>2, <2>1 DEF SlotsOK
  <2>3. CASE img
    <3>1. JobOK' /\ job'.k = "otaSwitch" /\ UNCHANGED busy
      BY <1>5, <2>3 DEF OtaEnd, JobOK, Jobs
    <3>2. slot'[Target'] = "good"
      BY <1>2, <2>1, <2>3 DEF SlotsOK
    <3>3. UpgradeInv'
      BY <1>1, <1>2, <2>1, <3>1, <3>2 DEF UpgradeInv, Upgrading
    <3> QED
      BY <1>2, <2>2, <3>1, <3>3
  <2>4. CASE ~img
    <3>1. JobOK' /\ job'.k = "none" /\ busy' = FALSE
      BY <1>5, <2>4, DoneFacts DEF OtaEnd, OtaFailed
    <3>2. UpgradeInv'
      BY <1>1, <1>2, <2>1, <3>1 DEF UpgradeInv
    <3> QED
      BY <1>2, <2>2, <3>1, <3>2
  <2> QED
    BY <2>3, <2>4
<1>6. CASE OtaSwitch
  <2>1. /\ job.k = "otaSwitch" /\ boot' = Target /\ busy' = FALSE
        /\ job' = [job EXCEPT !.k = "restart"] /\ UNCHANGED slot
    BY <1>6 DEF OtaSwitch
  <2>2. JobOK' /\ job'.k = "restart"
    BY <2>1 DEF JobOK, Jobs
  <2>3. SlotsOK'
    BY <1>1, <1>2, <2>1 DEF SlotsOK, UpgradeInv
  <2>4. UpgradeInv'
    BY <2>1, <2>2 DEF UpgradeInv
  <2> QED
    BY <1>2, <2>2, <2>3, <2>4
<1> QED
  BY <1>3, <1>4, <1>5, <1>6

(* A restart, asked for or not: what runs is what the loader started. *)
LEMMA RebootStep ==
  ASSUME WebInv, RestartNow \/ PowerCut
  PROVE  WebInv'
<1>1. /\ job' = Rest /\ runs' = boot /\ busy' = FALSE /\ told' = "nothing"
      /\ UNCHANGED <<slot, boot>>
  BY DEF RestartNow, PowerCut, Reboot
<1>2. JobOK' /\ job'.k = "none"
  BY <1>1, DoneFacts DEF Done
<1>3. SlotsOK'
  BY <1>1 DEF WebInv, SlotsOK
<1> QED
  BY <1>1, <1>2, <1>3 DEF WebInv, UpgradeInv, UploadAsTold

-----------------------------------------------------------------------------
LEMMA Stutter ==
  ASSUME WebInv, UNCHANGED vars
  PROVE  WebInv'
BY UpgradeLeftAlone DEF WebInv, vars, JobOK, upgrade, UploadAsTold, files

(* Whatever is uploaded and wherever an upload, the flash or the power     *)
(* fails, the slot the boot loader starts and the running one hold whole   *)
(* checked images, a free task leaves no upgrade marked busy, and the card *)
(* holds what its last upload was told.  (ota.c, sd_upload_handler.)       *)
THEOREM FirmwareStaysWhole == Spec => []BootsWhole
<1>1. Init => WebInv
  BY InitInv
<1>2. WebInv /\ [Next]_vars => WebInv'
  <2> SUFFICES ASSUME WebInv, [Next]_vars PROVE WebInv'
    OBVIOUS
  <2>1. CASE Server
    BY <2>1, BodyStep, EndStep, UpgradeStep, RebootStep DEF Server
  <2>2. CASE Client
    BY <2>2, StartStep, ShortStep, BodyStep, RebootStep DEF Client
  <2>3. CASE UNCHANGED vars
    BY <2>3, Stutter
  <2> QED
    BY <2>1, <2>2, <2>3 DEF Next
<1>3. WebInv => BootsWhole
  BY DEF WebInv, SlotsOK, UpgradeInv, BootsWhole, SlotsWhole, Free, Rest, Upgrading
<1> QED
  BY <1>1, <1>2, <1>3, PTL DEF Spec

-----------------------------------------------------------------------------
(* The commands that wait, and whether a registration is among them.       *)
Commands == [op : {"reg"}, v : {0}] \cup [op : {"set"}, v : AbsVolumes]
Registering == \E i \in 1 .. Len(app) : app[i].op = "reg"

(* What holds whatever overlaps: the DAC has the sink's volume, which has  *)
(* seven bits.  Until a command and a key press overlap, only one of them  *)
(* is on its way: a registered phone's command is still queued, or it has  *)
(* been told the volume and is marked to be told the next.                 *)
Told == vol.pending /\ phone.shown = vol.set
VolumeInv ==
  /\ app \in Seq(Commands)
  /\ vol = [set |-> vol.set, dac |-> vol.dac, pending |-> vol.pending]
  /\ vol.set \in 0 .. 127 /\ vol.dac = vol.set
  /\ phone = [reg |-> phone.reg, shown |-> phone.shown]
  /\ log = [sessions |-> log.sessions, keys |-> log.keys, cmds |-> log.cmds, overlap |-> log.overlap]
  /\ log.overlap \in BOOLEAN
  /\ ~log.overlap =>
       /\ app = <<>> \/ key = "idle"
       /\ key = "idle" /\ phone.reg => Registering \/ Told
       /\ key = "notify" /\ phone.reg => vol.pending
       /\ key = "clear" => ~phone.reg

LEMMA SinkStarts == SinkInit => VolumeInv
BY DEF SinkInit, VolumeInv, Commands

(* A command is queued: the ones before it keep their places.              *)
LEMMA Queued ==
  ASSUME VolumeInv, NEW c \in Commands, Command(c)
  PROVE  /\ app' \in Seq(Commands) /\ app' # <<>>
         /\ Registering => Registering'
         /\ c.op = "reg" => Registering'
         /\ log' = [sessions |-> log'.sessions, keys |-> log'.keys, cmds |-> log'.cmds, overlap |-> log'.overlap]
         /\ log'.overlap \in BOOLEAN
         /\ ~log'.overlap => ~log.overlap /\ key = "idle"
<1>1. /\ app \in Seq(Commands) /\ app' = Append(app, c)
      /\ log' = [sessions |-> log.sessions, keys |-> log.keys, cmds |-> log.cmds + 1,
                 overlap |-> log.overlap \/ key # "idle"]
  BY DEF VolumeInv, Command
<1>2. /\ app' \in Seq(Commands) /\ Len(app') = Len(app) + 1 /\ Len(app) \in Nat
      /\ app'[Len(app) + 1] = c /\ \A i \in 1 .. Len(app) : app'[i] = app[i]
  BY <1>1
<1>3. app' # <<>>
  BY <1>2
<1>4. (Registering => Registering') /\ (c.op = "reg" => Registering')
  BY <1>2 DEF Registering
<1>5. log.overlap \in BOOLEAN
  BY DEF VolumeInv
<1> QED
  BY <1>1, <1>2, <1>3, <1>4, <1>5

LEMMA RegistersKeeps ==
  ASSUME VolumeInv, Registers
  PROVE  VolumeInv'
<1> DEFINE c == [op |-> "reg", v |-> 0]
<1>1. c \in Commands /\ c.op = "reg" /\ Command(c)
  BY DEF Commands, Registers
<1> HIDE DEF c
<1>2. /\ app' \in Seq(Commands) /\ Registering'
      /\ log' = [sessions |-> log'.sessions, keys |-> log'.keys, cmds |-> log'.cmds, overlap |-> log'.overlap]
      /\ log'.overlap \in BOOLEAN
      /\ ~log'.overlap => key = "idle"
  BY <1>1, Queued
<1>3. UNCHANGED <<vol, key>> /\ phone' = [reg |-> TRUE, shown |-> phone.shown]
  BY DEF Registers, VolumeInv
<1> QED
  BY <1>2, <1>3 DEF VolumeInv

LEMMA SetsVolumeKeeps ==
  ASSUME VolumeInv, NEW v \in AbsVolumes, SetsVolume(v)
  PROVE  VolumeInv'
<1> DEFINE c == [op |-> "set", v |-> v]
<1>1. c \in Commands /\ Command(c)
  BY DEF Commands, SetsVolume
<1> HIDE DEF c
<1>2. /\ app' \in Seq(Commands) /\ (Registering => Registering')
      /\ log' = [sessions |-> log'.sessions, keys |-> log'.keys, cmds |-> log'.cmds, overlap |-> log'.overlap]
      /\ log'.overlap \in BOOLEAN
      /\ ~log'.overlap => ~log.overlap /\ key = "idle"
  BY <1>1, Queued
<1>3. UNCHANGED <<vol, key, phone>>
  BY DEF SetsVolume
<1> QED
  BY <1>2, <1>3 DEF VolumeInv, Told

(* The first of the queue is carried out: a registration that waits behind *)
(* it still waits.                                                         *)
LEMMA TgCommandKeeps ==
  ASSUME VolumeInv, TgCommand
  PROVE  VolumeInv'
<1>1. PICK c : c = Head(app)
  OBVIOUS
<1>2. /\ app \in Seq(Commands) /\ app # <<>> /\ app' = Tail(app) /\ UNCHANGED <<key, log>>
  BY DEF VolumeInv, TgCommand, audio
<1>3. /\ c \in Commands /\ app' \in Seq(Commands) /\ app[1] = c
      /\ Len(app) \in Nat \ {0} /\ Len(app') = Len(app) - 1
      /\ \A i \in 1 .. Len(app') : app'[i] = app[i + 1]
  BY <1>1, <1>2
<1>4. ASSUME Registering, c.op # "reg" PROVE Registering'
  <2>1. PICK i \in 1 .. Len(app) : app[i].op = "reg"
    BY <1>4 DEF Registering
  <2>2. i # 1 /\ i - 1 \in 1 .. Len(app') /\ app'[i - 1] = app[i]
    BY <1>3, <1>4, <2>1
  <2> QED
    BY <2>1, <2>2 DEF Registering
<1>5. CASE c.op = "set"
  <2>1. /\ vol' = [set |-> c.v, dac |-> c.v, pending |-> vol.pending]
        /\ phone' = [reg |-> phone.reg, shown |-> c.v]
    BY <1>1, <1>5 DEF TgCommand, VolumeInv
  <2>2. c.v \in 0 .. 127
    BY <1>3, <1>5, VolumeAssumption DEF Commands
  <2> QED
    BY <1>2, <1>3, <1>4, <1>5, <2>1, <2>2 DEF VolumeInv, Told
<1>6. CASE c.op # "set"
  <2>1. /\ vol' = [set |-> vol.set, dac |-> vol.dac, pending |-> TRUE]
        /\ phone' = [reg |-> phone.reg, shown |-> vol.set]
    BY <1>1, <1>6 DEF TgCommand, VolumeInv
  <2> QED
    BY <1>2, <1>3, <2>1 DEF VolumeInv, Told
<1> QED
  BY <1>5, <1>6

LEMMA KeyPressKeeps ==
  ASSUME VolumeInv, KeyPress(Up(vol.set)) \/ KeyPress(Down(vol.set))
  PROVE  VolumeInv'
<1>0. PICK w \in 0 .. 127 : w = vol.set
  BY DEF VolumeInv
<1>1. PICK v \in 0 .. 127 : KeyPress(v)
  <2>1. Up(w) \in 0 .. 127 /\ Down(w) \in 0 .. 127
    BY <1>0 DEF Up, Down
  <2> QED
    BY <1>0, <2>1
<1>2. /\ key = "idle" /\ key' = "notify" /\ UNCHANGED <<app, phone>>
      /\ vol' = [set |-> v, dac |-> v, pending |-> vol.pending]
      /\ log' = [sessions |-> log.sessions, keys |-> log.keys + 1, cmds |-> log.cmds, overlap |-> log.overlap \/ app # <<>>]
  BY <1>1 DEF VolumeInv, KeyPress
<1>3. app = <<>> => ~Registering
  BY DEF Registering
<1> QED
  BY <1>2, <1>3 DEF VolumeInv, Told

LEMMA KeyNotifyKeeps ==
  ASSUME VolumeInv, KeyNotify
  PROVE  VolumeInv'
<1>1. /\ key = "notify" /\ key' = IF vol.pending THEN "clear" ELSE "idle"
      /\ phone' = IF vol.pending THEN [reg |-> FALSE, shown |-> vol.set] ELSE phone
      /\ UNCHANGED <<vol, app, log>>
  BY DEF KeyNotify
<1> QED
  BY <1>1 DEF VolumeInv, Told

LEMMA KeyClearKeeps ==
  ASSUME VolumeInv, KeyClear
  PROVE  VolumeInv'
<1>1. /\ key = "clear" /\ key' = "idle" /\ UNCHANGED <<app, phone, log>>
      /\ vol' = [set |-> vol.set, dac |-> vol.dac, pending |-> FALSE]
  BY DEF KeyClear, VolumeInv
<1> QED
  BY <1>1 DEF VolumeInv

(* The audio path moves neither volume nor commands.                       *)
LEMMA AudioKeeps ==
  ASSUME VolumeInv, AudioNext \/ UNCHANGED sinkVars
  PROVE  VolumeInv'
<1>1. /\ UNCHANGED <<vol, key, app, phone>>
      /\ log' = [sessions |-> log'.sessions, keys |-> log'.keys, cmds |-> log'.cmds, overlap |-> log.overlap]
  BY DEF VolumeInv, AudioNext, sinkVars, Start, StopBegin, StopEnd, Data, WriterWake, Writer, avrcp
<1>2. log'.overlap = log.overlap
  BY <1>1
<1> QED
  BY <1>1, <1>2 DEF VolumeInv, Registering, Told

(* For every ring, prefetch, set of volumes, number of sessions, keys and  *)
(* commands: unless a command arrived in the middle of a key press, the    *)
(* volume the phone shows, the sink's and the DAC's are one at rest, and a *)
(* phone that is registered will be told of the next key.  (a2dp_sink.c,   *)
(* bt_avrc_tg_evt_handler, notify_volume_changed.)                         *)
THEOREM VolumesStayTogether == SinkSpec => []VolumesAgree
<1>1. SinkInit => VolumeInv
  BY SinkStarts
<1>2. VolumeInv /\ [SinkNext]_sinkVars => VolumeInv'
  BY RegistersKeeps, SetsVolumeKeeps, TgCommandKeeps, KeyPressKeeps, KeyNotifyKeeps, KeyClearKeeps, AudioKeeps
     DEF SinkNext, VolumeNext
<1>3. VolumeInv => VolumesAgree
  <2> SUFFICES ASSUME VolumeInv, Quiet, ~log.overlap
               PROVE  vol.dac = vol.set /\ vol.set \in 0 .. 127 /\ (phone.reg => vol.pending /\ phone.shown = vol.set)
    BY DEF VolumesAgree
  <2>1. ~Registering
    BY DEF Quiet, Registering
  <2> QED
    BY <2>1 DEF VolumeInv, Quiet, Told
<1> QED
  BY <1>1, <1>2, <1>3, PTL DEF SinkSpec
=============================================================================
