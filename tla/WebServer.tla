------------------------------ MODULE WebServer ------------------------------
(***************************************************************************)
(* The web server's one task and what its long requests change: uploads to *)
(* the SD card and to the flash file system, the firmware upgrade, the     *)
(* saved network credentials.  web_server.c, ota.c, sd_card.c and the      *)
(* network part of settings.c.  A client may stall or vanish at any point, *)
(* the power may go at any point.  Bodies are counted in pieces.           *)
(***************************************************************************)
EXTENDS Integers

CONSTANTS
  Pieces,        \* pieces of the largest body
  StallLimit,    \* receive timeouts an upgrade sits through (OTA_RECV_STALL_MS)
  MaxTimeouts,   \* SPEEDTEST_MAX_TIMEOUTS
  Passphrases,   \* upgrade passphrases, "" = none
  Networks,      \* credentials a user may enter
  MaxRequests    \* bound on requests and power cuts

VARIABLES
  job,      \* the request the task is in: kind, pieces to come, timeouts seen
  img,      \* the image being uploaded is whole
  sd, fs,   \* the uploaded file on the card and in flash
  told,     \* what the last upload to the card was told
  mounted,  \* s_mounted
  slot,     \* what the two firmware slots hold
  boot,     \* the slot the boot loader will start
  runs,     \* the slot that is running
  busy,     \* s_ota_busy
  rtsp,     \* the AirPlay server is up
  pass,     \* the saved passphrase
  wifi,     \* the saved credentials
  count

vars == <<job, img, sd, fs, told, mounted, slot, boot, runs, busy, rtsp, pass,
          wifi, count>>
files == <<sd, fs, told>>
upgrade == <<img, slot, boot, runs, busy, rtsp>>
saved == <<pass, wifi>>

Rest == [k |-> "none", left |-> 0, stall |-> 0]
Free == job = Rest
Done == job' = Rest
Target == 1 - runs

Init ==
  /\ job = Rest /\ img = TRUE /\ sd \in {"none", "old"} /\ fs = "old"
  /\ told = "nothing" /\ mounted \in BOOLEAN
  /\ slot \in {[s \in {0, 1} |-> IF s = 0 THEN "good" ELSE "empty"]}
  /\ boot = 0 /\ runs = 0 /\ busy = FALSE /\ rtsp = TRUE
  /\ pass \in Passphrases /\ wifi = [ssid |-> "none", pw |-> "none"] /\ count = 0

(* Every request passes the gate: a captive-portal probe, or one whose      *)
(* Host, if given, is this device and whose Origin, if given, is that Host. *)
GateOpen(probe, host, origin) ==
  probe \/ host = "none" \/ (host = "self" /\ origin \in {"none", "same"})
Passes == \E probe \in BOOLEAN, host \in {"none", "self", "other"},
             origin \in {"none", "same", "other"} : GateOpen(probe, host, origin)

Ask(k, n) ==
  /\ Free /\ count < MaxRequests /\ count' = count + 1
  /\ Passes
  /\ job' = [k |-> k, left |-> n, stall |-> 0]

-----------------------------------------------------------------------------
(* Requests that start a long job. *)

(* fopen "wb" empties the file that was there *)
SdUpload == \E n \in 1..Pieces :
  /\ Ask("sd", n) /\ mounted /\ sd' = "part" /\ told' = "nothing"
  /\ UNCHANGED <<fs, mounted, upgrade, saved>>

FsUpload == \E n \in 1..Pieces :
  /\ Ask("fs", n) /\ fs' = "part" /\ UNCHANGED <<sd, told, mounted, upgrade, saved>>

SpeedtestUpload == \E n \in 1..Pieces :
  Ask("test", n) /\ UNCHANGED <<files, mounted, upgrade, saved>>

(* An upgrade needs the saved passphrase and no local playback; AirPlay is *)
(* stopped first.  The image goes to RAM if there is room, else straight   *)
(* to the other slot, which esp_ota_begin erases.                          *)
OtaUpdate(given, playing) ==
  /\ pass # "" /\ given = pass /\ ~playing /\ ~busy
  /\ \E n \in 1..Pieces, k \in {"otaBuffered", "otaStreaming"} :
       /\ Ask(k, n)
       /\ slot' = IF k = "otaStreaming" THEN [slot EXCEPT ![Target] = "part"]
                  ELSE slot
  /\ img' \in BOOLEAN /\ rtsp' = FALSE /\ busy' = TRUE
  /\ UNCHANGED <<files, mounted, boot, runs, saved>>

OtaRefused(given, playing) ==
  /\ (pass = "" \/ given # pass \/ playing)
  /\ Free /\ count < MaxRequests /\ count' = count + 1
  /\ UNCHANGED <<job, files, mounted, upgrade, saved>>

OtaStart == \E given \in Passphrases, playing \in BOOLEAN :
  OtaUpdate(given, playing) \/ OtaRefused(given, playing)

WifiConfig == \E w \in Networks :
  /\ Ask("wifi", 0) /\ wifi' = [wifi EXCEPT !.ssid = w]
  /\ UNCHANGED <<files, mounted, upgrade, pass>>

-----------------------------------------------------------------------------
(* Short requests. *)

Short == Free /\ Passes /\ count < MaxRequests /\ count' = count + 1 /\ UNCHANGED job

(* sd_card.c: a file goes only from a mounted card; a mount may fail, and  *)
(* one in progress turns a second away.                                    *)
Remove == mounted /\ sd' = "none" /\ told' = "nothing"
Mount == mounted' \in {mounted, TRUE}

SdDelete == Short /\ Remove /\ UNCHANGED <<fs, mounted, upgrade, saved>>
FsDelete == Short /\ fs' = "none" /\ UNCHANGED <<sd, told, mounted, upgrade, saved>>
SdMount == Short /\ Mount /\ UNCHANGED <<files, upgrade, saved>>

(* Changing the passphrase asks for the current one. *)
OtaPassword == \E cur, new \in Passphrases :
  /\ Short /\ (pass = "" \/ cur = pass)
  /\ pass' \in {pass, new}
  /\ UNCHANGED <<files, mounted, upgrade, wifi>>
Restart == Ask("restart", 0) /\ UNCHANGED <<files, mounted, upgrade, saved>>

-----------------------------------------------------------------------------
(* The body arrives.  Uploads give up at the first timeout, the speed test *)
(* and the upgrade after a while without progress.                         *)

Ota == {"otaBuffered", "otaStreaming"}
Receiving == {"sd", "fs", "test"} \cup Ota

Receive ==
  /\ job.k \in Receiving /\ job.left > 0
  /\ job' = [job EXCEPT !.left = @ - 1, !.stall = 0]
  /\ \/ UNCHANGED fs
     \/ job.k = "fs" /\ fs' = "short"     \* fwrite's result is not looked at
  /\ UNCHANGED <<sd, told, mounted, upgrade, saved, count>>

Patience == [test |-> MaxTimeouts, otaBuffered |-> StallLimit,
             otaStreaming |-> StallLimit, sd |-> 0, fs |-> 0]

WaitsForever == job.k \in Ota \/ job.stall < Patience[job.k]
Waits == job.stall < Patience[job.k]

RecvTimeout ==
  /\ job.k \in Receiving /\ job.left > 0 /\ Waits
  /\ job' = [job EXCEPT !.stall = IF @ < StallLimit + MaxTimeouts THEN @ + 1 ELSE @]
  /\ UNCHANGED <<files, mounted, upgrade, saved, count>>

SdAborted == sd' = "none" /\ told' = "failed"
OtaFailed == busy' = FALSE

(* Out of patience, the connection lost, the card full, the flash failing  *)
GiveUp(reason) ==
  /\ job.k \in Receiving /\ job.left > 0 /\ Done
  /\ reason = "timeout" => ~Waits
  /\ reason = "full" => job.k \in {"sd", "otaStreaming"}
  /\ IF job.k = "sd" THEN SdAborted ELSE UNCHANGED <<sd, told>>
  /\ fs' = IF job.k = "fs" THEN "none" ELSE fs
  /\ IF job.k \in Ota THEN OtaFailed ELSE UNCHANGED busy
  /\ UNCHANGED <<mounted, img, slot, boot, runs, rtsp, saved, count>>
RecvFails == \E reason \in {"timeout", "closed", "full"} : GiveUp(reason)
TimesOut == GiveUp("timeout")

-----------------------------------------------------------------------------
(* The end of a body. *)

Whole == job.left = 0

SdDoneAnyway ==
  /\ job.k = "sd" /\ (Whole \/ job.left = 1) /\ Done
  /\ sd' = (IF Whole THEN "new" ELSE "part") /\ told' = "saved"
  /\ UNCHANGED <<fs, mounted, upgrade, saved, count>>

SdDone ==
  /\ job.k = "sd" /\ Whole /\ Done /\ sd' = "new" /\ told' = "saved"
  /\ UNCHANGED <<fs, mounted, upgrade, saved, count>>
FsDone ==
  /\ job.k = "fs" /\ Whole /\ Done /\ fs' = IF fs = "short" THEN fs ELSE "new"
  /\ UNCHANGED <<sd, told, mounted, upgrade, saved, count>>

TestDone == /\ job.k = "test" /\ Whole /\ Done
            /\ UNCHANGED <<files, mounted, upgrade, saved, count>>

(* The header and, when the image carries one, its hash.  A bad image      *)
(* without a hash passes.                                                  *)
ValidateFails ==
  /\ job.k = "otaBuffered" /\ Whole /\ ~img /\ Done /\ OtaFailed
  /\ UNCHANGED <<files, mounted, img, slot, boot, runs, rtsp, saved, count>>

Flash ==
  /\ job.k = "otaBuffered" /\ Whole
  /\ job' = [job EXCEPT !.k = "otaFlash"]
  /\ slot' = [slot EXCEPT ![Target] = "part"]
  /\ UNCHANGED <<files, mounted, img, boot, runs, busy, rtsp, saved, count>>

Written == job.k = "otaFlash" \/ (job.k = "otaStreaming" /\ Whole)

FlashFails ==
  /\ job.k \in {"otaFlash", "otaStreaming"} /\ Done /\ OtaFailed
  /\ job.k = "otaStreaming" => Whole
  /\ UNCHANGED <<files, mounted, img, slot, boot, runs, rtsp, saved, count>>

(* esp_ota_end reads the slot back and checks the image *)
OtaEndUnchecked ==
  /\ Written
  /\ slot' = [slot EXCEPT ![Target] = IF img THEN "good" ELSE "bad"]
  /\ job' = [job EXCEPT !.k = "otaSwitch"]
  /\ UNCHANGED <<files, mounted, img, boot, runs, busy, rtsp, saved, count>>

OtaEnd ==
  /\ Written
  /\ slot' = [slot EXCEPT ![Target] = IF img THEN "good" ELSE "bad"]
  /\ IF img THEN job' = [job EXCEPT !.k = "otaSwitch"] /\ UNCHANGED busy
     ELSE Done /\ OtaFailed
  /\ UNCHANGED <<files, mounted, img, boot, runs, rtsp, saved, count>>

OtaSwitch ==
  /\ job.k = "otaSwitch" /\ boot' = Target
  /\ busy' = FALSE /\ job' = [job EXCEPT !.k = "restart"]
  /\ UNCHANGED <<files, mounted, img, slot, runs, rtsp, saved, count>>
OtaSwitchFails ==
  /\ job.k = "otaSwitch" /\ Done /\ OtaFailed
  /\ UNCHANGED <<files, mounted, img, slot, boot, runs, rtsp, saved, count>>

(* settings_set_wifi_credentials writes the name, then the password; a     *)
(* success restarts the device.                                            *)
WifiPassword ==
  /\ job.k = "wifi"
  /\ \/ wifi' = [wifi EXCEPT !.pw = wifi.ssid] /\ job' = [job EXCEPT !.k = "restart"]
     \/ Done /\ UNCHANGED wifi
  /\ UNCHANGED <<files, mounted, upgrade, pass, count>>

Reboot ==
  /\ job' = Rest /\ runs' = boot /\ busy' = FALSE /\ rtsp' = TRUE
  /\ mounted' \in BOOLEAN /\ told' = "nothing"
  /\ UNCHANGED <<img, sd, fs, slot, boot, saved>>
RestartNow == job.k = "restart" /\ Reboot /\ UNCHANGED count
PowerCut == count < MaxRequests /\ count' = count + 1 /\ Reboot

Server == TimesOut \/ RecvTimeout \/ SdDone \/ FsDone \/ TestDone
          \/ ValidateFails \/ Flash \/ FlashFails \/ OtaEnd \/ OtaSwitch
          \/ OtaSwitchFails \/ WifiPassword \/ RestartNow
Client == SdUpload \/ FsUpload \/ SpeedtestUpload \/ OtaStart \/ WifiConfig
          \/ SdDelete \/ FsDelete \/ SdMount \/ OtaPassword \/ Restart
          \/ Receive \/ RecvFails \/ PowerCut
Next == Server \/ Client

(* The task runs, and a receive on a silent socket times out. *)
Fairness == WF_vars(Server)
Spec == Init /\ [][Next]_vars /\ Fairness

-----------------------------------------------------------------------------
(* Whatever image is uploaded, and wherever the upload, the flash or the   *)
(* power fails, the slot the boot loader starts and the one that runs hold *)
(* a whole checked image, and a failed upgrade does not lock out the next  *)
(* one.  (ota_buffered, ota_streaming, ota_start_from_http.)               *)
SlotsWhole == /\ slot[boot] = "good" /\ slot[runs] = "good"
              /\ Free => ~busy

(* An upload to the card that was told it succeeded left the whole file,   *)
(* one that failed left none.  (sd_upload_handler.)                        *)
UploadAsTold == /\ told = "saved" => sd = "new"
                /\ told = "failed" => sd = "none"

(* What has been received is what is there: an image to boot, a file on    *)
(* the card.                                                               *)
BootsWhole == SlotsWhole /\ UploadAsTold

(* The one task always comes free again, also when a client stalls half    *)
(* way: no request freezes the whole web interface.  (ota_recv_all,        *)
(* speedtest_upload_handler, sd_upload_handler.)                           *)
WebAnswers == (job # Rest) ~> (job = Rest)

=============================================================================
