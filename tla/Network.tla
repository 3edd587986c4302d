------------------------------ MODULE Network ------------------------------
(* WiFi, Ethernet and the task that watches them (main/network/wifi.c,       *)
(* ethernet.c and dns_server.c, network_monitor_task and app_main in         *)
(* main/main.c, and the scan of the web page).                               *)
EXTENDS Naturals

CONSTANTS Aps,         \* access points of the configured network, numbered from 1
          Threshold,   \* AP_REENABLE_THRESHOLD
          MaxChanges   \* bound: changes of the surroundings, and scans

NoLock == 0

VARIABLES
    wifi,  \* the driver and wifi.c's globals
    scan,  \* wifi_scan of the web page: "no", or whether a retry was pending
    eth,   \* s_eth_link_up and s_eth_connected
    mon,   \* network_monitor_task's locals
    dns,   \* the captive DNS: socket open, tasks
    world  \* the access points in reach and the changes left

vars == <<wifi, scan, eth, mon, dns, world>>

Off == [on |-> FALSE, sta |-> "idle", conn |-> FALSE, retry |-> 0, timer |-> FALSE, lock |-> NoLock,
        finder |-> FALSE, handlers |-> 0, ap |-> FALSE]
\* wifi_init_apsta: a stopped driver registers its handlers once more
Started(w) ==
    IF w.on THEN [w EXCEPT !.retry = 0, !.ap = TRUE]
    ELSE [w EXCEPT !.on = TRUE, !.retry = 0, !.sta = "idle", !.finder = TRUE, !.handlers = @ + 1, !.ap = TRUE]
\* wifi_stop
Stopped(w) == [Off EXCEPT !.handlers = w.handlers, !.lock = w.lock]

\* app_main waits for a cable, else starts WiFi and waits for it; whichever
\* comes up meanwhile, the monitor begins with what it then sees
Init ==
    /\ \E cable \in BOOLEAN, late \in BOOLEAN :
         /\ (late => ~cable)
         /\ eth = [link |-> cable \/ late, conn |-> cable \/ late]
         /\ wifi = IF cable THEN Off ELSE Started(Off)
         /\ mon = [net |-> eth.conn, dns |-> ~eth.conn, wifi |-> ~eth.conn, eth |-> eth.conn, served |-> eth.conn]
         /\ dns = ~eth.conn
    /\ scan = "no"
    /\ world = [up |-> Aps, left |-> MaxChanges]

-----------------------------------------------------------------------------
(* wifi.c.                                                                   *)

Connect(w) == IF w.on /\ w.sta = "idle" THEN [w EXCEPT !.sta = "connecting"] ELSE w
ClearLock(w) == [w EXCEPT !.lock = NoLock]

\* event_handler on STA_DISCONNECTED, run once per registration
Dropped(w) ==
    LET n == w.retry + 1
        d == [w EXCEPT !.retry = IF n > Threshold THEN Threshold + 1 ELSE n, !.conn = FALSE]
    IN IF n < Threshold THEN Connect(d)
       ELSE [d EXCEPT !.ap = TRUE, !.timer = TRUE]
Disconnected(w) ==
    LET d == [w EXCEPT !.sta = "idle"]
    IN IF w.handlers = 1 THEN Dropped(d) ELSE Dropped(Dropped(d))

\* scan_and_connect_task: the strongest access point is locked, then connect
FindAndConnect ==
    /\ wifi.on /\ wifi.finder
    /\ \E w \in {[wifi EXCEPT !.finder = FALSE, !.lock = a] : a \in world.up}
                \cup {[wifi EXCEPT !.finder = FALSE] : x \in {1}} : wifi' = Connect(w)
    /\ UNCHANGED <<scan, eth, mon, dns, world>>

\* an attempt ends: with an address, or with STA_DISCONNECTED
Reachable(w) == IF w.lock = NoLock THEN world.up # {} ELSE w.lock \in world.up
GotIp ==
    /\ wifi.sta = "connecting" /\ Reachable(wifi)
    /\ wifi' = [wifi EXCEPT !.sta = "up", !.conn = TRUE, !.retry = 0]
    /\ UNCHANGED <<scan, eth, mon, dns, world>>
AttemptFails ==
    /\ wifi.sta = "connecting" /\ ~Reachable(wifi)
    /\ wifi' = Disconnected(wifi)
    /\ UNCHANGED <<scan, eth, mon, dns, world>>

\* the timer of schedule_retry: after the threshold the lock is dropped
\* Mutant: the lock is kept for ever.
RetryTimerLocked ==
    /\ wifi.timer
    /\ wifi' = IF wifi.conn THEN [wifi EXCEPT !.timer = FALSE] ELSE Connect([wifi EXCEPT !.timer = FALSE])
    /\ UNCHANGED <<scan, eth, mon, dns, world>>
RetryTimer ==
    /\ wifi.timer
    /\ LET w == [wifi EXCEPT !.timer = FALSE]
       IN wifi' = IF w.conn THEN w ELSE Connect(IF w.retry >= Threshold THEN ClearLock(w) ELSE w)
    /\ UNCHANGED <<scan, eth, mon, dns, world>>

\* wifi_scan: the pending retry is stopped, and started again at the end
ScanBegin ==
    /\ scan = "no" /\ wifi.on /\ world.left > 0
    /\ scan' = IF wifi.timer THEN "pending" ELSE "yes"
    /\ wifi' = ClearLock([wifi EXCEPT !.timer = FALSE])
    /\ world' = [world EXCEPT !.left = @ - 1]
    /\ UNCHANGED <<eth, mon, dns>>
\* Mutant: the retry is not started again.
ScanEndSilently ==
    /\ scan # "no" /\ scan' = "no"
    /\ UNCHANGED <<wifi, eth, mon, dns, world>>
ScanEnd ==
    /\ scan # "no" /\ scan' = "no"
    /\ wifi' = IF scan = "pending" /\ ~wifi.conn THEN [wifi EXCEPT !.timer = TRUE] ELSE wifi
    /\ UNCHANGED <<eth, mon, dns, world>>

-----------------------------------------------------------------------------
(* The surroundings.                                                         *)

ApsChange(up) ==
    /\ world.left > 0 /\ up # world.up
    /\ world' = [up |-> up, left |-> world.left - 1]
    /\ wifi' = wifi
    /\ UNCHANGED <<scan, eth, mon, dns>>
\* the link is lost with its access point, or for any other reason
LinkLost ==
    /\ wifi.sta = "up" /\ world.left > 0
    /\ world' = [world EXCEPT !.left = @ - 1]
    /\ wifi' = Disconnected(wifi)
    /\ UNCHANGED <<scan, eth, mon, dns>>
ApLost ==
    /\ wifi.sta = "up" /\ ~Reachable(wifi)
    /\ wifi' = Disconnected(wifi)
    /\ UNCHANGED <<scan, eth, mon, dns, world>>
\* eth_event_handler and eth_got_ip_handler
CableIn == ~eth.link /\ world.left > 0 /\ eth' = [eth EXCEPT !.link = TRUE]
           /\ world' = [world EXCEPT !.left = @ - 1] /\ UNCHANGED <<wifi, scan, mon, dns>>
CableAddress == eth.link /\ ~eth.conn /\ eth' = [eth EXCEPT !.conn = TRUE] /\ UNCHANGED <<wifi, scan, mon, dns, world>>
CableOut == eth.link /\ world.left > 0 /\ eth' = [link |-> FALSE, conn |-> FALSE]
            /\ world' = [world EXCEPT !.left = @ - 1] /\ UNCHANGED <<wifi, scan, mon, dns>>

-----------------------------------------------------------------------------
(* network_monitor_task, one round of two seconds.                           *)

\* Mutant: a plugged cable stops WiFi before it has an address.
MonitorRoundHasty ==
    /\ LET stop == eth.link /\ ~mon.eth /\ mon.wifi
           start == ~eth.conn /\ mon.eth
           w == IF stop THEN Stopped(wifi) ELSE IF start THEN Started(wifi) ELSE wifi
           net == eth.conn \/ w.conn
       IN /\ wifi' = w
          /\ mon' = [net |-> net, dns |-> ~net, eth |-> eth.conn,
                     wifi |-> IF stop THEN FALSE ELSE IF start THEN TRUE ELSE mon.wifi,
                     served |-> mon.served \/ net]
          /\ dns' = ~net
    /\ wifi'.handlers <= 2
    /\ UNCHANGED <<scan, eth, world>>
MonitorRound ==
    /\ LET stop == eth.conn /\ ~mon.eth /\ mon.wifi
           start == ~eth.conn /\ mon.eth
           w == IF stop THEN Stopped(wifi) ELSE IF start THEN Started(wifi) ELSE wifi
           net == eth.conn \/ w.conn
       IN /\ wifi' = w
          /\ mon' = [net |-> net, dns |-> ~net, eth |-> eth.conn,
                     wifi |-> IF stop THEN FALSE ELSE IF start THEN TRUE ELSE mon.wifi,
                     served |-> mon.served \/ net]
          /\ dns' = ~net
    /\ wifi'.handlers <= 2
    /\ UNCHANGED <<scan, eth, world>>

Next == \/ FindAndConnect \/ GotIp \/ AttemptFails \/ RetryTimer \/ ScanBegin \/ ScanEnd
        \/ (\E up \in SUBSET Aps : ApsChange(up)) \/ LinkLost \/ ApLost
        \/ CableIn \/ CableAddress \/ CableOut \/ MonitorRound

\* The tasks, the timer and the driver make progress; with an access point in
\* reach an attempt ends in an address.
Fairness == /\ WF_vars(FindAndConnect) /\ WF_vars(GotIp) /\ WF_vars(AttemptFails) /\ WF_vars(ApLost)
            /\ WF_vars(RetryTimer) /\ WF_vars(ScanEnd) /\ WF_vars(MonitorRound) /\ WF_vars(CableAddress)
Spec == Init /\ [][Next]_vars /\ Fairness

-----------------------------------------------------------------------------
(* Properties.                                                               *)

\* A station whose access point is in reach comes back by itself: neither a
\* scan of the web page, nor a lock on an access point that has gone, nor a
\* change to Ethernet and back breaks the chain of retries.
Reconnects == ((wifi.on /\ world.up # {}) ~> (wifi.conn \/ ~wifi.on \/ world.up = {}))

\* Between the rounds of the monitor, WiFi runs whenever the cable is out: the
\* device can always be reached or configured.
Reachability == ~mon.eth => wifi.on /\ wifi.ap
=============================================================================
