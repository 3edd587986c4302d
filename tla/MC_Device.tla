------------------------------ MODULE MC_Device ------------------------------
(* The device around the AirPlay session for TLC: Bluetooth, the networks, the*)
(* web server and the buttons, each of which must always move on.            *)
(* A behaviour is one of one part; the other parts stay where they are.  The *)
(* web server and the Bluetooth sink are extended, not instantiated: their   *)
(* properties are the proved ones.                                           *)
EXTENDS WebServer, BtSink, Integers, Sequences

VARIABLES part,
          co, q, coapp, bt, air, clog,
          station, scan, eth, mon, dns, world,
          level, pressed, timers, clicks, queue, off, edges

C == INSTANCE BtCoex WITH QueueLen <- 8, MaxEvents <- 6, app <- coapp, log <- clog
N == INSTANCE Network WITH Aps <- {1, 2}, Threshold <- 5, MaxChanges <- 4, wifi <- station
B == INSTANCE Buttons WITH QueueLen <- 2, MaxEdges <- 8, count <- clicks

coexVars == <<co, q, coapp, bt, air, clog>>
netVars == <<station, scan, eth, mon, dns, world>>
buttonsVars == <<level, pressed, timers, clicks, queue, off, edges>>
allVars == <<part, coexVars, sinkVars, netVars, vars, buttonsVars>>

\* Of a part that stays where it is one initial state is enough, one in which nothing is due.
Pinned ==
    /\ part = "net" \/ (station = N!Off /\ eth = [link |-> TRUE, conn |-> TRUE])
    /\ part = "web" \/ (sd = "none" /\ mounted = TRUE /\ pass = "")
DeviceInit ==
        /\ part \in {"coex", "sink", "net", "web", "buttons"}
        /\ Pinned
        /\ C!Init /\ SinkInit /\ N!Init /\ Init /\ B!Init
DeviceNext ==
        /\ UNCHANGED part
        /\ \/ part = "coex" /\ C!Next
              /\ UNCHANGED sinkVars /\ UNCHANGED netVars /\ UNCHANGED vars /\ UNCHANGED buttonsVars
           \/ part = "sink" /\ SinkNext
              /\ UNCHANGED coexVars /\ UNCHANGED netVars /\ UNCHANGED vars /\ UNCHANGED buttonsVars
           \/ part = "net" /\ N!Next
              /\ UNCHANGED coexVars /\ UNCHANGED sinkVars /\ UNCHANGED vars /\ UNCHANGED buttonsVars
           \/ part = "web" /\ Next
              /\ UNCHANGED coexVars /\ UNCHANGED sinkVars /\ UNCHANGED netVars /\ UNCHANGED buttonsVars
           \/ part = "buttons" /\ B!Next
              /\ UNCHANGED coexVars /\ UNCHANGED sinkVars /\ UNCHANGED netVars /\ UNCHANGED vars
DeviceSpec == DeviceInit /\ [][DeviceNext]_allVars /\ C!Fairness /\ SinkFairness /\ N!Fairness /\ Fairness /\ B!Fairness
-----------------------------------------------------------------------------
\* The properties of the parts, at the names they have in their modules.
BluetoothReturns == C!BluetoothReturns
Reconnects == N!Reconnects /\ []N!Reachability
EveryPressAnswered == B!EveryPressAnswered
=============================================================================
