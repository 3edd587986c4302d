----------------------------- MODULE NtpClock -----------------------------
(* The NTP client of main/network/ntp_clock.c, AirPlay 1's clock: the history *)
(* of measurements, the best of which is the offset, and the life of its      *)
(* task between the client task that cleans up and the one that sets up.  A   *)
(* measurement is the two delays of its packets; sender t runs Ahead(t).      *)
EXTENDS Integers

CONSTANTS History, MinMeasurements,   \* TIMING_HISTORY_SIZE, MIN_MEASUREMENTS
          MaxDelay, Limit,            \* bound: the delay of a packet; the longest round trip taken
          MaxStarts                   \* bound: calls of start and stop

ASSUME HistoryAssumption == History \in Nat \ {0} /\ MaxDelay \in Nat

VARIABLES
    ntp,       \* the structure ntp
    task,      \* ntp_task: none, in its first delay, in its loop
    stopper,   \* ntp_clock_stop of the client that leaves
    starter,   \* ntp_clock_start_client of the client that comes: none, stopping or waiting, for which sender
    asked,     \* a request that is not answered
    starts     \* calls so far

vars == <<ntp, task, stopper, starter, asked, starts>>

Senders == {1, 2}
Ahead(t) == 10 * t
Slots == 0..(History - 1)
Zeroed == [i \in Slots |-> 0]
NoStart == [at |-> "none", to |-> 0]
Init == /\ ntp = [run |-> FALSE, to |-> 0, locked |-> FALSE, offset |-> 0, off |-> Zeroed, disp |-> Zeroed, count |-> 0, index |-> 0]
        /\ task = "none" /\ stopper = "none" /\ starter = NoStart /\ asked = FALSE /\ starts = 0

\* ntp_clock_stop, before and after its wait for the task
StopBegin == /\ stopper = "none" /\ ntp.run /\ starter = NoStart /\ starts < MaxStarts
             /\ ntp' = [ntp EXCEPT !.run = FALSE] /\ stopper' = "wait" /\ starts' = starts + 1
             /\ UNCHANGED <<task, starter, asked>>
Forgotten(n) == [n EXCEPT !.locked = FALSE, !.count = 0]
\* a task that was started meanwhile is waited for as well, in vain
StopEnd == /\ stopper = "wait" /\ (task = "none" \/ ntp.run)
           /\ ntp' = Forgotten(ntp) /\ stopper' = "none" /\ UNCHANGED <<task, starter, asked, starts>>
\* ntp_clock_start_client: kept for the same sender, stopped for another
StartBegin(t) ==
    /\ starter = NoStart /\ starts < MaxStarts /\ starts' = starts + 1
    /\ IF ntp.run /\ ntp.to = t THEN UNCHANGED <<ntp, starter>>
       ELSE IF ntp.run THEN ntp' = [ntp EXCEPT !.run = FALSE] /\ starter' = [at |-> "stopping", to |-> t]
       ELSE starter' = [at |-> "waiting", to |-> t] /\ UNCHANGED ntp
    /\ UNCHANGED <<task, stopper, asked>>
StartStopped == /\ starter.at = "stopping" /\ task = "none" /\ ntp' = Forgotten(ntp)
                /\ starter' = [starter EXCEPT !.at = "waiting"] /\ UNCHANGED <<task, stopper, asked, starts>>
\* Mutant: the history of the last sender is kept.
FreshKept(t) == [ntp EXCEPT !.run = TRUE, !.to = t, !.locked = FALSE, !.offset = 0]
Fresh(t) == [ntp EXCEPT !.run = TRUE, !.to = t, !.locked = FALSE, !.offset = 0, !.count = 0, !.index = 0, !.off = Zeroed, !.disp = Zeroed]
StartGo == /\ starter.at = "waiting" /\ task = "none"
           /\ ntp' = Fresh(starter.to) /\ task' = "delay" /\ starter' = NoStart /\ asked' = FALSE
           /\ UNCHANGED <<stopper, starts>>
StartFails == /\ starter.at = "waiting" /\ starter' = NoStart
              /\ UNCHANGED <<ntp, task, stopper, asked, starts>>

-----------------------------------------------------------------------------
(* ntp_task.                                                                 *)

\* the first 300 ms, then a request every three seconds
TaskBegin == /\ task = "delay" /\ task' = "loop" /\ UNCHANGED <<ntp, stopper, starter, asked, starts>>
Request == /\ task = "loop" /\ ntp.run /\ ~asked /\ asked' = TRUE /\ UNCHANGED <<ntp, task, stopper, starter, starts>>
TaskEnd == /\ task = "loop" /\ ~ntp.run /\ task' = "none" /\ UNCHANGED <<ntp, stopper, starter, asked, starts>>
\* process_timing_response: the answer took out and back
Best(n, off, disp) ==
    LET near == {i \in 0..(n.count - 1) : n.disp[i] < disp}
    IN IF near = {} THEN off
       ELSE n.off[CHOOSE i \in near : \A j \in near : n.disp[i] < n.disp[j] \/ (n.disp[i] = n.disp[j] /\ i <= j)]
Response(out, back) ==
    /\ task = "loop" /\ ntp.run /\ asked /\ asked' = FALSE
    /\ LET off == Ahead(ntp.to) + (out + back) \div 2 - back
           disp == (out + back) \div 2
           n == [ntp EXCEPT !.off[ntp.index] = off, !.disp[ntp.index] = disp, !.index = (@ + 1) % History,
                            !.count = IF @ < History THEN @ + 1 ELSE @]
       IN ntp' = IF out + back > Limit THEN ntp
                 ELSE [n EXCEPT !.offset = Best(n, off, disp), !.locked = @ \/ n.count >= MinMeasurements]
    /\ UNCHANGED <<task, stopper, starter, starts>>
Lost == /\ asked /\ asked' = FALSE /\ UNCHANGED <<ntp, task, stopper, starter, starts>>

Next == \/ StopBegin \/ StopEnd \/ StartStopped \/ StartGo \/ StartFails \/ TaskBegin \/ TaskEnd \/ Request \/ Lost
        \/ \E t \in Senders : StartBegin(t)
        \/ \E o \in 0..MaxDelay, b \in 0..MaxDelay : Response(o, b)
Spec == Init /\ [][Next]_vars

\* The offset in use comes from a measurement of this sender: its error is at
\* most half of what the packets took, whatever stops and starts met.
OffsetMeasured == task = "loop" /\ ntp.run /\ ntp.count > 0 =>
    \E i \in Slots : ntp.offset = ntp.off[i] /\ (ntp.offset - Ahead(ntp.to)) \in (-1 - ntp.disp[i])..(1 + ntp.disp[i])
=============================================================================
