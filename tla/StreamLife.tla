----------------------------- MODULE StreamLife -----------------------------
(* The tasks and sockets of the two streams of audio_receiver.c: how          *)
(* audio_stream_realtime.c and audio_stream_buffered.c start and stop them.   *)
(* The requests come one after another; the tasks run beside them, and a      *)
(* number a stream gives back may be the next socket of somebody else.        *)
EXTENDS Integers, Sequences, FiniteSets

CONSTANTS Fds,       \* the socket numbers
          MaxCalls   \* bound: requests, connections of the sender and faults

VARIABLES
    fd,      \* whose each number is
    rt,      \* realtime: running, data_socket, control_socket, its two tasks
    bf,      \* buffered: running, its two sockets, its task and the client it reads
    stream,  \* receiver.stream
    todo,    \* what the request at work has still to call
    calls    \* what the bound has been spent on

vars == <<fd, rt, bf, stream, todo, calls>>

None == 0
Kinds == {"data", "ctrl", "listen", "client", "other"}
Init == /\ fd = [s \in Fds |-> "free"]
        /\ rt = [running |-> FALSE, data |-> None, ctrl |-> None, task |-> FALSE, control |-> FALSE]
        /\ bf = [running |-> FALSE, listen |-> None, client |-> None, task |-> "none", sock |-> None]
        /\ stream = "rt" /\ todo = <<>> /\ calls = 0

Free == {s \in Fds : fd[s] = "free"}
Own(s, kind) == s # None /\ fd[s] = kind
Closed(f, s) == IF s = None THEN f ELSE [f EXCEPT ![s] = "free"]
Spend == calls < MaxCalls /\ calls' = calls + 1

-----------------------------------------------------------------------------
(* The requests.                                                             *)

If(b, s) == IF b THEN <<s>> ELSE <<>>
Idle == todo = <<>> /\ Spend
\* audio_receiver_start: the other stream is stopped, then this one, then started
SetupRealtime == /\ Idle /\ stream' = "rt" /\ UNCHANGED <<fd, rt, bf>>
                 /\ todo' = If(stream = "bf" /\ bf.running, "stopBf") \o If(rt.running, "stopRt") \o <<"startRt">>
\* audio_receiver_start_buffered: a stream that runs is kept
SetupBuffered == /\ Idle /\ stream' = "bf" /\ UNCHANGED <<fd, rt, bf>>
                 /\ todo' = If(stream = "rt" /\ rt.running, "stopRt") \o If(~bf.running, "startBf")
\* audio_receiver_stop
Teardown == Idle /\ todo' = <<"stopRt", "stopBf">> /\ UNCHANGED <<fd, rt, bf, stream>>
\* audio_receiver_stop_buffered_only
TeardownBuffered == Idle /\ todo' = <<"stopBf">> /\ UNCHANGED <<fd, rt, bf, stream>>

At(s) == todo # <<>> /\ Head(todo) = s
Done == todo' = Tail(todo)
Wait(s) == todo' = <<s>> \o Tail(todo)
RtTasks == rt.task \/ rt.control

-----------------------------------------------------------------------------
(* audio_stream_realtime.c.                                                  *)

RtStop == /\ At("stopRt") /\ UNCHANGED <<bf, stream, calls>>
          /\ IF ~rt.running /\ ~RtTasks THEN Done /\ UNCHANGED <<fd, rt>>
             ELSE /\ fd' = Closed(Closed(fd, rt.data), rt.ctrl)
                  /\ rt' = [rt EXCEPT !.running = FALSE, !.data = None, !.ctrl = None] /\ Wait("waitRt")
\* realtime_wait_for_tasks_stopped; after a second it gives up
RtWait == At("waitRt") /\ ~RtTasks /\ Done /\ UNCHANGED <<fd, rt, bf, stream, calls>>
RtWaitGivesUp == At("waitRt") /\ RtTasks /\ Spend /\ Done /\ UNCHANGED <<fd, rt, bf, stream>>
\* realtime_start: what runs is kept, what is stopping is waited for, or refused
RtStart(withControl) ==
    /\ At("startRt") /\ ~rt.running /\ ~RtTasks /\ Done
    /\ \E d \in Free : \E c \in IF withControl THEN Free \ {d} ELSE {None} :
          /\ fd' = [s \in Fds |-> IF s = d THEN "data" ELSE IF s = c THEN "ctrl" ELSE fd[s]]
          /\ rt' = [running |-> TRUE, data |-> d, ctrl |-> c, task |-> TRUE, control |-> withControl]
    /\ UNCHANGED <<bf, stream, calls>>
RtStartKept == At("startRt") /\ rt.running /\ Done /\ UNCHANGED <<fd, rt, bf, stream, calls>>
RtStartRefused == At("startRt") /\ ~rt.running /\ RtTasks /\ Spend /\ Done /\ UNCHANGED <<fd, rt, bf, stream>>
\* a socket or the first task cannot be made: nothing is left
RtStartFails == At("startRt") /\ ~rt.running /\ ~RtTasks /\ Spend /\ Done /\ UNCHANGED <<fd, rt, bf, stream>>
\* the second task cannot be made: the first is stopped again
RtStartHalf == /\ At("startRt") /\ ~rt.running /\ ~RtTasks /\ Spend /\ Wait("waitRt")
               /\ rt' = [rt EXCEPT !.task = TRUE] /\ UNCHANGED <<fd, bf, stream>>
\* receiver_task: it ends when it is stopped, or when its socket fails
RtTaskEnds == /\ rt.task /\ (~rt.running \/ ~Own(rt.data, "data"))
              /\ rt' = [rt EXCEPT !.task = FALSE] /\ UNCHANGED <<fd, bf, stream, todo, calls>>
RtTaskFails == /\ rt.task /\ rt.running /\ Spend
               /\ rt' = [rt EXCEPT !.task = FALSE] /\ UNCHANGED <<fd, bf, stream, todo>>
\* control_receiver_task waits for ever: a close wakes it
ControlEnds == /\ rt.control /\ ~Own(rt.ctrl, "ctrl")
               /\ rt' = [rt EXCEPT !.control = FALSE] /\ UNCHANGED <<fd, bf, stream, todo, calls>>

-----------------------------------------------------------------------------
(* audio_stream_buffered.c.                                                  *)

BfStop == /\ At("stopBf") /\ UNCHANGED <<rt, stream, calls>>
          /\ IF ~bf.running /\ bf.task = "none" THEN Done /\ UNCHANGED <<fd, bf>>
             ELSE /\ fd' = Closed(Closed(fd, bf.client), bf.listen)
                  /\ bf' = [bf EXCEPT !.running = FALSE, !.client = None, !.listen = None] /\ Wait("waitBf")
BfWait == At("waitBf") /\ bf.task = "none" /\ Done /\ UNCHANGED <<fd, rt, bf, stream, calls>>
BfWaitGivesUp == At("waitBf") /\ bf.task # "none" /\ Spend /\ Done /\ UNCHANGED <<fd, rt, bf, stream>>
BfStart == /\ At("startBf") /\ bf.task = "none" /\ Done
           /\ \E l \in Free : /\ fd' = [fd EXCEPT ![l] = "listen"]
                              /\ bf' = [bf EXCEPT !.running = TRUE, !.listen = l, !.task = "accept"]
           /\ UNCHANGED <<rt, stream, calls>>
BfStartFails == At("startBf") /\ Spend /\ Done /\ UNCHANGED <<fd, rt, bf, stream>>
\* buffered_audio_task: it looks for the sender ten times a second
TaskLeaves == /\ bf.task = "accept" /\ ~bf.running
              /\ bf' = [bf EXCEPT !.task = "none"] /\ UNCHANGED <<fd, rt, stream, todo, calls>>
Accept == /\ bf.task = "accept" /\ bf.running /\ Own(bf.listen, "listen") /\ Spend
          /\ \E s \in Free : fd' = [fd EXCEPT ![s] = "client"] /\ bf' = [bf EXCEPT !.task = "accepted", !.sock = s]
          /\ UNCHANGED <<rt, stream, todo>>
AcceptKept == /\ bf.task = "accepted" /\ bf' = [bf EXCEPT !.task = "read", !.client = bf.sock]
              /\ UNCHANGED <<fd, rt, stream, todo, calls>>
\* read_exact: stopped, its socket closed, or a broken packet or connection
Dropped(b) == b.task = "read" /\ bf' = [b EXCEPT !.task = "close"] /\ UNCHANGED <<fd, rt, stream, todo>>
ReadStops == (~bf.running \/ ~Own(bf.sock, "client")) /\ Dropped(bf) /\ UNCHANGED calls
ReadFails == bf.running /\ Own(bf.sock, "client") /\ Spend /\ Dropped(bf)
\* Mutant: the number goes, the socket stays.
ForgetClient == /\ bf.task = "close" /\ bf' = [bf EXCEPT !.task = "closed"] /\ UNCHANGED <<fd, rt, stream, todo, calls>>
\* its own close follows that of buffered_stop, whosever the number is by then
CloseClient == /\ bf.task = "close" /\ fd' = Closed(fd, bf.sock)
               /\ bf' = [bf EXCEPT !.task = "closed"] /\ UNCHANGED <<rt, stream, todo, calls>>
ClientClosed == /\ bf.task = "closed" /\ bf' = [bf EXCEPT !.task = "accept", !.sock = None, !.client = None]
                /\ UNCHANGED <<fd, rt, stream, todo, calls>>

-----------------------------------------------------------------------------
\* another task opens a socket
Other == /\ Spend /\ \E s \in Free : fd' = [fd EXCEPT ![s] = "other"] /\ UNCHANGED <<rt, bf, stream, todo>>

Requests == SetupRealtime \/ SetupBuffered \/ Teardown \/ TeardownBuffered
Calls == \/ RtStop \/ RtWait \/ RtStartKept \/ \E b \in BOOLEAN : RtStart(b)
         \/ BfStop \/ BfWait \/ BfStart
Faults == RtWaitGivesUp \/ RtStartRefused \/ RtStartFails \/ RtStartHalf \/ RtTaskFails
          \/ BfWaitGivesUp \/ BfStartFails \/ ReadFails
RtTask == RtTaskEnds
BfTask == TaskLeaves \/ AcceptKept \/ ReadStops \/ CloseClient \/ ClientClosed
Next == Requests \/ Calls \/ Faults \/ RtTask \/ ControlEnds \/ BfTask \/ Accept \/ Other
Fairness == WF_vars(Calls) /\ WF_vars(RtTask) /\ WF_vars(ControlEnds) /\ WF_vars(BfTask)
Spec == Init /\ [][Next]_vars /\ Fairness

-----------------------------------------------------------------------------
(* Properties.                                                               *)

Resting == /\ todo = <<>> /\ ~RtTasks /\ bf.task = "none"
           /\ \A s \in Fds : fd[s] \in {"free", "other"}
\* However its stop was given up, failed or met a task, a stream that is not
\* running has ended its tasks and given every socket back in the end.
StopsClean == <>[](~rt.running /\ ~bf.running /\ todo = <<>> => Resting)
=============================================================================
