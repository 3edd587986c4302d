---------------------------- MODULE RtspServer ----------------------------
(***************************************************************************)
(* The AirPlay RTSP server of main/rtsp/rtsp_server.c: one accepting task  *)
(* (server_task), at most two client tasks (client_task) in the two slots  *)
(* of clients[], and the shared services every client task starts and      *)
(* stops by name: the audio receiver, the DACP session, the event-port     *)
(* task, the PTP clock and the playback state the event listeners see.     *)
(*                                                                         *)
(* A new connection replaces the one being served: it takes the other      *)
(* slot at once, and the replaced client cleans up in the background.      *)
(* Sessions are numbered in the order of their accept.  A request handler  *)
(* is one step; the check of should_stop before rtsp_dispatch and each     *)
(* global step of the clean-up are steps of their own, since these are     *)
(* what interleaves with the other client.                                 *)
(***************************************************************************)
EXTENDS Naturals, FiniteSets

CONSTANTS MaxSessions,    \* bound: connections accepted in a behaviour
          MaxRestarts,    \* bound: rtsp_server_start calls after the first
          MaxFailures,    \* bound: failed task creations and allocations
          NoOne           \* no session: a null handle, pointer or socket

ASSUME BoundsAssumption ==
    /\ MaxSessions \in Nat \ {0}
    /\ MaxRestarts \in Nat
    /\ MaxFailures \in Nat
    /\ NoOne \notin Nat

VARIABLES
    slots,      \* clients[2]: task, conn, sock, stop (should_stop), old (is_old)
    current,    \* current_slot
    server,     \* where server_task is
    running,    \* server_running
    accepted,   \* connections accepted so far; the newest session
    restarts, failures,   \* what the bounds have been spent on
    at,         \* at[s]: where the client task of s is
    slotOf,     \* slotOf[s]: slot_idx of s
    proto,      \* conn->protocol_version, "v1remote" with both DACP headers
    cut,        \* s's socket was shut down, by its peer or by the server
    evSock,     \* conn->event_socket of s is open
    receiver,   \* whose stream the audio receiver runs
    dacp,       \* whose DACP session is valid
    evt,        \* whose event socket event_port_task listens on
    ptp,        \* the PTP clock's sockets are open
    shown       \* the last playback event the listeners got

slotVars   == <<slots, current, slotOf>>
serverVars == <<server, running, accepted, restarts, failures>>
connVars   == <<proto, cut, evSock>>
shared     == <<receiver, dacp, evt, ptp, shown>>
vars       == <<slotVars, serverVars, at, connVars, shared>>

Session == 1..MaxSessions
Slot    == {0, 1}
Owner   == Session \cup {NoOne}

(* client_slot_t; has_session is set and cleared together with conn. *)
ClientSlot == [task : Owner, conn : Owner, sock : Owner,
               stop : BOOLEAN, old : BOOLEAN]

EmptySlot == [task |-> NoOne, conn |-> NoOne, sock |-> NoOne,
              stop |-> FALSE, old |-> FALSE]

Init ==
    /\ slots = [i \in Slot |-> EmptySlot]
    /\ current = 0
    /\ server = "accept"
    /\ running = TRUE
    /\ accepted = 0 /\ restarts = 0 /\ failures = 0
    /\ at = [s \in Session |-> "none"]
    /\ slotOf = [s \in Session |-> 0]
    /\ proto = [s \in Session |-> "none"]
    /\ cut = [s \in Session |-> FALSE]
    /\ evSock = [s \in Session |-> FALSE]
    /\ receiver = NoOne /\ dacp = NoOne /\ evt = NoOne
    /\ ptp = "on"
    /\ shown = "idle"

SetSlot(i, c) == slots' = [slots EXCEPT ![i] = c]

-----------------------------------------------------------------------------
(* The accepting task.                                                     *)

NextSlot == 1 - current

(* shutdown() of the socket a slot holds: its recv returns at once. *)
Shutdown(i) ==
    cut' = [s \in Session |-> cut[s] \/ slots[i].sock = s]

(* A connection comes in.  A task still in the other slot is told to stop   *)
(* and waited for, otherwise the replaced client can be signalled.          *)
Accept ==
    /\ server = "accept" /\ running
    /\ accepted < MaxSessions
    /\ accepted' = accepted + 1
    /\ IF slots[NextSlot].task # NoOne
         THEN /\ SetSlot(NextSlot, [slots[NextSlot] EXCEPT !.stop = TRUE])
              /\ Shutdown(NextSlot)
              /\ server' = "wait"
         ELSE /\ server' = "signal"
              /\ UNCHANGED <<slots, cut>>
    /\ UNCHANGED <<current, slotOf, running, restarts, failures, at, proto,
                   evSock, shared>>

SlotFreeUnchecked(i) == i \in Slot
SlotFree(i) == slots[i].task = NoOne

WaitOver ==
    /\ server = "wait"
    /\ SlotFree(NextSlot)
    /\ server' = "signal"
    /\ UNCHANGED <<slotVars, running, accepted, restarts, failures, at,
                   connVars, shared>>

(* Three seconds were not enough: the new connection is refused. *)
WaitTimeout ==
    /\ server = "wait"
    /\ slots[NextSlot].task # NoOne
    /\ at' = [at EXCEPT ![accepted] = "gone"]
    /\ server' = "accept"
    /\ UNCHANGED <<slotVars, running, accepted, restarts, failures,
                   connVars, shared>>

(* signal_old_client_stop, and a plausible slip that only marks the client. *)
SignalOldOnly ==
    /\ server = "signal"
    /\ server' = "create"
    /\ IF slots[current].task = NoOne
         THEN UNCHANGED <<slots, cut>>
         ELSE SetSlot(current,
                      [slots[current] EXCEPT !.old = TRUE]) /\ UNCHANGED cut
    /\ UNCHANGED <<current, slotOf, running, accepted, restarts, failures, at,
                   proto, evSock, shared>>

SignalOld ==
    /\ server = "signal"
    /\ server' = "create"
    /\ IF slots[current].task = NoOne
         THEN UNCHANGED <<slots, cut>>
         ELSE /\ SetSlot(current,
                         [slots[current] EXCEPT !.old = TRUE, !.stop = TRUE])
              /\ Shutdown(current)
    /\ UNCHANGED <<current, slotOf, running, accepted, restarts, failures, at,
                   proto, evSock, shared>>

(* A slot filled under the index of the other one. *)
CreateInCurrent ==
    /\ server = "create"
    /\ SetSlot(current,
               [slots[current] EXCEPT !.sock = accepted, !.stop = FALSE,
                                      !.old = FALSE, !.task = accepted])
    /\ current' = NextSlot
    /\ slotOf' = [slotOf EXCEPT ![accepted] = NextSlot]
    /\ at' = [at EXCEPT ![accepted] = "start"]
    /\ server' = "accept"
    /\ UNCHANGED <<running, accepted, restarts, failures, connVars, shared>>

(* The new client's task, in the slot that is not the current one. *)
Create ==
    /\ server = "create"
    /\ SetSlot(NextSlot,
               [slots[NextSlot] EXCEPT !.sock = accepted, !.stop = FALSE,
                                       !.old = FALSE, !.task = accepted])
    /\ current' = NextSlot
    /\ slotOf' = [slotOf EXCEPT ![accepted] = NextSlot]
    /\ at' = [at EXCEPT ![accepted] = "start"]
    /\ server' = "accept"
    /\ UNCHANGED <<running, accepted, restarts, failures, connVars, shared>>

(* xTaskCreate fails after the replaced client was told to stop. *)
CreateFails ==
    /\ server = "create"
    /\ failures < MaxFailures
    /\ failures' = failures + 1
    /\ SetSlot(NextSlot,
               [slots[NextSlot] EXCEPT !.sock = NoOne, !.stop = FALSE,
                                       !.old = FALSE, !.task = NoOne])
    /\ at' = [at EXCEPT ![accepted] = "gone"]
    /\ server' = "accept"
    /\ UNCHANGED <<current, slotOf, running, accepted, restarts, connVars,
                   shared>>

(* rtsp_server_stop: a Bluetooth source or an update takes over. *)
StopServer ==
    /\ running /\ server # "off"
    /\ running' = FALSE
    /\ UNCHANGED <<slotVars, server, accepted, restarts, failures, at,
                   connVars, shared>>

(* The accept loop ends: every client is told to stop, none is waited for. *)
ServerLeaves ==
    /\ server = "accept" /\ ~running
    /\ slots' = [i \in Slot |->
                   [slots[i] EXCEPT !.stop = @ \/ slots[i].task # NoOne]]
    /\ cut' = [s \in Session |->
                 cut[s] \/ \E i \in Slot : /\ slots[i].task # NoOne
                                           /\ slots[i].sock = s]
    /\ server' = "stopping"
    /\ UNCHANGED <<current, slotOf, running, accepted, restarts, failures, at,
                   proto, evSock, shared>>

(* 500 ms later the task is gone, whatever the clients are doing. *)
ServerGone ==
    /\ server = "stopping"
    /\ server' = "off"
    /\ UNCHANGED <<slotVars, running, accepted, restarts, failures, at,
                   connVars, shared>>

(* rtsp_server_start, server_task up to listen(): the slots are cleared. *)
StartServer ==
    /\ server = "off"
    /\ restarts < MaxRestarts
    /\ restarts' = restarts + 1
    /\ slots' = [i \in Slot |-> EmptySlot]
    /\ server' = "accept"
    /\ running' = TRUE
    /\ UNCHANGED <<current, slotOf, accepted, failures, at, connVars, shared>>

Server ==
    \/ Accept \/ WaitOver \/ WaitTimeout \/ SignalOld
    \/ Create \/ CreateFails
    \/ ServerLeaves \/ ServerGone

-----------------------------------------------------------------------------
(* A client task, while it serves requests.                                *)

Stopped(s) == slots[slotOf[s]].stop
IsOld(s)   == slots[slotOf[s]].old

Goto(s, pc) == at' = [at EXCEPT ![s] = pc]

(* The connection object is complete before it is published. *)
Start(s) ==
    /\ at[s] = "start"
    /\ SetSlot(slotOf[s], [slots[slotOf[s]] EXCEPT !.conn = s])
    /\ Goto(s, "serve")
    /\ UNCHANGED <<current, slotOf, serverVars, connVars, shared>>

(* Either allocation fails: the task withdraws without a clean-up. *)
StartFails(s) ==
    /\ at[s] = "start"
    /\ failures < MaxFailures
    /\ failures' = failures + 1
    /\ SetSlot(slotOf[s],
               [slots[slotOf[s]] EXCEPT !.conn = NoOne, !.sock = NoOne,
                                        !.task = NoOne])
    /\ Goto(s, "gone")
    /\ UNCHANGED <<current, slotOf, server, running, accepted, restarts,
                   connVars, shared>>

(* The peer closes its end. *)
PeerCloses(s) ==
    /\ at[s] = "serve" /\ ~cut[s]
    /\ cut' = [cut EXCEPT ![s] = TRUE]
    /\ UNCHANGED <<slotVars, serverVars, at, proto, evSock, shared>>

(* A whole request is in the buffer and should_stop is not set: it will be  *)
(* dispatched, even if should_stop is set from now on.                      *)
Receive(s) ==
    /\ at[s] = "serve"
    /\ running /\ ~Stopped(s) /\ ~cut[s]
    /\ slots[slotOf[s]].conn = s
    /\ Goto(s, "dispatch")
    /\ UNCHANGED <<slotVars, serverVars, connVars, shared>>

Leave(s) ==
    /\ at[s] = "serve"
    /\ ~running \/ Stopped(s) \/ cut[s]
    /\ SetSlot(slotOf[s], [slots[slotOf[s]] EXCEPT !.sock = NoOne])
    /\ Goto(s, "stopAudio")
    /\ UNCHANGED <<current, slotOf, serverVars, connVars, shared>>

(* What rtsp_dispatch does before the handler: a request with both DACP     *)
(* headers makes the DACP session this connection's.                        *)
DispatchDacp(s, p) == dacp' = IF p = "v1remote" THEN s ELSE dacp

(* SETUP with a Transport header and no plist: AirPlay 1. *)
SetupV1(s) ==
    /\ at[s] = "dispatch" /\ proto[s] = "none"
    /\ \E p \in {"v1", "v1remote"} :
         /\ proto' = [proto EXCEPT ![s] = p]
         /\ DispatchDacp(s, p)
    /\ ptp' = "off"
    /\ Goto(s, "serve")
    /\ UNCHANGED <<slotVars, serverVars, cut, evSock, receiver, evt, shown>>

(* The first AirPlay 2 SETUP opens the event port; rtsp_start_event_port_   *)
(* task first stops the task that runs, whoever's it is.                    *)
SetupV2(s) ==
    /\ at[s] = "dispatch" /\ proto[s] = "none"
    /\ proto' = [proto EXCEPT ![s] = "v2"]
    /\ evSock' = [evSock EXCEPT ![s] = TRUE]
    /\ evt' = s
    /\ Goto(s, "serve")
    /\ UNCHANGED <<slotVars, serverVars, cut, receiver, dacp, ptp, shown>>

(* Stream SETUP, RECORD or SETRATEANCHORTIME with a rate: the stream runs. *)
Play(s) ==
    /\ at[s] = "dispatch" /\ proto[s] # "none"
    /\ receiver' = s
    /\ shown' = "playing"
    /\ DispatchDacp(s, proto[s])
    /\ Goto(s, "serve")
    /\ UNCHANGED <<slotVars, serverVars, connVars, evt, ptp>>

(* SETRATEANCHORTIME with rate 0: playout stops, the stream stays. *)
Pause(s) ==
    /\ at[s] = "dispatch" /\ proto[s] # "none"
    /\ shown' = "paused"
    /\ DispatchDacp(s, proto[s])
    /\ Goto(s, "serve")
    /\ UNCHANGED <<slotVars, serverVars, connVars, receiver, evt, ptp>>

(* TEARDOWN, of the streams or of the session.  Only a session TEARDOWN of  *)
(* a connection that is not AirPlay 1 drops the DACP session.               *)
Teardown(s) ==
    /\ at[s] = "dispatch" /\ proto[s] # "none"
    /\ receiver' = NoOne
    /\ \/ /\ shown' = "paused"
          /\ DispatchDacp(s, proto[s])
       \/ /\ shown' = shown
          /\ dacp' = IF proto[s] = "v2" THEN NoOne
                     ELSE IF proto[s] = "v1remote" THEN s ELSE dacp
    /\ Goto(s, "serve")
    /\ UNCHANGED <<slotVars, serverVars, connVars, evt, ptp>>

(* Every other request: pairing, volume, metadata, feedback. *)
OtherRequest(s) ==
    /\ at[s] = "dispatch"
    /\ DispatchDacp(s, proto[s])
    /\ Goto(s, "serve")
    /\ UNCHANGED <<slotVars, serverVars, connVars, receiver, evt, ptp, shown>>

Handle(s) ==
    \/ SetupV1(s) \/ SetupV2(s) \/ Play(s) \/ Pause(s) \/ Teardown(s)
    \/ OtherRequest(s)

-----------------------------------------------------------------------------
(* The clean-up of a client task, step by step.                            *)

(* audio_receiver_stop, audio_output_flush, ntp_clock_stop: whoever's. *)
StopAudio(s) ==
    /\ at[s] = "stopAudio"
    /\ receiver' = NoOne
    /\ Goto(s, "depart")
    /\ UNCHANGED <<slotVars, serverVars, connVars, dacp, evt, ptp, shown>>

(* A departure that only disconnects clients nobody stopped. *)
DepartSilently(s) ==
    /\ at[s] = "depart"
    /\ IF Stopped(s)
         THEN shown' = shown /\ Goto(s, "ports")
         ELSE IF proto[s] = "v1remote"
                THEN shown' = "paused" /\ Goto(s, "grace")
                ELSE shown' = shown /\ Goto(s, "clear")
    /\ UNCHANGED <<slotVars, serverVars, connVars, receiver, dacp, evt, ptp>>

(* An AirPlay 1 phone that closed the connection itself may only be pausing *)
(* and gets a grace period, everyone else is disconnected.                  *)
Depart(s) ==
    /\ at[s] = "depart"
    /\ IF proto[s] = "v1remote" /\ ~Stopped(s)
         THEN shown' = "paused" /\ Goto(s, "grace")
         ELSE shown' = shown /\ Goto(s, "clear")
    /\ UNCHANGED <<slotVars, serverVars, connVars, receiver, dacp, evt, ptp>>

AfterGrace(s) == Goto(s, IF IsOld(s) THEN "ports" ELSE "clear")

(* A grace period that only a probe ends. *)
GraceCutAtProbeOnly(s) ==
    /\ at[s] = "grace" /\ Stopped(s)
    /\ UNCHANGED vars

(* should_stop ends the grace period: is_old tells a reconnect from the end. *)
GraceCut(s) ==
    /\ at[s] = "grace" /\ Stopped(s)
    /\ AfterGrace(s)
    /\ UNCHANGED <<slotVars, serverVars, connVars, shared>>

(* A probe finds the phone's DACP service gone. *)
PhoneGone(s) ==
    /\ at[s] = "grace"
    /\ AfterGrace(s)
    /\ UNCHANGED <<slotVars, serverVars, connVars, shared>>

(* dacp_clear_session and RTSP_EVENT_DISCONNECTED. *)
Clear(s) ==
    /\ at[s] = "clear"
    /\ dacp' = NoOne
    /\ shown' = "disconnected"
    /\ Goto(s, "ports")
    /\ UNCHANGED <<slotVars, serverVars, connVars, receiver, evt, ptp>>

(* is_old is read once; what it decides is done in the step after. *)
Ports(s) ==
    /\ at[s] = "ports"
    /\ Goto(s, IF IsOld(s) THEN "portsOwn" ELSE "portsAll")
    /\ UNCHANGED <<slotVars, serverVars, connVars, shared>>

(* Not replaced: ptp_clock_init, and the event-port task stops. *)
PortsAll(s) ==
    /\ at[s] = "portsAll"
    /\ ptp' = "on"
    /\ evt' = NoOne
    /\ evSock' = [evSock EXCEPT ![s] = FALSE]
    /\ Goto(s, "unpublish")
    /\ UNCHANGED <<slotVars, serverVars, proto, cut, receiver, dacp, shown>>

(* Replaced: only an event-port task on this connection's socket stops. *)
PortsOwnSkipped(s) ==
    /\ at[s] = "portsOwn"
    /\ evSock' = [evSock EXCEPT ![s] = FALSE]
    /\ Goto(s, "unpublish")
    /\ UNCHANGED <<slotVars, serverVars, proto, cut, shared>>

PortsOwn(s) ==
    /\ at[s] = "portsOwn"
    /\ evt' = IF evt = s THEN NoOne ELSE evt
    /\ evSock' = [evSock EXCEPT ![s] = FALSE]
    /\ Goto(s, "unpublish")
    /\ UNCHANGED <<slotVars, serverVars, proto, cut, receiver, dacp, ptp, shown>>

(* has_session and slot->conn are withdrawn before the object is freed. *)
UnpublishFlagOnly(s) ==
    /\ at[s] = "unpublish"
    /\ Goto(s, "free")
    /\ UNCHANGED <<slotVars, serverVars, connVars, shared>>

Unpublish(s) ==
    /\ at[s] = "unpublish"
    /\ SetSlot(slotOf[s], [slots[slotOf[s]] EXCEPT !.conn = NoOne])
    /\ Goto(s, "free")
    /\ UNCHANGED <<current, slotOf, serverVars, connVars, shared>>

Free(s) ==
    /\ at[s] = "free"
    /\ Goto(s, "release")
    /\ UNCHANGED <<slotVars, serverVars, connVars, shared>>

(* From here on server_task may hand the slot to the next client ... *)
Release(s) ==
    /\ at[s] = "release"
    /\ SetSlot(slotOf[s],
               [slots[slotOf[s]] EXCEPT !.sock = NoOne, !.task = NoOne])
    /\ Goto(s, "reset")
    /\ UNCHANGED <<current, slotOf, serverVars, connVars, shared>>

(* ... and these two flags may already be the next client's. *)
Reset(s) ==
    /\ at[s] = "reset"
    /\ SetSlot(slotOf[s],
               [slots[slotOf[s]] EXCEPT !.stop = FALSE, !.old = FALSE])
    /\ Goto(s, "gone")
    /\ UNCHANGED <<current, slotOf, serverVars, connVars, shared>>

CleanUp(s) ==
    \/ StopAudio(s) \/ Depart(s) \/ GraceCut(s) \/ Clear(s)
    \/ Ports(s) \/ PortsAll(s) \/ PortsOwn(s)
    \/ Unpublish(s) \/ Free(s) \/ Release(s) \/ Reset(s)

(* What a client task does by itself, once started ... *)
Client(s) == Start(s) \/ Handle(s) \/ Leave(s) \/ CleanUp(s)

(* ... and what its peer, its phone or the heap decides. *)
Outside(s) == StartFails(s) \/ PeerCloses(s) \/ Receive(s) \/ PhoneGone(s)

Next ==
    \/ Server \/ StopServer \/ StartServer
    \/ \E s \in Session : Client(s) \/ Outside(s)

Spec == Init /\ [][Next]_vars

(* FreeRTOS runs every ready task, and no step of a client waits for ever:  *)
(* each receive, delay and wait in client_task has a timeout.               *)
FairSpec == Spec /\ WF_vars(Server) /\ \A s \in Session : WF_vars(Client(s))

-----------------------------------------------------------------------------
(* Properties.                                                             *)

(* Every variable has its type, and a slot's task knows the slot it is in   *)
(* (the slot_idx client_task is given).                                     *)
TypeOK ==
    /\ slots \in [Slot -> ClientSlot]
    /\ current \in Slot
    /\ server \in {"accept", "wait", "signal", "create", "stopping", "off"}
    /\ running \in BOOLEAN
    /\ accepted \in 0..MaxSessions
    /\ restarts \in 0..MaxRestarts
    /\ failures \in 0..MaxFailures
    /\ at \in [Session -> {"none", "start", "serve", "dispatch", "stopAudio",
                           "depart", "grace", "clear", "ports", "portsAll",
                           "portsOwn", "unpublish", "free", "release",
                           "reset", "gone"}]
    /\ slotOf \in [Session -> Slot]
    /\ proto \in [Session -> {"none", "v1", "v1remote", "v2"}]
    /\ cut \in [Session -> BOOLEAN]
    /\ evSock \in [Session -> BOOLEAN]
    /\ receiver \in Owner /\ dacp \in Owner /\ evt \in Owner
    /\ ptp \in {"on", "off"}
    /\ shown \in {"idle", "playing", "paused", "disconnected"}
    /\ \A i \in Slot : slots[i].task # NoOne => slotOf[slots[i].task] = i

(* The task of s runs and has not given its slot back. *)
HoldsSlot(s) == at[s] \notin {"none", "reset", "gone"}
Over(s)      == at[s] = "gone" \/ s > accepted

(* Unless the server was restarted, two client tasks never work on the same *)
(* slot, whatever the order in which connections replace each other.        *)
(* ("... we MUST NOT reuse until the old task is deleted", rtsp_server.c.)   *)
OneTaskPerSlot ==
    restarts = 0 =>
        \A s, t \in Session :
            HoldsSlot(s) /\ HoldsSlot(t) /\ slotOf[s] = slotOf[t] => s = t

(* A connection that other tasks can reach through its slot is not freed,   *)
(* whatever the stops, replacements and restarts of the server.             *)
Publishing == {"serve", "dispatch", "stopAudio", "depart", "grace", "clear",
               "ports", "portsAll", "portsOwn", "unpublish"}
PublishedConnLives ==
    \A i \in Slot :
        slots[i].conn # NoOne => at[slots[i].conn] \in Publishing

(* At most one client can still have a request accepted: the replaced one   *)
(* was told to stop before its successor was created.                       *)
Serving(s) == at[s] = "serve" /\ ~Stopped(s) /\ ~cut[s]
OneClientServed ==
    restarts = 0 => \A s, t \in Session : Serving(s) /\ Serving(t) => s = t

(* The event-port task never selects on a socket its connection closed. *)
EventSocketOpen == evt # NoOne => evSock[evt]

(* When the last session is over nothing of it is left: no stream, no event *)
(* port, no "playing" shown to the listeners, and no DACP session of a      *)
(* phone that is gone, unless a task or its memory could not be created.    *)
RestIsClean ==
    (\A s \in Session : Over(s)) =>
        /\ receiver = NoOne
        /\ evt = NoOne
        /\ shown # "playing"
        /\ failures = 0 => dacp = NoOne

(* A replaced client ends its clean-up, even inside the grace period. *)
ReplacedClientEnds ==
    \A s \in Session :
        (HoldsSlot(s) /\ IsOld(s)) ~> (at[s] = "gone" \/ restarts > 0)

(* "to avoid killing a new session's audio during client replacement"       *)
(* (rtsp_conn.c): while a client serves, no other task stops its stream.    *)
StreamSurvivesReplacement ==
    [][\A s \in Session :
         receiver = s /\ Serving(s) /\ receiver' = NoOne => at'[s] # at[s]]_vars

(* "the new session's SETUP already manages PTP" (rtsp_server.c): with one  *)
(* client left, and that an AirPlay 2 client that plays, the PTP clock runs. *)
PtpRunsForAirPlay2 ==
    \A s \in Session :
        /\ Serving(s) /\ proto[s] = "v2" /\ receiver = s
        /\ \A t \in Session \ {s} : Over(t)
        => ptp = "on"
=============================================================================
