-------------------------------- MODULE Dacp --------------------------------
(* The DACP client of main/dacp_client.c: the RTSP tasks set and clear the   *)
(* session, the buttons queue commands, and one worker finds the remote's    *)
(* port through mDNS and sends the requests.  The worker holds the lock only *)
(* while it copies the session, so the session may change under its feet.    *)
EXTENDS Naturals, Sequences

CONSTANTS Ids,        \* DACP identifiers of the phones; "" is none
          QueueLen,   \* CMD_QUEUE_LEN
          MaxOps      \* bound: sessions set and cleared, and commands queued

VARIABLES sess,     \* [id, token, port, failed]: the statics under s_mutex; port is the phone it leads to
          valid,    \* s_session_valid
          queue,    \* s_cmd_queue: "discover" or "command"
          worker,   \* what the worker does, and what it copied: [at, id, port]
          ops, dropped, refused  \* bound; this session's sentinel found the queue full, a request of it failed
state == <<sess, valid>>
vars == <<sess, valid, queue, worker, ops, dropped, refused>>

None == [id |-> "", token |-> FALSE, port |-> "", failed |-> FALSE]
Waiting == [at |-> "queue", id |-> "", port |-> ""]
Init == /\ sess = None /\ valid = FALSE /\ queue = <<>> /\ worker = Waiting
        /\ ops = 0 /\ dropped = FALSE /\ refused = FALSE

Operation == ops < MaxOps /\ ops' = ops + 1
\* (a mutant: a new token of the same session forgets the port too, and asks for no discovery)
SetSessionForgetting(id, token) ==
    /\ Operation /\ UNCHANGED worker
    /\ sess' = [None EXCEPT !.id = id, !.token = token]
    /\ IF valid /\ sess.id = id
       THEN UNCHANGED <<valid, queue, dropped, refused>>
       ELSE /\ valid' = (id # "" /\ token)
            /\ queue' = IF valid' /\ Len(queue) < QueueLen THEN <<"discover">> \o queue ELSE queue
            /\ dropped' = (valid' /\ Len(queue) = QueueLen) /\ refused' = FALSE
\* dacp_set_session: the same id with a new token keeps the port; anything else forgets it and asks for a
\* discovery ahead of the commands, if the queue has room.
SetSession(id, token) ==
    /\ Operation /\ UNCHANGED worker
    /\ IF valid /\ sess.id = id
       THEN sess' = [sess EXCEPT !.token = token] /\ UNCHANGED <<valid, queue, dropped, refused>>
       ELSE /\ sess' = [None EXCEPT !.id = id, !.token = token]
            /\ valid' = (id # "" /\ token)
            /\ queue' = IF valid' /\ Len(queue) < QueueLen THEN <<"discover">> \o queue ELSE queue
            /\ dropped' = (valid' /\ Len(queue) = QueueLen) /\ refused' = FALSE
ClearSession == /\ Operation /\ sess' = None /\ valid' = FALSE
                /\ UNCHANGED <<queue, worker, dropped, refused>>
\* send_dacp_request behind every dacp_send_*: dropped when the queue is full.
Send == /\ Operation /\ queue' = IF Len(queue) < QueueLen THEN Append(queue, "command") ELSE queue
        /\ UNCHANGED <<state, worker, dropped, refused>>

\* dacp_worker_task takes the next entry; discover_dacp_port starts only when the port is open, execute_dacp_request
\* only with a session, its token and its port.
Take ==
    /\ worker.at = "queue" /\ queue # <<>> /\ queue' = Tail(queue)
    /\ worker' = IF Head(queue) = "discover"
                 THEN IF sess.port = "" /\ ~sess.failed /\ sess.id # ""
                      THEN [at |-> "mdns", id |-> sess.id, port |-> ""] ELSE Waiting
                 ELSE IF valid /\ sess.token /\ sess.port # ""
                      THEN [at |-> "http", id |-> sess.id, port |-> sess.port] ELSE Waiting
    /\ UNCHANGED <<state, ops, dropped, refused>>
\* The query ends: a service of the id copied, or none; what it found is the session's, whichever that now is.
Discovered(found) ==
    /\ worker.at = "mdns" /\ worker' = Waiting
    /\ sess' = [sess EXCEPT !.port = IF found THEN worker.id ELSE "", !.failed = @ \/ ~found]
    /\ UNCHANGED <<valid, queue, ops, dropped, refused>>
Answered == worker.at = "http" /\ worker' = Waiting /\ UNCHANGED <<state, queue, ops, dropped, refused>>
\* A failed request forgets the port, and nothing asks for another discovery.
Refused == /\ worker.at = "http" /\ worker' = Waiting
           /\ sess' = [sess EXCEPT !.port = ""] /\ refused' = TRUE
           /\ UNCHANGED <<valid, queue, ops, dropped>>

Next == \/ \E id \in Ids \cup {""}, token \in BOOLEAN : SetSession(id, token)
        \/ ClearSession \/ Send \/ Take \/ Answered \/ Refused
        \/ \E found \in BOOLEAN : Discovered(found)
Worker == Take \/ Answered \/ Refused \/ \E found \in BOOLEAN : Discovered(found)
\* The worker runs, and mdns_query_ptr and esp_http_client_perform have time limits.
Fairness == WF_vars(Worker)
Spec == Init /\ [][Next]_vars /\ Fairness
-----------------------------------------------------------------------------
Unreachable == valid /\ sess.port = "" /\ ~sess.failed
Pending == worker.at = "mdns" \/ \E i \in DOMAIN queue : queue[i] = "discover"
\* A session whose port is not known and was not given up has a discovery on its way, however sessions came and went
\* while older discoveries and requests were under way: unless its sentinel met a full queue or a request of it failed.
DiscoveryPromised == Unreachable /\ ~dropped /\ ~refused => Pending
\* Every session the worker can reach or has given up: it does not stay undecided.
Decided == Unreachable /\ ~dropped /\ ~refused ~> ~Unreachable \/ dropped \/ refused
\* What dacp_client.c:181 says of a failed request, "invalidate port so next command re-discovers".  False: a command
\* without a port is skipped, and only a new session queues a discovery.
Rediscovers == Unreachable /\ ~dropped /\ queue # <<>> => Pending
=============================================================================
