---------------------------- MODULE RequestFraming ----------------------------
(* How one connection's bytes become requests: the receive loop of            *)
(* client_task, the buffer that grows, process_rtsp_buffer (rtsp_server.c)    *)
(* and the encrypted blocks of rtsp_crypto_read_block (rtsp_crypto.c).  A     *)
(* byte is a unit of a request; TCP hands over any part of what is on its way.*)
EXTENDS Naturals, Sequences, SequencesExt

CONSTANTS Heads, Bodies,    \* lengths of headers and bodies, in units
          Initial, Large,   \* RTSP_BUFFER_INITIAL, RTSP_BUFFER_LARGE
          Margin, Block,    \* the room below which the buffer grows; RTSP_ENCRYPTED_BLOCK_MAX
          MaxRequests       \* bound: requests of the phone

VARIABLES phone,   \* [log, enc, wait]: requests sent, encryption on, waiting for the answer that turns it on
          wire,    \* what TCP holds
          buf,     \* the first buf_len bytes of buffer
          cap,     \* buf_capacity
          block,   \* what rtsp_crypto_read_block has received of its block
          task,    \* [at, enc]: where client_task is, conn->encrypted_mode
          done,    \* what was given to rtsp_dispatch
          cut      \* buffered bytes were thrown away
vars == <<phone, wire, buf, cap, block, task, done, cut>>

Init == /\ phone = [log |-> <<>>, enc |-> FALSE, wait |-> FALSE] /\ wire = <<>> /\ buf = <<>> /\ cap = Initial /\ block = <<>>
        /\ task = [at |-> "read", enc |-> FALSE] /\ done = <<>> /\ cut = FALSE

\* A request: its number, its lengths, and whether its answer turns the encryption on.
Total(r) == r.head + r.body
Whole(r) == [i \in 1 .. Total(r) |-> [of |-> r, i |-> i]]
IsEnd(u) == u.i = u.of.head
\* The blocks of rtsp_crypto: two bytes of length, the text, and the tag as one unit.
Blocks(s, k) == LET n == (Len(s) + k - 1) \div k
                    Text(j) == SubSeq(s, (j - 1) * k + 1, IF j * k < Len(s) THEN j * k ELSE Len(s))
                IN FlattenSeq([j \in 1 .. n |-> <<[size |-> Len(Text(j))], [size |-> Len(Text(j))]>> \o Text(j) \o <<[size |-> 0]>>])
\* The phone (external) may send a request before the last is answered, but not past one that turns the encryption on.
Send(h, b, turns, k) ==
    LET r == [n |-> Len(phone.log) + 1, head |-> h, body |-> b, turns |-> turns]
    IN /\ ~phone.wait /\ Len(phone.log) < MaxRequests /\ (turns => ~phone.enc)
       /\ phone' = [phone EXCEPT !.log = Append(@, r), !.wait = turns]
       /\ wire' = wire \o (IF phone.enc THEN Blocks(Whole(r), k) ELSE Whole(r))
       /\ UNCHANGED <<buf, cap, block, task, done, cut>>

-----------------------------------------------------------------------------
(* process_rtsp_buffer: a round of its loop is a step.                       *)

Ends == {i \in 1 .. Len(buf) : IsEnd(buf[i])}
HeaderEnd == CHOOSE i \in Ends : \A j \in Ends : i <= j
\* the length the header names, at its end
Needed == HeaderEnd + buf[HeaderEnd].of.body
Complete == Ends # {} /\ Needed <= Large /\ Needed <= Len(buf)
After(n) == SubSeq(buf, n + 1, Len(buf))
Dispatch == /\ task.at = "parse" /\ Complete
            /\ done' = Append(done, SubSeq(buf, 1, Needed)) /\ buf' = After(Needed)
            /\ LET turns == buf[HeaderEnd].of.turns
               IN /\ task' = [task EXCEPT !.enc = @ \/ turns]
                  /\ phone' = IF turns THEN [phone EXCEPT !.enc = TRUE, !.wait = FALSE] ELSE phone
            /\ UNCHANGED <<wire, cap, block, cut>>
\* a request that no buffer holds
Discard == /\ task.at = "parse" /\ Ends # {} /\ Needed > Large
           /\ buf' = <<>> /\ cut' = TRUE /\ task' = [task EXCEPT !.at = "read"]
           /\ UNCHANGED <<phone, wire, cap, block, done>>
\* no memory for a copy of the header
Starve == /\ task.at = "parse" /\ Ends # {}
          /\ buf' = <<>> /\ cut' = TRUE /\ task' = [task EXCEPT !.at = "read"]
          /\ UNCHANGED <<phone, wire, cap, block, done>>
Await == /\ task.at = "parse" /\ ~Complete /\ (Ends # {} => Needed <= Large)
         /\ task' = [task EXCEPT !.at = "read"] /\ UNCHANGED <<phone, wire, buf, cap, block, done, cut>>

-----------------------------------------------------------------------------
(* The loops of client_task.                                                 *)

Tight == Len(buf) >= cap - Margin
Reading == task.at = "read" /\ ~Tight
Grow == /\ task.at = "read" /\ Tight
        /\ IF cap < Large THEN cap' = Large /\ UNCHANGED task
           ELSE cap' = cap /\ task' = [task EXCEPT !.at = "full"]
        /\ UNCHANGED <<phone, wire, buf, block, done, cut>>
\* recv of the clear text: any part of what there is, as far as there is room
Receive(k) == /\ Reading /\ ~task.enc /\ k <= Len(wire) /\ k <= cap - Len(buf)
              /\ buf' = buf \o SubSeq(wire, 1, k) /\ wire' = SubSeq(wire, k + 1, Len(wire))
              /\ task' = [task EXCEPT !.at = "parse"] /\ UNCHANGED <<phone, cap, block, done, cut>>
\* the recvs of rtsp_crypto_read_block: the length, then the rest; a length that is no block's or finds no room ends it
Wanted == IF Len(block) < 2 THEN 2 ELSE 2 + block[1].size + 1
Bad(size) == size = 0 \/ size > Block \/ size > cap - Len(buf)
ReceiveBlock(k) ==
    /\ Reading /\ task.enc /\ k <= Len(wire) /\ k <= Wanted - Len(block)
    /\ block' = block \o SubSeq(wire, 1, k) /\ wire' = SubSeq(wire, k + 1, Len(wire))
    /\ task' = IF Len(block') = 2 /\ Bad(block'[1].size) THEN [task EXCEPT !.at = "bad"] ELSE task
    /\ UNCHANGED <<phone, buf, cap, done, cut>>
\* Mutant: the wait for the rest of a block is given up.
KeptNot(b) == <<>>
\* the receive time-out: what has come of the block is kept
Kept(b) == b
TimesOut == /\ Reading /\ task.enc /\ wire = <<>> /\ block' = Kept(block)
            /\ UNCHANGED <<phone, wire, buf, cap, task, done, cut>>
Decrypt == /\ Reading /\ Len(block) > 2 /\ Len(block) = Wanted
           /\ buf' = buf \o SubSeq(block, 3, Len(block) - 1) /\ block' = <<>>
           /\ task' = [task EXCEPT !.at = "parse"] /\ UNCHANGED <<phone, wire, cap, done, cut>>
\* the phone closes, the slot is to stop, or there is no memory to grow
Leave == /\ task.at \in {"read", "parse"}
         /\ task' = [task EXCEPT !.at = "left"] /\ UNCHANGED <<phone, wire, buf, cap, block, done, cut>>

Next == \/ \E h \in Heads, b \in Bodies, turns \in BOOLEAN, k \in 1 .. Block : Send(h, b, turns, k)
        \/ Dispatch \/ Discard \/ Starve \/ Await
        \/ Grow \/ \E k \in 1 .. Large : Receive(k) \/ ReceiveBlock(k)
        \/ TimesOut \/ Decrypt \/ Leave
Spec == Init /\ [][Next]_vars

-----------------------------------------------------------------------------
(* Properties.                                                               *)

\* The request the buffer is at.
NextRequest == phone.log[Len(done) + 1]
\* Every request is dispatched whole, once and in its turn, however TCP and the
\* blocks cut it and whatever followed it at once; none that is complete waits
\* for more bytes; and the connection is given up only for a request that comes
\* within the margin of the largest buffer. (The comment of
\* rtsp_crypto_read_block: what is abandoned "permanently desyncs" the rest.)
Framed ==
    ~cut =>
      /\ \A i \in 1 .. Len(done) : i <= Len(phone.log) /\ done[i] = Whole(phone.log[i])
      /\ task.at = "read" => IF Len(done) < Len(phone.log)
                             THEN IsPrefix(buf, Whole(NextRequest)) /\ Len(buf) < Total(NextRequest)
                             ELSE buf = <<>>
      /\ task.at = "full" => Total(NextRequest) > Large - Margin
      /\ task.at # "bad"
=============================================================================
