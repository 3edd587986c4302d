------------------------------ MODULE Pairing ------------------------------
(* Pairing and the encrypted control channel of one connection: pair-setup   *)
(* and pair-verify (main/hap), their requests in handle_post and the frames  *)
(* of rtsp_crypto.c.  A key is the handshake it comes from and its use; the  *)
(* client derives the same keys and counts the same frames.                  *)
EXTENDS Naturals

CONSTANTS MaxTries,   \* bound: handshakes the client starts
          MaxFrames   \* bound: frames of a request or a reply, and requests sent encrypted

VARIABLES
    acc,   \* conn->encrypted_mode and conn->hap_session
    cl,    \* the client: its handshake, its keys and counters
    wire   \* the request or the reply on its way

vars == <<acc, cl, wire>>

NoKey == <<0, "none">>
Silence == [is |-> "none"]
\* hap_session_create: on the first pair-setup or pair-verify
NoSession == [on |-> FALSE, enc |-> FALSE, srp |-> "none", pass |-> "none", transient |-> FALSE, setup |-> 0, verify |-> 0,
              est |-> FALSE, shared |-> 0, ekey |-> NoKey, dkey |-> NoKey, en |-> 0, dn |-> 0]
Init == /\ acc = NoSession
        /\ cl = [kind |-> "none", step |-> 0, try |-> 0, enc |-> FALSE, en |-> 0, dn |-> 0, rkey |-> NoKey, wkey |-> NoKey, sent |-> 0]
        /\ wire = Silence

Session(a) == [a EXCEPT !.on = TRUE]
ReadKey(n) == <<n, "read">>
WriteKey(n) == <<n, "write">>
\* the two Control keys, seen from the accessory
Keyed(a, n) == [a EXCEPT !.shared = n, !.ekey = ReadKey(n), !.dkey = WriteKey(n), !.est = TRUE]

-----------------------------------------------------------------------------
(* The handlers: each gives the new session and whether it answers with      *)
(* success; q is the request, q.n the handshake its material belongs to.     *)

\* srp_start: the verifier of a fresh salt and password
SrpStarted(a, pass) == [a EXCEPT !.srp = "started", !.pass = pass]
\* hap_pair_setup_m1: the flag of the request chooses the password
SetupM1(a, q) == <<[SrpStarted(a, IF q.transient THEN "3939" ELSE "0000") EXCEPT !.transient = q.transient, !.setup = 2], TRUE>>
\* srp_verify_client computes its verifier from the transient password
Proved(a, q) == q.proof /\ a.pass = "3939"
\* hap_pair_setup_m3; a wrong proof is answered, not refused
\* Mutant: the counters of an earlier handshake are kept.
SetupM3Counting(a, q) ==
    IF a.srp = "none" THEN <<a, FALSE>>
    ELSE IF ~Proved(a, q) THEN <<a, FALSE>>
    ELSE LET v == [a EXCEPT !.srp = "verified", !.setup = 4]
         IN <<IF a.transient THEN [Keyed(v, q.n) EXCEPT !.en = 1] ELSE v, TRUE>>
SetupM3(a, q) ==
    IF a.srp = "none" THEN <<a, FALSE>>
    ELSE IF ~Proved(a, q) THEN <<a, FALSE>>
    ELSE LET v == [a EXCEPT !.srp = "verified", !.setup = 4]
         IN <<IF a.transient THEN [Keyed(v, q.n) EXCEPT !.en = 0, !.dn = 0] ELSE v, TRUE>>
\* hap_pair_setup_m5 writes no answer: the request fails in any case
SetupM5(a, q) == <<IF a.srp = "verified" /\ q.proof THEN [a EXCEPT !.en = 0, !.dn = 0] ELSE a, FALSE>>
\* hap_pair_verify_m1: the key of the handshake waits in encrypt_key
VerifyM1(a, q) == <<[a EXCEPT !.shared = q.n, !.verify = 2, !.ekey = <<q.n, "verify">>], TRUE>>
\* hap_pair_verify_m3
VerifyM3(a, q) ==
    IF q.proof /\ a.ekey = <<q.n, "verify">> THEN <<[Keyed(a, q.n) EXCEPT !.verify = 4], TRUE>> ELSE <<a, FALSE>>
\* hap_pair_verify_m1_raw and _m3_raw: the second answer is empty and so an error
RawM1(a, q) == <<[a EXCEPT !.shared = q.n, !.verify = 2, !.ekey = <<q.n, "aes">>, !.dkey = <<q.n, "iv">>], TRUE>>
RawM3(a, q) == <<[Keyed(a, a.shared) EXCEPT !.ekey = WriteKey(a.shared), !.dkey = ReadKey(a.shared), !.en = 0, !.dn = 0, !.verify = 4], FALSE>>
Raw(a, q) == IF a.verify = 0 THEN RawM1(a, q) ELSE IF a.verify = 2 THEN RawM3(a, q) ELSE <<a, FALSE>>

\* handle_post: the handler a request goes to
Handled(a, q) ==
    LET s == Session(a)
    IN CASE q.is = "setup" /\ q.m = 1 -> SetupM1(s, q)
         [] q.is = "setup" /\ q.m = 3 -> SetupM3(s, q)
         [] q.is = "setup" /\ q.m = 5 -> SetupM5(s, q)
         [] q.is = "verify" /\ q.m = 1 -> VerifyM1(s, q)
         [] q.is = "verify" /\ q.m = 3 -> VerifyM3(s, q)
         [] q.is = "raw" -> Raw(s, q)
         [] OTHER -> <<a, TRUE>>
\* and the answer, rtsp_send_response: pair-setup turns the encryption on after
\* it, pair-verify before it; <<session, success, answer encrypted>>
SetupOn(q, r) == q.is = "setup" /\ r[2] /\ r[1].setup = 4 /\ r[1].est
VerifyOn(q, r) == q.is = "verify" /\ q.m = 3 /\ r[2] /\ r[1].verify = 4
\* Mutant: the answer of pair-setup is encrypted already.
PostEager(a, q) ==
    LET r == Handled(a, q)
        on == SetupOn(q, r) \/ VerifyOn(q, r)
    IN <<[r[1] EXCEPT !.enc = @ \/ on], r[2], a.enc \/ on>>
Post(a, q) ==
    LET r == Handled(a, q)
    IN <<[r[1] EXCEPT !.enc = @ \/ SetupOn(q, r) \/ VerifyOn(q, r)], r[2], a.enc \/ VerifyOn(q, r)>>

\* rtsp_crypto_read_block: every frame must open with the key and the counter
Opens(a, q) == q.enc = a.enc /\ (a.enc => q.key = a.dkey /\ q.at = a.dn)
\* rtsp_crypto_write_frame: one counter a frame
Written(a, blocks) == [a EXCEPT !.en = @ + blocks]
\* one request read, handled and answered
Serve(blocks) ==
    /\ wire.is \notin {"none", "reply"} /\ Opens(acc, wire)
    /\ LET a == IF acc.enc THEN [acc EXCEPT !.dn = @ + wire.blocks] ELSE acc
           r == Post(a, wire)
       IN /\ acc' = IF r[3] THEN Written(r[1], blocks) ELSE r[1]
          /\ wire' = [is |-> "reply", ok |-> r[2], enc |-> r[3], key |-> IF r[3] THEN r[1].ekey ELSE NoKey,
                      at |-> IF r[3] THEN r[1].en ELSE 0, blocks |-> blocks]
    /\ UNCHANGED cl
\* a frame that does not open, or a lost connection: rtsp_conn_free
Close == /\ wire.is # "none" /\ acc' = NoSession /\ wire' = Silence
         /\ (wire.is \in {"none", "reply"} \/ ~Opens(acc, wire) \/ ~acc.enc)
         /\ cl' = [cl EXCEPT !.kind = "none", !.step = 0, !.enc = FALSE, !.en = 0, !.dn = 0, !.rkey = NoKey, !.wkey = NoKey]

-----------------------------------------------------------------------------
(* The client.                                                               *)

Request(is, m, proof, blocks) ==
    wire' = [is |-> is, m |-> m, proof |-> proof, n |-> cl'.try, transient |-> cl'.kind = "transient",
             enc |-> cl.enc, key |-> IF cl.enc THEN cl.wkey ELSE NoKey, at |-> IF cl.enc THEN cl.en ELSE 0, blocks |-> blocks]
PathOf(kind) == IF kind \in {"transient", "normal"} THEN "setup" ELSE kind
Begins(kind) ==
    /\ wire.is = "none" /\ ~cl.enc /\ cl.step = 0 /\ cl.try < MaxTries
    /\ (kind = "raw" => acc.verify = 0)
    /\ cl' = [cl EXCEPT !.kind = kind, !.step = 1, !.try = @ + 1]
    /\ Request(PathOf(kind), 1, TRUE, 1) /\ UNCHANGED acc
Continues(proof) ==
    /\ wire.is = "none" /\ cl.step \in {2, 4}
    /\ cl' = [cl EXCEPT !.step = @ + 1]
    /\ Request(PathOf(cl.kind), cl.step + 1, proof, 1) /\ UNCHANGED acc
\* A reply is taken with the keys the client then has; a failed handshake may
\* be begun again.
Turned(c) == [c EXCEPT !.enc = TRUE, !.en = 0, !.dn = 0, !.rkey = ReadKey(c.try), !.wkey = WriteKey(c.try)]
Reads ==
    /\ wire.is = "reply"
    /\ LET c == IF cl.kind = "verify" /\ cl.step = 3 /\ wire.ok THEN Turned(cl) ELSE cl
           d == [c EXCEPT !.dn = IF c.enc THEN @ + wire.blocks ELSE @]
           next == IF wire.ok /\ cl.step = 1 THEN 2
                   ELSE IF wire.ok /\ cl.step = 3 /\ cl.kind = "normal" THEN 4 ELSE 0
       IN /\ wire.enc = c.enc /\ wire.key = c.rkey /\ (c.enc => wire.at = c.dn)
          /\ cl' = IF cl.kind = "transient" /\ cl.step = 3 /\ wire.ok THEN [Turned(d) EXCEPT !.step = next] ELSE [d EXCEPT !.step = next]
    /\ wire' = Silence /\ UNCHANGED acc
\* any other request, encrypted once the channel is
Talks(blocks) ==
    /\ wire.is = "none" /\ cl.step = 0 /\ cl.sent < MaxFrames
    /\ cl' = [cl EXCEPT !.sent = @ + 1, !.en = IF cl.enc THEN @ + blocks ELSE @]
    /\ Request("other", 0, TRUE, blocks) /\ UNCHANGED acc

Next == \/ \E b \in 1..MaxFrames : Serve(b) \/ Talks(b)
        \/ \E k \in {"transient", "normal", "verify", "raw"} : Begins(k)
        \/ \E p \in BOOLEAN : Continues(p)
        \/ Reads \/ Close
Fairness == WF_vars(Reads) /\ WF_vars(\E b \in 1..MaxFrames : Serve(b))
Spec == Init /\ [][Next]_vars /\ Fairness

-----------------------------------------------------------------------------
(* Properties.                                                               *)

\* Both ends turn the encryption on at the same message and stay in step: no
\* request or reply meets a wrong key or counter, whatever handshakes failed,
\* were repeated or followed each other on the connection.
InStep == /\ (wire.is = "none" => acc.enc = cl.enc)
          /\ (wire.is \notin {"none", "reply"} => Opens(acc, wire))
          /\ (wire.is = "none" /\ cl.enc => acc.ekey = cl.rkey /\ acc.dkey = cl.wkey /\ acc.en = cl.dn /\ acc.dn = cl.en)
\* Every reply is understood: the exchange goes on.
Answered == (wire.is # "none") ~> (wire.is = "none")
=============================================================================
