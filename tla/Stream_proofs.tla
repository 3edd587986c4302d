---------------------------- MODULE Stream_proofs ----------------------------
(***************************************************************************)
(* Proofs about a stream: its pairing, for any number of handshakes and of *)
(* frames, and its resend window, for any size of the window and of the    *)
(* network, any number of losses and of resets.                            *)
(***************************************************************************)
EXTENDS Pairing, Resend, FiniteSetTheorems, NatLemmas, TLAPS

-----------------------------------------------------------------------------
(* The pairing (Pairing).                                                   *)

Key == Nat \X {"none", "read", "write", "verify", "aes", "iv"}
HapSession ==
  [on : BOOLEAN, enc : BOOLEAN, srp : {"none", "started", "verified"},
   pass : {"none", "0000", "3939"}, transient : BOOLEAN, setup : Nat,
   verify : Nat, est : BOOLEAN, shared : Nat, ekey : Key, dkey : Key,
   en : Nat, dn : Nat]
Client ==
  [kind : {"none", "transient", "normal", "verify", "raw"}, step : Nat,
   try : Nat, enc : BOOLEAN, en : Nat, dn : Nat, rkey : Key, wkey : Key,
   sent : Nat]
Asks == [is : {"setup", "verify", "raw", "other"}, m : Nat, proof : BOOLEAN,
         n : Nat, transient : BOOLEAN, enc : BOOLEAN, key : Key, at : Nat,
         blocks : Nat]
Replies == [is : {"reply"}, ok : BOOLEAN, enc : BOOLEAN, key : Key, at : Nat,
            blocks : Nat]
Types == acc \in HapSession /\ cl \in Client

(* What the two ends know of each other.  The invariant is one predicate   *)
(* for each place the exchange can be in: nothing on the wire, a request,  *)
(* a reply.  A pair-setup whose first message chose the other password     *)
(* cannot succeed at its third, so only a handshake that turns the client  *)
(* turns the accessory.                                                    *)
Matched == acc.ekey = cl.rkey /\ acc.dkey = cl.wkey
Chosen == cl.kind \in {"transient", "normal"} =>
            /\ (acc.transient <=> cl.kind = "transient")
            /\ acc.pass = IF cl.kind = "transient" THEN "3939" ELSE "0000"
Turning == cl.kind \in {"transient", "verify"} /\ cl.step = 3 /\ wire.ok

Quiet ==
  /\ wire = Silence /\ cl.step \in {0, 2} /\ acc.enc = cl.enc
  /\ cl.enc => cl.step = 0 /\ Matched /\ acc.en = cl.dn /\ acc.dn = cl.en
  /\ cl.step = 2 => Chosen /\ cl.kind # "none"
Asking ==
  /\ wire \in Asks /\ cl.step \in {0, 1, 3}
  /\ acc.enc = cl.enc /\ wire.enc = cl.enc
  /\ cl.enc => /\ cl.step = 0 /\ Matched /\ acc.en = cl.dn
               /\ wire.key = cl.wkey /\ wire.at = acc.dn
               /\ cl.en = acc.dn + wire.blocks
  /\ cl.step = 0 => wire.is = "other"
  /\ cl.step # 0 =>
       /\ cl.kind # "none" /\ wire.is = PathOf(cl.kind) /\ wire.m = cl.step
       /\ (wire.transient <=> cl.kind = "transient") /\ wire.n = cl.try
  /\ cl.step = 3 => Chosen
Answering ==
  /\ wire \in Replies /\ cl.step \in {0, 1, 3}
  /\ cl.enc => /\ cl.step = 0 /\ acc.enc /\ Matched
               /\ acc.en = cl.dn + wire.blocks /\ acc.dn = cl.en
  /\ ~cl.enc /\ Turning =>
       /\ acc.enc /\ acc.ekey = ReadKey(cl.try) /\ acc.dkey = WriteKey(cl.try)
       /\ acc.dn = 0
       /\ acc.en = IF cl.kind = "verify" THEN wire.blocks ELSE 0
  /\ ~cl.enc /\ ~Turning =>
       /\ ~acc.enc
       /\ cl.step = 1 => Chosen /\ cl.kind # "none"
       /\ cl.step = 3 /\ cl.kind = "normal" => ~wire.ok

PairInv == /\ Types
           /\ ~acc.enc => acc.en = 0 /\ acc.dn = 0
           /\ Quiet \/ Asking \/ Answering

-----------------------------------------------------------------------------
(* The handlers, each in a session that is not encrypted and has counted   *)
(* no frame: none of them counts one.                                      *)
InClear(a) == a \in HapSession /\ ~a.enc /\ a.en = 0 /\ a.dn = 0

LEMMA KeyTypes ==
  ASSUME NEW n \in Nat
  PROVE  /\ ReadKey(n) \in Key /\ WriteKey(n) \in Key /\ NoKey \in Key
         /\ <<n, "verify">> \in Key /\ <<n, "aes">> \in Key /\ <<n, "iv">> \in Key
BY DEF ReadKey, WriteKey, Key, NoKey

LEMMA KeyedFacts ==
  ASSUME NEW a, InClear(a), NEW n \in Nat
  PROVE  /\ InClear(Keyed(a, n)) /\ Keyed(a, n).est
         /\ Keyed(a, n).ekey = ReadKey(n) /\ Keyed(a, n).dkey = WriteKey(n)
         /\ Keyed(a, n).setup = a.setup
BY KeyTypes DEF InClear, Keyed, HapSession

(* What a handler returns: the session and whether the answer is a success. *)
Outcome(r) == InClear(r[1]) /\ r[2] \in BOOLEAN

LEMMA SetupM1Facts ==
  ASSUME NEW a, InClear(a), NEW q \in Asks, NEW r, r = SetupM1(a, q)
  PROVE  /\ Outcome(r) /\ r[1].setup = 2 /\ r[1].transient = q.transient
         /\ r[1].pass = IF q.transient THEN "3939" ELSE "0000"
<1> DEFINE pass == IF q.transient THEN "3939" ELSE "0000"
           s == [a EXCEPT !.srp = "started", !.pass = pass]
           b == [s EXCEPT !.transient = q.transient, !.setup = 2]
<1>1. pass \in {"0000", "3939"} /\ q.transient \in BOOLEAN
  BY DEF Asks
<1>2. r = <<b, TRUE>>
  BY DEF SetupM1, SrpStarted
<1>3. s \in HapSession /\ ~s.enc /\ s.en = 0 /\ s.dn = 0 /\ s.pass = pass
  <2> HIDE DEF pass
  <2> QED
    BY <1>1 DEF InClear, HapSession
<1>4. InClear(b) /\ b.setup = 2 /\ b.transient = q.transient /\ b.pass = pass
  <2> HIDE DEF s, pass
  <2> QED
    BY <1>1, <1>3 DEF InClear, HapSession
<1> HIDE DEF b
<1> QED
  BY <1>2, <1>4 DEF Outcome

LEMMA SetupM3Facts ==
  ASSUME NEW a, InClear(a), NEW q \in Asks, NEW r, r = SetupM3(a, q)
  PROVE  /\ Outcome(r)
         /\ r[2] => a.pass = "3939" /\ r[1].setup = 4
         /\ r[2] /\ a.transient => /\ r[1].est /\ r[1].ekey = ReadKey(q.n)
                                   /\ r[1].dkey = WriteKey(q.n)
<1>1. CASE a.srp = "none" \/ ~Proved(a, q)
  <2>1. r = <<a, FALSE>>
    BY <1>1 DEF SetupM3
  <2> QED
    BY <2>1 DEF Outcome
<1>2. CASE a.srp # "none" /\ Proved(a, q)
  <2> DEFINE v == [a EXCEPT !.srp = "verified", !.setup = 4]
             k == Keyed(v, q.n)
             b == IF a.transient THEN [k EXCEPT !.en = 0, !.dn = 0] ELSE v
  <2>1. r = <<b, TRUE>>
    BY <1>2 DEF SetupM3
  <2>2. InClear(v) /\ v.setup = 4 /\ q.n \in Nat
    BY DEF InClear, HapSession, Asks
  <2>3. /\ InClear(k) /\ k.est /\ k.setup = 4 /\ k.ekey = ReadKey(q.n)
        /\ k.dkey = WriteKey(q.n)
    <3> HIDE DEF v
    <3> QED
      BY <2>2, KeyedFacts
  <2>4. /\ InClear(b) /\ b.setup = 4
        /\ a.transient => b.est /\ b.ekey = ReadKey(q.n) /\ b.dkey = WriteKey(q.n)
    <3> HIDE DEF v, k
    <3> QED
      BY <2>2, <2>3 DEF InClear, HapSession
  <2> HIDE DEF b
  <2> QED
    BY <1>2, <2>1, <2>4 DEF Proved, Outcome
<1> QED
  BY <1>1, <1>2

LEMMA SetupM5Facts ==
  ASSUME NEW a, InClear(a), NEW q \in Asks, NEW r, r = SetupM5(a, q)
  PROVE  Outcome(r) /\ ~r[2]
<1>1. InClear([a EXCEPT !.en = 0, !.dn = 0])
  BY DEF InClear, HapSession
<1> QED
  BY <1>1 DEF SetupM5, Outcome

LEMMA VerifyM1Facts ==
  ASSUME NEW a, InClear(a), NEW q \in Asks, NEW r, r = VerifyM1(a, q)
  PROVE  Outcome(r)
<1> DEFINE b == [a EXCEPT !.shared = q.n, !.verify = 2, !.ekey = <<q.n, "verify">>]
<1>1. InClear(b)
  BY KeyTypes DEF InClear, HapSession, Asks
<1>2. r = <<b, TRUE>>
  BY DEF VerifyM1
<1> HIDE DEF b
<1> QED
  BY <1>1, <1>2 DEF Outcome

LEMMA VerifyM3Facts ==
  ASSUME NEW a, InClear(a), NEW q \in Asks, NEW r, r = VerifyM3(a, q)
  PROVE  /\ Outcome(r)
         /\ r[2] => /\ r[1].verify = 4 /\ r[1].ekey = ReadKey(q.n)
                    /\ r[1].dkey = WriteKey(q.n)
<1>1. CASE ~(q.proof /\ a.ekey = <<q.n, "verify">>)
  <2>1. r = <<a, FALSE>>
    BY <1>1 DEF VerifyM3
  <2> QED
    BY <2>1 DEF Outcome
<1>2. CASE q.proof /\ a.ekey = <<q.n, "verify">>
  <2> DEFINE k == Keyed(a, q.n)
             b == [k EXCEPT !.verify = 4]
  <2>1. r = <<b, TRUE>>
    BY <1>2 DEF VerifyM3
  <2>2. InClear(k) /\ k.ekey = ReadKey(q.n) /\ k.dkey = WriteKey(q.n)
    <3>1. q.n \in Nat
      BY DEF Asks
    <3> QED
      BY <3>1, KeyedFacts
  <2>3. /\ InClear(b) /\ b.verify = 4 /\ b.ekey = ReadKey(q.n)
        /\ b.dkey = WriteKey(q.n)
    <3> HIDE DEF k
    <3> QED
      BY <2>2 DEF InClear, HapSession
  <2> HIDE DEF b
  <2> QED
    BY <2>1, <2>3 DEF Outcome
<1> QED
  BY <1>1, <1>2

LEMMA RawFacts ==
  ASSUME NEW a, InClear(a), NEW q \in Asks, NEW r, r = Raw(a, q)
  PROVE  Outcome(r)
<1>1. CASE a.verify = 0
  <2> DEFINE b == [a EXCEPT !.shared = q.n, !.verify = 2,
                            !.ekey = <<q.n, "aes">>, !.dkey = <<q.n, "iv">>]
  <2>1. InClear(b)
    BY KeyTypes DEF InClear, HapSession, Asks
  <2>2. r = <<b, TRUE>>
    BY <1>1 DEF Raw, RawM1
  <2> HIDE DEF b
  <2> QED
    BY <2>1, <2>2 DEF Outcome
<1>2. CASE a.verify = 2
  <2> DEFINE k == Keyed(a, a.shared)
             b == [k EXCEPT !.ekey = WriteKey(a.shared), !.dkey = ReadKey(a.shared),
                            !.en = 0, !.dn = 0, !.verify = 4]
  <2>1. a.shared \in Nat
    BY DEF InClear, HapSession
  <2>2. InClear(k)
    BY <2>1, KeyedFacts
  <2>3. InClear(b)
    <3> HIDE DEF k
    <3> QED
      BY <2>1, <2>2, KeyTypes DEF InClear, HapSession
  <2>4. r = <<b, FALSE>>
    BY <1>2 DEF Raw, RawM3
  <2> HIDE DEF b
  <2> QED
    BY <2>3, <2>4 DEF Outcome
<1>3. CASE a.verify \notin {0, 2}
  <2>1. r = <<a, FALSE>>
    BY <1>3 DEF Raw
  <2> QED
    BY <2>1 DEF Outcome
<1> QED
  BY <1>1, <1>2, <1>3

-----------------------------------------------------------------------------
(* Post: a request in clear.  The encryption goes on with the third        *)
(* message of pair-setup or pair-verify, if that succeeds, and then the    *)
(* keys are those of the handshake of the request.                         *)
Clean(a) == a \in HapSession /\ a.en = 0 /\ a.dn = 0
KeyedFor(a, n) == a.enc /\ a.ekey = ReadKey(n) /\ a.dkey = WriteKey(n)

LEMMA SessionFacts ==
  ASSUME NEW a, InClear(a)
  PROVE  /\ InClear(Session(a)) /\ Session(a).pass = a.pass
         /\ Session(a).transient = a.transient
BY DEF Session, InClear, HapSession

LEMMA EncOn ==
  ASSUME NEW s, InClear(s), NEW on \in BOOLEAN, NEW b, b = [s EXCEPT !.enc = on]
  PROVE  /\ Clean(b) /\ b.enc = on /\ b.ekey = s.ekey /\ b.dkey = s.dkey
         /\ b.pass = s.pass /\ b.transient = s.transient
BY DEF InClear, Clean, HapSession

LEMMA PostHandler ==
  ASSUME NEW a, NEW q
  PROVE  /\ q.is = "setup" /\ q.m = 1 => Handled(a, q) = SetupM1(Session(a), q)
         /\ q.is = "setup" /\ q.m = 3 => Handled(a, q) = SetupM3(Session(a), q)
         /\ q.is = "verify" /\ q.m = 1 => Handled(a, q) = VerifyM1(Session(a), q)
         /\ q.is = "verify" /\ q.m = 3 => Handled(a, q) = VerifyM3(Session(a), q)
         /\ q.is = "raw" => Handled(a, q) = Raw(Session(a), q)
         /\ q.is = "other" => Handled(a, q) = <<a, TRUE>>
<1>1. ASSUME q.is = "setup", q.m = 1 PROVE Handled(a, q) = SetupM1(Session(a), q)
  BY <1>1 DEF Handled
<1>2. ASSUME q.is = "setup", q.m = 3 PROVE Handled(a, q) = SetupM3(Session(a), q)
  BY <1>2 DEF Handled
<1>3. ASSUME q.is = "verify", q.m = 1 PROVE Handled(a, q) = VerifyM1(Session(a), q)
  BY <1>3 DEF Handled
<1>4. ASSUME q.is = "verify", q.m = 3 PROVE Handled(a, q) = VerifyM3(Session(a), q)
  BY <1>4 DEF Handled
<1>5. ASSUME q.is = "raw" PROVE Handled(a, q) = Raw(Session(a), q)
  BY <1>5 DEF Handled
<1>6. ASSUME q.is = "other" PROVE Handled(a, q) = <<a, TRUE>>
  BY <1>6 DEF Handled
<1> QED
  BY <1>1, <1>2, <1>3, <1>4, <1>5, <1>6

(* What Post makes of the result r of the handler. *)
AnswerTo(p, q, r) ==
  /\ Clean(p[1]) /\ p[1].ekey = r[1].ekey /\ p[1].dkey = r[1].dkey
  /\ p[1].pass = r[1].pass /\ p[1].transient = r[1].transient
  /\ p[2] \in BOOLEAN /\ (p[2] <=> r[2])
  /\ p[1].enc \in BOOLEAN /\ (p[1].enc <=> SetupOn(q, r) \/ VerifyOn(q, r))
  /\ p[3] \in BOOLEAN /\ (p[3] <=> VerifyOn(q, r))

LEMMA AnswerFacts ==
  ASSUME NEW a, a.enc = FALSE, NEW q, NEW r, r = Handled(a, q), Outcome(r),
         NEW p, p = Post(a, q)
  PROVE  AnswerTo(p, q, r)
<1>0. PICK on \in BOOLEAN, von \in BOOLEAN :
        /\ on <=> SetupOn(q, r) \/ VerifyOn(q, r)
        /\ von <=> VerifyOn(q, r)
  BY DEF SetupOn, VerifyOn
<1>1. /\ p[2] = r[2] /\ p[3] = (a.enc \/ VerifyOn(q, r))
      /\ p[1] = [r[1] EXCEPT !.enc = (@ \/ SetupOn(q, r)) \/ VerifyOn(q, r)]
  BY DEF Post
<1>2. r[1].enc = FALSE
  BY DEF Outcome, InClear, HapSession
<1>3. ((r[1].enc \/ SetupOn(q, r)) \/ VerifyOn(q, r)) = on
  BY <1>0, <1>2
<1>4. p[1] = [r[1] EXCEPT !.enc = on]
  BY <1>1, <1>3
<1>5. /\ Clean(p[1]) /\ p[1].enc = on /\ p[1].ekey = r[1].ekey
      /\ p[1].dkey = r[1].dkey /\ p[1].pass = r[1].pass
      /\ p[1].transient = r[1].transient
  BY <1>4, EncOn DEF Outcome
<1>6. p[3] = von
  BY <1>0, <1>1
<1> QED
  BY <1>0, <1>1, <1>5, <1>6 DEF Outcome, AnswerTo

LEMMA PostSetup1 ==
  ASSUME NEW a, InClear(a), NEW q \in Asks, q.is = "setup", q.m = 1, NEW p,
         p = Post(a, q)
  PROVE  /\ Clean(p[1]) /\ p[1].enc = FALSE /\ p[2] \in BOOLEAN /\ p[3] = FALSE
         /\ p[1].transient = q.transient
         /\ p[1].pass = IF q.transient THEN "3939" ELSE "0000"
<1> DEFINE r == SetupM1(Session(a), q)
<1>1. /\ Outcome(r) /\ r[1].setup = 2 /\ r[1].transient = q.transient
      /\ r[1].pass = IF q.transient THEN "3939" ELSE "0000"
  BY SessionFacts, SetupM1Facts
<1>2. r = Handled(a, q) /\ a.enc = FALSE
  <2>1. a.enc = FALSE
    BY DEF InClear, HapSession
  <2>2. r = Handled(a, q)
    BY PostHandler
  <2> QED
    BY <2>1, <2>2
<1> HIDE DEF r
<1>3. ~SetupOn(q, r) /\ ~VerifyOn(q, r)
  BY <1>1 DEF SetupOn, VerifyOn
<1>4. AnswerTo(p, q, r)
  BY <1>1, <1>2, <1>3, AnswerFacts
<1> QED
  BY <1>1, <1>3, <1>4 DEF AnswerTo

LEMMA PostSetup3 ==
  ASSUME NEW a, InClear(a), NEW q \in Asks, q.is = "setup", q.m = 3, NEW p,
         p = Post(a, q)
  PROVE  /\ Clean(p[1]) /\ p[2] \in BOOLEAN /\ p[3] = FALSE
         /\ p[2] => a.pass = "3939"
         /\ p[2] = FALSE => p[1].enc = FALSE
         /\ p[2] /\ a.transient => KeyedFor(p[1], q.n)
<1> DEFINE r == SetupM3(Session(a), q)
<1>1. /\ Outcome(r)
      /\ r[2] => a.pass = "3939" /\ r[1].setup = 4
      /\ r[2] /\ a.transient => /\ r[1].est /\ r[1].ekey = ReadKey(q.n)
                                /\ r[1].dkey = WriteKey(q.n)
  BY SessionFacts, SetupM3Facts
<1>2. r = Handled(a, q) /\ a.enc = FALSE
  <2>1. a.enc = FALSE
    BY DEF InClear, HapSession
  <2>2. r = Handled(a, q)
    BY PostHandler
  <2> QED
    BY <2>1, <2>2
<1> HIDE DEF r
<1>3. /\ ~VerifyOn(q, r)
      /\ r[2] = FALSE => ~SetupOn(q, r)
      /\ r[2] /\ r[1].setup = 4 /\ r[1].est => SetupOn(q, r)
  BY DEF SetupOn, VerifyOn
<1>4. AnswerTo(p, q, r)
  BY <1>1, <1>2, AnswerFacts
<1> QED
  BY <1>1, <1>3, <1>4 DEF AnswerTo, KeyedFor

LEMMA PostVerify3 ==
  ASSUME NEW a, InClear(a), NEW q \in Asks, q.is = "verify", q.m = 3, NEW p,
         p = Post(a, q)
  PROVE  /\ Clean(p[1]) /\ p[2] \in BOOLEAN
         /\ p[3] \in BOOLEAN /\ (p[3] <=> p[2])
         /\ p[1].enc \in BOOLEAN /\ (p[1].enc <=> p[2])
         /\ p[2] => KeyedFor(p[1], q.n)
<1> DEFINE r == VerifyM3(Session(a), q)
<1>1. /\ Outcome(r)
      /\ r[2] => /\ r[1].verify = 4 /\ r[1].ekey = ReadKey(q.n)
                 /\ r[1].dkey = WriteKey(q.n)
  BY SessionFacts, VerifyM3Facts
<1>2. r = Handled(a, q) /\ a.enc = FALSE
  <2>1. a.enc = FALSE
    BY DEF InClear, HapSession
  <2>2. r = Handled(a, q)
    BY PostHandler
  <2> QED
    BY <2>1, <2>2
<1> HIDE DEF r
<1>3. ~SetupOn(q, r) /\ (VerifyOn(q, r) <=> r[2])
  BY <1>1 DEF SetupOn, VerifyOn, Outcome
<1>4. AnswerTo(p, q, r)
  BY <1>1, <1>2, AnswerFacts
<1> QED
  BY <1>1, <1>3, <1>4 DEF AnswerTo, KeyedFor

(* The other requests leave the channel in clear.                          *)
LEMMA PostOthers ==
  ASSUME NEW a, InClear(a), NEW q \in Asks, NEW p, p = Post(a, q),
         q.is \in {"raw", "other"} \/ (q.is = "verify" /\ q.m = 1)
  PROVE  Clean(p[1]) /\ p[1].enc = FALSE /\ p[2] \in BOOLEAN /\ p[3] = FALSE
<1>1. PICK r : r = Handled(a, q)
  OBVIOUS
<1>2. Outcome(r)
  <2>1. CASE q.is = "verify" /\ q.m = 1
    BY <1>1, <2>1, PostHandler, SessionFacts, VerifyM1Facts
  <2>2. CASE q.is = "raw"
    BY <1>1, <2>2, PostHandler, SessionFacts, RawFacts
  <2>3. CASE q.is = "other"
    <3>1. r = <<a, TRUE>>
      BY <1>1, <2>3, PostHandler
    <3> QED
      BY <3>1 DEF Outcome
  <2> QED
    BY <2>1, <2>2, <2>3
<1>3. ~SetupOn(q, r) /\ ~VerifyOn(q, r) /\ a.enc = FALSE
  BY DEF SetupOn, VerifyOn, InClear, HapSession
<1>4. AnswerTo(p, q, r)
  BY <1>1, <1>2, <1>3, AnswerFacts
<1> QED
  BY <1>1, <1>3, <1>4 DEF AnswerTo

(* On the encrypted channel the client asks for nothing else.              *)
LEMMA PostEncrypted ==
  ASSUME NEW a \in HapSession, a.enc, NEW q \in Asks, q.is = "other", NEW p,
         p = Post(a, q)
  PROVE  p[1] = a /\ p[2] = TRUE /\ p[3] = TRUE
<1>1. Handled(a, q) = <<a, TRUE>>
  BY PostHandler
<1>2. a.enc = TRUE
  BY DEF HapSession
<1>3. p = <<[a EXCEPT !.enc = (@ \/ SetupOn(q, <<a, TRUE>>)) \/ VerifyOn(q, <<a, TRUE>>)],
            TRUE, a.enc \/ VerifyOn(q, <<a, TRUE>>)>>
  BY <1>1 DEF Post
<1>4. /\ ((a.enc \/ SetupOn(q, <<a, TRUE>>)) \/ VerifyOn(q, <<a, TRUE>>)) = TRUE
      /\ (a.enc \/ VerifyOn(q, <<a, TRUE>>)) = TRUE
  BY <1>2
<1>5. p = <<[a EXCEPT !.enc = TRUE], TRUE, TRUE>>
  BY <1>3, <1>4
<1>6. [a EXCEPT !.enc = TRUE] = a
  BY <1>2 DEF HapSession
<1> QED
  BY <1>5, <1>6

-----------------------------------------------------------------------------
(* The steps.                                                              *)

LEMMA InitInv == Init => PairInv
<1> SUFFICES ASSUME Init PROVE PairInv
  OBVIOUS
<1>1. acc = NoSession /\ wire = Silence /\ NoKey \in Key
  BY KeyTypes DEF Init, NoKey, Key
<1>2. acc \in HapSession /\ acc.enc = FALSE /\ acc.en = 0 /\ acc.dn = 0
  BY <1>1 DEF NoSession, HapSession
<1>3. cl \in Client /\ cl.step = 0 /\ cl.enc = FALSE
  BY <1>1 DEF Init, Client
<1>4. Quiet
  <2>1. wire = Silence /\ cl.step \in {0, 2} /\ acc.enc = cl.enc
    BY <1>1, <1>2, <1>3
  <2> QED
    BY <1>3, <2>1 DEF Quiet
<1> QED
  BY <1>2, <1>3, <1>4 DEF PairInv, Types

(* Which of the three places the exchange is in shows on the wire.         *)
LEMMA Places ==
  ASSUME PairInv
  PROVE  /\ wire.is = "none" => Quiet
         /\ wire.is = "reply" => Answering
         /\ wire.is \notin {"none", "reply"} => Asking
BY DEF PairInv, Quiet, Asking, Answering, Silence, Asks, Replies

(* What the client's next request carries. *)
LEMMA RequestType ==
  ASSUME cl \in Client, cl' \in Client, NEW is \in {"setup", "verify", "raw", "other"},
         NEW m \in Nat, NEW proof \in BOOLEAN, NEW blocks \in Nat,
         Request(is, m, proof, blocks)
  PROVE  /\ wire' \in Asks /\ wire'.is = is /\ wire'.m = m
         /\ wire'.n = cl'.try /\ wire'.enc = cl.enc /\ wire'.blocks = blocks
         /\ (wire'.transient <=> cl'.kind = "transient")
         /\ cl.enc => wire'.key = cl.wkey /\ wire'.at = cl.en
<1>1. /\ (IF cl.enc THEN cl.wkey ELSE NoKey) \in Key
      /\ (IF cl.enc THEN cl.en ELSE 0) \in Nat
      /\ cl.enc \in BOOLEAN /\ cl'.try \in Nat
      /\ (cl'.kind = "transient") \in BOOLEAN
  BY KeyTypes DEF Client, NoKey, Key
<1> QED
  BY <1>1 DEF Request, Asks

LEMMA BeginsStep ==
  ASSUME PairInv, NEW kind \in {"transient", "normal", "verify", "raw"},
         Begins(kind)
  PROVE  PairInv'
<1>1. /\ acc \in HapSession /\ cl \in Client /\ UNCHANGED acc /\ Quiet
      /\ cl.step = 0 /\ cl.enc = FALSE
  BY Places DEF Begins, PairInv, Types, Client
<1>2. acc.enc = FALSE /\ acc.en = 0 /\ acc.dn = 0
  BY <1>1 DEF Quiet, PairInv
<1> DEFINE t == cl.try + 1
<1>3. cl' = [cl EXCEPT !.kind = kind, !.step = 1, !.try = t] /\ t \in Nat
  BY <1>1 DEF Begins, Client
<1>4. cl' \in Client /\ cl'.kind = kind /\ cl'.step = 1 /\ cl'.enc = FALSE
  <2> HIDE DEF t
  <2> QED
    BY <1>1, <1>3 DEF Client
<1>5. PathOf(kind) \in {"setup", "verify", "raw"} /\ Request(PathOf(kind), 1, TRUE, 1)
  BY DEF PathOf, Begins
<1>6. /\ wire' \in Asks /\ wire'.is = PathOf(kind) /\ wire'.m = 1
      /\ wire'.n = cl'.try /\ wire'.enc = FALSE
      /\ (wire'.transient <=> cl'.kind = "transient")
  <2>1. PICK is \in {"setup", "verify", "raw"} : is = PathOf(kind)
    BY <1>5
  <2>2. Request(is, 1, TRUE, 1) /\ cl \in Client
    BY <1>1, <1>5, <2>1
  <2>3. wire' \in Asks /\ wire'.is = is /\ wire'.m = 1
        /\ wire'.n = cl'.try /\ wire'.enc = cl.enc
        /\ (wire'.transient <=> cl'.kind = "transient")
    <3>1. cl \in Client /\ cl' \in Client /\ 1 \in Nat /\ TRUE \in BOOLEAN
          /\ is \in {"setup", "verify", "raw", "other"}
      BY <1>4, <2>2
    <3> QED
      BY <2>2, <3>1, RequestType, Zenon
  <2> QED
    BY <1>1, <2>1, <2>3
<1>7. /\ cl'.kind # "none" /\ wire'.is = PathOf(cl'.kind)
      /\ wire'.m = cl'.step /\ wire'.n = cl'.try
      /\ acc'.enc = cl'.enc /\ wire'.enc = cl'.enc
  BY <1>1, <1>2, <1>4, <1>6
<1>8. Asking'
  BY <1>4, <1>6, <1>7 DEF Asking
<1> QED
  BY <1>1, <1>2, <1>4, <1>8 DEF PairInv, Types

LEMMA ContinuesStep ==
  ASSUME PairInv, NEW proof \in BOOLEAN, Continues(proof)
  PROVE  PairInv'
<1>1. acc \in HapSession /\ cl \in Client /\ UNCHANGED acc /\ Quiet
  BY Places DEF Continues, PairInv, Types
<1>2. cl.step = 2 /\ cl.enc = FALSE /\ Chosen /\ cl.kind # "none"
  BY <1>1 DEF Continues, Quiet, Client
<1>3. acc.enc = FALSE /\ acc.en = 0 /\ acc.dn = 0
  BY <1>1, <1>2 DEF Quiet, PairInv
<1>4. cl' = [cl EXCEPT !.step = 3]
  BY <1>2 DEF Continues
<1>5. cl' \in Client /\ cl'.kind = cl.kind /\ cl'.step = 3 /\ cl'.enc = FALSE
  BY <1>1, <1>2, <1>4 DEF Client
<1>6. /\ PathOf(cl.kind) \in {"setup", "verify", "raw"}
      /\ Request(PathOf(cl.kind), 3, proof, 1)
  BY <1>1, <1>2 DEF PathOf, Client, Continues
<1>7. /\ wire' \in Asks /\ wire'.is = PathOf(cl.kind) /\ wire'.m = 3
      /\ wire'.n = cl'.try /\ wire'.enc = FALSE
      /\ (wire'.transient <=> cl'.kind = "transient")
  BY <1>1, <1>2, <1>5, <1>6, RequestType
<1>8. /\ cl'.kind # "none" /\ wire'.is = PathOf(cl'.kind)
      /\ wire'.m = cl'.step /\ wire'.n = cl'.try
      /\ acc'.enc = cl'.enc /\ wire'.enc = cl'.enc
  BY <1>1, <1>2, <1>3, <1>5, <1>7
<1>9. Chosen'
  BY <1>1, <1>2, <1>5 DEF Chosen
<1>10. Asking'
  BY <1>5, <1>7, <1>8, <1>9 DEF Asking
<1> QED
  BY <1>1, <1>3, <1>5, <1>10 DEF PairInv, Types

LEMMA TalksStep ==
  ASSUME PairInv, NEW blocks \in Nat, Talks(blocks)
  PROVE  PairInv'
<1>1. acc \in HapSession /\ cl \in Client /\ UNCHANGED acc /\ Quiet /\ cl.step = 0
  BY Places DEF Talks, PairInv, Types
<1> DEFINE e == IF cl.enc THEN cl.en + blocks ELSE cl.en
           s == cl.sent + 1
<1>2. /\ cl' = [cl EXCEPT !.sent = s, !.en = e] /\ e \in Nat /\ s \in Nat
      /\ cl.enc => e = cl.en + blocks
  BY <1>1 DEF Talks, Client
<1> HIDE DEF e, s
<1>3. /\ cl' \in Client /\ cl'.kind = cl.kind /\ cl'.step = 0 /\ cl'.enc = cl.enc
      /\ cl'.rkey = cl.rkey /\ cl'.wkey = cl.wkey /\ cl'.dn = cl.dn /\ cl'.en = e
  BY <1>1, <1>2 DEF Client
<1>4. Request("other", 0, TRUE, blocks)
  BY DEF Talks
<1>5. /\ wire' \in Asks /\ wire'.is = "other" /\ wire'.enc = cl.enc
      /\ wire'.blocks = blocks
      /\ cl.enc => wire'.key = cl.wkey /\ wire'.at = cl.en
  BY <1>1, <1>3, <1>4, RequestType
<1>6. Asking'
  BY <1>1, <1>2, <1>3, <1>5 DEF Asking, Quiet, Matched
<1> QED
  BY <1>1, <1>3, <1>6 DEF PairInv, Types

LEMMA CloseStep ==
  ASSUME PairInv, Close
  PROVE  PairInv'
<1>1. acc' = NoSession /\ wire' = Silence /\ NoKey \in Key /\ Types
  BY KeyTypes DEF Close, NoKey, Key, PairInv
<1>2. acc' \in HapSession /\ acc'.enc = FALSE /\ acc'.en = 0 /\ acc'.dn = 0
  BY <1>1 DEF NoSession, HapSession
<1>3. cl' \in Client /\ cl'.step = 0 /\ cl'.enc = FALSE
  BY <1>1 DEF Close, Types, Client
<1>4. Quiet'
  <2>1. wire' = Silence' /\ cl'.step \in {0, 2} /\ acc'.enc = cl'.enc
    BY <1>1, <1>2, <1>3 DEF Silence
  <2> QED
    BY <1>3, <2>1 DEF Quiet
<1> QED
  BY <1>2, <1>3, <1>4 DEF PairInv, Types

LEMMA TurnedFacts ==
  ASSUME NEW c \in Client
  PROVE  /\ Turned(c) \in Client /\ Turned(c).enc = TRUE /\ Turned(c).en = 0
         /\ Turned(c).dn = 0 /\ Turned(c).rkey = ReadKey(c.try)
         /\ Turned(c).wkey = WriteKey(c.try) /\ Turned(c).kind = c.kind
         /\ Turned(c).try = c.try
<1>1. c.try \in Nat
  BY DEF Client
<1> QED
  BY <1>1, KeyTypes DEF Turned, Client

(* A reply: the client turns with the accessory or not at all. *)
LEMMA ReadsStep ==
  ASSUME PairInv, Reads
  PROVE  PairInv'
<1> DEFINE turns == cl.kind = "verify" /\ cl.step = 3 /\ wire.ok
           late == cl.kind = "transient" /\ cl.step = 3 /\ wire.ok
           c == IF turns THEN Turned(cl) ELSE cl
           d == [c EXCEPT !.dn = IF c.enc THEN @ + wire.blocks ELSE @]
           next == IF wire.ok /\ cl.step = 1 THEN 2
                   ELSE IF wire.ok /\ cl.step = 3 /\ cl.kind = "normal" THEN 4 ELSE 0
<1>1. /\ acc \in HapSession /\ cl \in Client /\ Answering /\ wire' = Silence
      /\ UNCHANGED acc /\ wire \in Replies
  BY Places DEF Reads, PairInv, Types, Answering
<1>2. cl' = IF late THEN [Turned(d) EXCEPT !.step = next] ELSE [d EXCEPT !.step = next]
  BY DEF Reads
<1>3. /\ cl.step \in {0, 1, 3}
      /\ next \in {0, 2}
      /\ next = 2 => cl.step = 1 /\ wire.ok
      /\ cl.step # 1 => next = 0
  <2>1. cl.step \in {0, 1, 3} /\ (cl.step = 3 /\ cl.kind = "normal" => ~wire.ok)
    BY <1>1 DEF Answering, Turning, Client
  <2> QED
    BY <2>1
<1> HIDE DEF next
<1>4. wire.blocks \in Nat /\ wire.ok \in BOOLEAN /\ cl.enc \in BOOLEAN /\ cl.dn \in Nat
  BY <1>1 DEF Replies, Client
<1>5. CASE cl.enc
  <2>1. /\ cl.step = 0 /\ acc.enc /\ Matched /\ acc.en = cl.dn + wire.blocks
        /\ acc.dn = cl.en
    BY <1>1, <1>5 DEF Answering
  <2> DEFINE e == [cl EXCEPT !.dn = cl.dn + wire.blocks]
  <2>2. cl' = [e EXCEPT !.step = 0]
    BY <1>2, <1>3, <1>5, <2>1
  <2>3. /\ cl' \in Client /\ cl'.step = 0 /\ cl'.enc = TRUE /\ cl'.en = cl.en
        /\ cl'.dn = cl.dn + wire.blocks /\ cl'.rkey = cl.rkey /\ cl'.wkey = cl.wkey
    <3>1. /\ e \in Client /\ e.dn = cl.dn + wire.blocks /\ e.enc = TRUE
          /\ e.en = cl.en /\ e.rkey = cl.rkey /\ e.wkey = cl.wkey
      BY <1>1, <1>4, <1>5 DEF Client
    <3> HIDE DEF e
    <3> QED
      BY <2>2, <3>1 DEF Client
  <2>4. Quiet'
    <3>1. wire' = Silence' /\ acc'.enc = cl'.enc
      BY <1>1, <2>1, <2>3 DEF Silence, HapSession
    <3>2. Matched' /\ acc'.en = cl'.dn /\ acc'.dn = cl'.en
      BY <1>1, <2>1, <2>3 DEF Matched
    <3> QED
      BY <2>3, <3>1, <3>2 DEF Quiet
  <2> QED
    BY <1>1, <2>1, <2>3, <2>4 DEF PairInv, Types
<1>6. CASE ~cl.enc /\ Turning
  <2>1. /\ acc.enc /\ acc.ekey = ReadKey(cl.try) /\ acc.dkey = WriteKey(cl.try)
        /\ acc.dn = 0 /\ acc.en = IF cl.kind = "verify" THEN wire.blocks ELSE 0
        /\ cl.step = 3 /\ wire.ok /\ cl.kind \in {"transient", "verify"}
    BY <1>1, <1>6 DEF Answering, Turning
  <2>2. /\ cl' \in Client /\ cl'.step = 0 /\ cl'.enc = TRUE /\ cl'.en = 0
        /\ cl'.dn = acc.en /\ cl'.rkey = ReadKey(cl.try)
        /\ cl'.wkey = WriteKey(cl.try)
    <3>1. CASE cl.kind = "verify"
      <4> DEFINE t == Turned(cl)
                 e == [t EXCEPT !.dn = wire.blocks]
      <4>1. /\ t \in Client /\ t.enc = TRUE /\ t.en = 0 /\ t.dn = 0
            /\ t.rkey = ReadKey(cl.try) /\ t.wkey = WriteKey(cl.try)
        BY <1>1, TurnedFacts
      <4> HIDE DEF t
      <4>2. t.dn + wire.blocks = wire.blocks
        BY <1>4, <4>1
      <4>3. cl' = [[t EXCEPT !.dn = IF t.enc THEN @ + wire.blocks ELSE @] EXCEPT !.step = 0]
        BY <1>2, <1>3, <2>1, <3>1 DEF t
      <4>4. cl' = [e EXCEPT !.step = 0]
        BY <4>1, <4>2, <4>3
      <4>5. /\ e \in Client /\ e.enc = TRUE /\ e.en = 0 /\ e.dn = wire.blocks
            /\ e.rkey = ReadKey(cl.try) /\ e.wkey = WriteKey(cl.try)
        BY <1>4, <4>1 DEF Client
      <4> HIDE DEF e
      <4> QED
        BY <2>1, <3>1, <4>4, <4>5 DEF Client
    <3>2. CASE cl.kind = "transient"
      <4>1. [cl EXCEPT !.dn = IF cl.enc THEN @ + wire.blocks ELSE @] = cl
        BY <1>1, <1>6 DEF Client
      <4>2. d = cl
        BY <3>2, <4>1
      <4> DEFINE t == Turned(cl)
      <4>3. /\ t \in Client /\ t.enc = TRUE /\ t.en = 0 /\ t.dn = 0
            /\ t.rkey = ReadKey(cl.try) /\ t.wkey = WriteKey(cl.try)
        BY <1>1, TurnedFacts
      <4>4. cl' = [t EXCEPT !.step = 0]
        <5> HIDE DEF d
        <5> QED
          BY <1>2, <1>3, <2>1, <3>2, <4>2
      <4> HIDE DEF t
      <4> QED
        BY <2>1, <3>2, <4>3, <4>4 DEF Client
    <3> QED
      BY <2>1, <3>1, <3>2
  <2>3. Quiet'
    <3>1. wire' = Silence' /\ acc'.enc = cl'.enc
      BY <1>1, <2>1, <2>2 DEF Silence, HapSession
    <3>2. Matched' /\ acc'.en = cl'.dn /\ acc'.dn = cl'.en
      BY <1>1, <2>1, <2>2 DEF Matched
    <3> QED
      BY <2>2, <3>1, <3>2 DEF Quiet
  <2> QED
    BY <1>1, <2>1, <2>2, <2>3 DEF PairInv, Types
<1>7. CASE ~cl.enc /\ ~Turning
  <2>1. /\ acc.enc = FALSE /\ acc.en = 0 /\ acc.dn = 0
        /\ cl.step = 1 => Chosen /\ cl.kind # "none"
    BY <1>1, <1>7 DEF Answering, PairInv, HapSession
  <2>2. [cl EXCEPT !.dn = IF cl.enc THEN @ + wire.blocks ELSE @] = cl
    BY <1>1, <1>7 DEF Client
  <2>3. cl' = [cl EXCEPT !.step = next]
    BY <1>2, <1>7, <2>2 DEF Turning
  <2>4. cl' \in Client /\ cl'.step = next /\ cl'.enc = FALSE /\ cl'.kind = cl.kind
    BY <1>1, <1>3, <1>7, <2>3 DEF Client
  <2>5. Quiet'
    <3>1. Silence' = Silence /\ (cl'.step = 2 => Chosen' /\ cl'.kind # "none")
      BY <1>1, <1>3, <2>1, <2>4 DEF Silence, Chosen
    <3>2. acc'.enc = cl'.enc /\ cl'.step \in {0, 2}
      BY <1>1, <1>3, <2>1, <2>4
    <3> QED
      BY <1>1, <2>4, <3>1, <3>2 DEF Quiet
  <2> QED
    BY <1>1, <2>1, <2>4, <2>5 DEF PairInv, Types
<1> QED
  BY <1>5, <1>6, <1>7

(* A request is served: the encryption goes on when the third message of a *)
(* handshake succeeds, with the keys the client is about to take.          *)
LEMMA ServeStep ==
  ASSUME PairInv, NEW blocks \in Nat, Serve(blocks)
  PROVE  PairInv'
<1> DEFINE a == IF acc.enc THEN [acc EXCEPT !.dn = @ + wire.blocks] ELSE acc
           r == Post(a, wire)
<1>1. /\ acc \in HapSession /\ cl \in Client /\ Asking /\ UNCHANGED cl
      /\ wire \in Asks
  BY Places DEF Serve, PairInv, Types, Asking
<1>2. /\ acc' = IF r[3] THEN Written(r[1], blocks) ELSE r[1]
      /\ wire' = [is |-> "reply", ok |-> r[2], enc |-> r[3],
                  key |-> IF r[3] THEN r[1].ekey ELSE NoKey,
                  at |-> IF r[3] THEN r[1].en ELSE 0, blocks |-> blocks]
  BY DEF Serve
(* The reply, whatever the handler did. *)
<1>3. ASSUME r[1] \in HapSession, r[2] \in BOOLEAN, r[3] \in BOOLEAN
      PROVE  /\ wire' \in Replies /\ wire'.ok = r[2] /\ wire'.blocks = blocks
             /\ acc' \in HapSession /\ acc'.enc = r[1].enc /\ acc'.dn = r[1].dn
             /\ acc'.ekey = r[1].ekey /\ acc'.dkey = r[1].dkey
             /\ acc'.en = IF r[3] THEN r[1].en + blocks ELSE r[1].en
             /\ acc'.transient = r[1].transient /\ acc'.pass = r[1].pass
  <2> HIDE DEF r
  <2>1. /\ (IF r[3] THEN r[1].ekey ELSE NoKey) \in Key
        /\ (IF r[3] THEN r[1].en ELSE 0) \in Nat
    BY <1>3, KeyTypes DEF HapSession, NoKey, Key
  <2>2. wire' \in Replies /\ wire'.ok = r[2] /\ wire'.blocks = blocks
    BY <1>2, <1>3, <2>1 DEF Replies
  <2>3. CASE r[3]
    BY <1>2, <1>3, <2>2, <2>3 DEF Written, HapSession
  <2>4. CASE ~r[3]
    BY <1>2, <1>3, <2>2, <2>4
  <2> QED
    BY <2>3, <2>4
<1>4. CASE cl.enc
  <2>1. /\ cl.step = 0 /\ acc.enc = TRUE /\ Matched /\ acc.en = cl.dn
        /\ cl.en = acc.dn + wire.blocks /\ wire.is = "other" /\ wire.blocks \in Nat
    BY <1>1, <1>4 DEF Asking, HapSession, Asks
  <2>2. /\ a \in HapSession /\ a.enc = TRUE /\ a.dn = cl.en /\ a.en = acc.en
        /\ a.ekey = acc.ekey /\ a.dkey = acc.dkey
    BY <1>1, <2>1 DEF HapSession
  <2>3. r[1] = a /\ r[2] = TRUE /\ r[3] = TRUE
    <3> HIDE DEF a
    <3> QED
      BY <1>1, <2>1, <2>2, PostEncrypted
  <2> HIDE DEF r, a
  <2>4. /\ wire' \in Replies /\ wire'.blocks = blocks /\ acc' \in HapSession
        /\ acc'.enc = TRUE /\ acc'.dn = cl.en /\ acc'.ekey = acc.ekey
        /\ acc'.dkey = acc.dkey /\ acc'.en = acc.en + blocks
    BY <1>3, <2>2, <2>3
  <2>5. Answering'
    BY <1>1, <1>4, <2>1, <2>4 DEF Answering, Matched
  <2> QED
    BY <1>1, <2>4, <2>5 DEF PairInv, Types
<1>5. CASE ~cl.enc
  <2>1. /\ acc.enc = FALSE /\ InClear(acc) /\ a = acc /\ wire.is \in {"setup", "verify", "raw", "other"}
        /\ cl.step \in {0, 1, 3}
    BY <1>1, <1>5 DEF Asking, HapSession, PairInv, InClear, Asks
  <2>2. PICK p : p = Post(acc, wire) /\ p = r
    BY <2>1
  <2> HIDE DEF r, a
  (* Every case but the turning one leaves the channel in clear. *)
  <2> DEFINE silent == Clean(p[1]) /\ p[1].enc = FALSE /\ p[2] \in BOOLEAN /\ p[3] = FALSE
             first == cl.step = 1 => Chosen' /\ cl.kind # "none"
             third == cl.step = 3 /\ cl.kind # "raw" => ~p[2]
  <2>3. ASSUME silent, first, third
        PROVE  PairInv'
    <3>1. /\ wire' \in Replies /\ wire'.ok = p[2] /\ acc' \in HapSession
          /\ acc'.enc = FALSE /\ acc'.dn = 0 /\ acc'.en = 0
      BY <1>3, <2>2, <2>3 DEF Clean
    <3>2. ~Turning'
      BY <1>1, <2>3, <3>1 DEF Turning
    <3>3. Answering'
      BY <1>1, <1>5, <2>1, <2>3, <3>1, <3>2 DEF Answering
    <3> QED
      BY <1>1, <3>1, <3>3 DEF PairInv, Types
  (* The handshake succeeds. *)
  <2>4. ASSUME Clean(p[1]), KeyedFor(p[1], cl.try), p[2] = TRUE, p[3] \in BOOLEAN,
               cl.step = 3, cl.kind \in {"transient", "verify"},
               p[3] <=> cl.kind = "verify"
        PROVE  PairInv'
    <3>1. /\ wire' \in Replies /\ wire'.ok = TRUE /\ acc' \in HapSession
          /\ acc'.enc = p[1].enc /\ acc'.dn = 0 /\ wire'.blocks = blocks
          /\ acc'.en = IF p[3] THEN 0 + blocks ELSE 0
          /\ acc'.ekey = ReadKey(cl.try) /\ acc'.dkey = WriteKey(cl.try)
      BY <1>3, <2>2, <2>4 DEF Clean, KeyedFor
    <3>2. acc'.enc /\ acc'.en = IF cl'.kind = "verify" THEN wire'.blocks ELSE 0
      BY <1>1, <2>4, <3>1 DEF KeyedFor
    <3>3. Turning' /\ cl'.try = cl.try
      BY <1>1, <2>4, <3>1 DEF Turning
    <3>4. Answering'
      BY <1>1, <1>5, <2>4, <3>1, <3>2, <3>3 DEF Answering
    <3> QED
      BY <1>1, <3>1, <3>2, <3>4 DEF PairInv, Types
  <2>5. CASE cl.step = 0
    <3>1. wire.is = "other"
      BY <1>1, <2>5 DEF Asking
    <3>2. Clean(p[1]) /\ p[1].enc = FALSE /\ p[2] \in BOOLEAN /\ p[3] = FALSE
      BY <1>1, <2>1, <2>2, <3>1, PostOthers
    <3>3. silent /\ first /\ third
      BY <2>5, <3>2
    <3> HIDE DEF silent, first, third
    <3> QED
      BY <2>3, <3>3
  <2>6. CASE cl.step # 0
    <3>1. /\ cl.kind \in {"transient", "normal", "verify", "raw"}
          /\ wire.is = PathOf(cl.kind) /\ wire.m = cl.step /\ wire.n = cl.try
          /\ (wire.transient <=> cl.kind = "transient") /\ wire.transient \in BOOLEAN
      BY <1>1, <2>6 DEF Asking, Client, Asks
    <3>2. CASE cl.kind \in {"transient", "normal"} /\ cl.step = 1
      <4>1. wire.is = "setup" /\ wire.m = 1
        BY <3>1, <3>2 DEF PathOf
      <4>2. /\ Clean(p[1]) /\ p[1].enc = FALSE /\ p[2] \in BOOLEAN /\ p[3] = FALSE
            /\ p[1].transient = wire.transient
            /\ p[1].pass = IF wire.transient THEN "3939" ELSE "0000"
        BY <1>1, <2>1, <2>2, <4>1, PostSetup1
      <4>3. acc'.transient = wire.transient /\ acc'.pass = p[1].pass
        BY <1>3, <2>2, <4>2 DEF Clean
      <4>4. Chosen'
        BY <1>1, <3>1, <4>2, <4>3 DEF Chosen
      <4>5. silent /\ first /\ third
        BY <3>2, <4>2, <4>4
      <4> HIDE DEF silent, first, third
      <4> QED
        BY <2>3, <4>5
    <3>3. CASE cl.kind \in {"transient", "normal"} /\ cl.step = 3
      <4>1. wire.is = "setup" /\ wire.m = 3
        BY <3>1, <3>3 DEF PathOf
      <4>2. /\ Clean(p[1]) /\ p[2] \in BOOLEAN /\ p[3] = FALSE
            /\ p[2] => acc.pass = "3939"
            /\ p[2] = FALSE => p[1].enc = FALSE
            /\ p[2] /\ acc.transient => KeyedFor(p[1], wire.n)
        BY <1>1, <2>1, <2>2, <4>1, PostSetup3
      <4>3. /\ acc.transient <=> cl.kind = "transient"
            /\ acc.pass = IF cl.kind = "transient" THEN "3939" ELSE "0000"
        BY <1>1, <3>3 DEF Asking, Chosen
      <4>4. CASE p[2]
        <5>1. cl.kind = "transient" /\ KeyedFor(p[1], cl.try)
          BY <3>1, <3>3, <4>2, <4>3, <4>4
        <5> QED
          BY <2>4, <3>3, <4>2, <4>4, <5>1
      <4>5. CASE ~p[2]
        <5>1. silent /\ first /\ third
          BY <3>3, <4>2, <4>5
        <5> HIDE DEF silent, first, third
        <5> QED
          BY <2>3, <5>1
      <4> QED
        BY <4>4, <4>5
    <3>4. CASE cl.kind = "verify" /\ cl.step = 3
      <4>1. wire.is = "verify" /\ wire.m = 3
        BY <3>1, <3>4 DEF PathOf
      <4>2. /\ Clean(p[1]) /\ p[2] \in BOOLEAN
            /\ p[3] \in BOOLEAN /\ (p[3] <=> p[2])
            /\ p[1].enc \in BOOLEAN /\ (p[1].enc <=> p[2])
            /\ p[2] => KeyedFor(p[1], wire.n)
        BY <1>1, <2>1, <2>2, <4>1, PostVerify3
      <4>3. CASE p[2]
        BY <2>4, <3>1, <3>4, <4>2, <4>3
      <4>4. CASE ~p[2]
        <5>1. silent /\ first /\ third
          BY <3>4, <4>2, <4>4
        <5> HIDE DEF silent, first, third
        <5> QED
          BY <2>3, <5>1
      <4> QED
        BY <4>3, <4>4
    <3>5. CASE cl.kind = "raw" \/ (cl.kind = "verify" /\ cl.step = 1)
      <4>1. wire.is = "raw" \/ (wire.is = "verify" /\ wire.m = 1)
        BY <3>1, <3>5 DEF PathOf
      <4>2. Clean(p[1]) /\ p[1].enc = FALSE /\ p[2] \in BOOLEAN /\ p[3] = FALSE
        BY <1>1, <2>1, <2>2, <4>1, PostOthers
      <4>3. Chosen' /\ cl.kind # "none"
        BY <1>1, <3>5 DEF Chosen
      <4>4. silent /\ first /\ third
        BY <3>5, <4>2, <4>3
      <4> HIDE DEF silent, first, third
      <4> QED
        BY <2>3, <4>4
    <3> QED
      BY <2>1, <2>6, <3>1, <3>2, <3>3, <3>4, <3>5
  <2> QED
    BY <2>5, <2>6
<1> QED
  BY <1>4, <1>5

-----------------------------------------------------------------------------
(* Both ends turn the encryption on at the same message and stay in step,  *)
(* whatever handshakes failed, were repeated or followed each other, and   *)
(* however many frames each message took.  (handle_post, rtsp_crypto.c.)   *)
THEOREM EndsInStep == Spec => []InStep
<1>1. PairInv /\ [Next]_vars => PairInv'
  <2> SUFFICES ASSUME PairInv, [Next]_vars PROVE PairInv'
    OBVIOUS
  <2>1. ASSUME NEW b \in 1..MaxFrames, Serve(b) \/ Talks(b) PROVE PairInv'
    <3>1. b \in Nat
      OBVIOUS
    <3> QED
      BY <2>1, <3>1, ServeStep, TalksStep
  <2>2. CASE Reads \/ Close
    BY <2>2, ReadsStep, CloseStep
  <2>3. CASE UNCHANGED vars
    BY <2>3 DEF vars, PairInv, Types, Quiet, Asking, Answering, Matched,
                Chosen, Turning, Silence
  <2> QED
    BY <2>1, <2>2, <2>3, BeginsStep, ContinuesStep DEF Next
<1>2. PairInv => InStep
  <2> SUFFICES ASSUME PairInv PROVE InStep
    OBVIOUS
  <2>1. CASE wire.is = "none"
    BY <2>1, Places DEF Quiet, Matched, InStep
  <2>2. CASE wire.is = "reply"
    BY <2>2 DEF InStep
  <2>3. CASE wire.is \notin {"none", "reply"}
    BY <2>3, Places DEF Asking, Matched, InStep, Opens
  <2> QED
    BY <2>1, <2>2, <2>3
<1> QED
  BY InitInv, <1>1, <1>2, PTL DEF Spec

-----------------------------------------------------------------------------
(* The resend window (Resend): the sequence numbers, modulo SeqNumbers.     *)

(* Equal but for whole turns of the sequence numbers.                       *)
Congruent(x, y) == \E k \in Int : x - y = SeqNumbers * k

LEMMA SequenceSizes ==
  \E H \in Nat : /\ H = SeqNumbers \div 2 /\ H > 0 /\ 2 * H <= SeqNumbers
                 /\ SeqNumbers \in Nat \ {0} /\ FirstSeq \in Nat
                 /\ Window \in Nat \ {0} /\ Window < H
                 /\ Packets \in Nat /\ Packets <= H
BY SequenceAssumption

LEMMA NumbersNat == SeqNumbers \in Nat \ {0} /\ FirstSeq \in Nat
BY SequenceSizes

LEMMA CongruentShift ==
  ASSUME NEW x \in Int, NEW y \in Int, NEW u \in Int, NEW v \in Int, x - y = u - v, Congruent(x, y)
  PROVE  Congruent(u, v)
BY DEF Congruent

LEMMA CongruentBack ==
  ASSUME NEW x \in Int, NEW y \in Int, Congruent(x, y)
  PROVE  Congruent(y, x)
<1>1. PICK M \in Nat : M = SeqNumbers
  BY NumbersNat
<1>2. PICK k \in Int : x - y = M * k
  BY <1>1 DEF Congruent
<1>3. M * (-k) = -(M * k)
  OBVIOUS
<1>4. y - x = M * (-k)
  BY <1>2, <1>3
<1> QED
  BY <1>1, <1>4 DEF Congruent

LEMMA CongruentOn ==
  ASSUME NEW x \in Int, NEW y \in Int, NEW z \in Int, Congruent(x, y), Congruent(y, z)
  PROVE  Congruent(x, z)
<1>1. PICK M \in Nat : M = SeqNumbers
  BY NumbersNat
<1>2. PICK k \in Int : x - y = M * k
  BY <1>1 DEF Congruent
<1>3. PICK l \in Int : y - z = M * l
  BY <1>1 DEF Congruent
<1>4. M * (k + l) = M * k + M * l
  OBVIOUS
<1>5. PICK j \in Int : j = k + l
  OBVIOUS
<1>6. x - z = M * j
  <2>1. M * k \in Int /\ M * l \in Int
    OBVIOUS
  <2> QED
    BY <1>2, <1>3, <1>4, <1>5, <2>1
<1> QED
  BY <1>1, <1>6 DEF Congruent

(* Less than a turn apart.                                                  *)
LEMMA CongruentNear ==
  ASSUME NEW x \in Int, NEW y \in Int, Congruent(x, y), x - y < SeqNumbers, y - x < SeqNumbers
  PROVE  x = y
<1>1. PICK M \in Nat \ {0} : M = SeqNumbers
  BY NumbersNat
<1>2. PICK d \in Int : x - y = M * d
  BY <1>1 DEF Congruent
<1>3. ~(d >= 1)
  <2>1. d >= 1 => M * d >= M
    OBVIOUS
  <2> QED
    BY <1>1, <1>2, <2>1
<1>4. ~(d <= -1)
  <2>1. d <= -1 => M * d <= -M
    OBVIOUS
  <2> QED
    BY <1>1, <1>2, <2>1
<1>5. d = 0
  BY <1>3, <1>4
<1> QED
  BY <1>2, <1>5

LEMMA CongruentRest ==
  ASSUME NEW x \in Int
  PROVE  x % SeqNumbers \in Int /\ x % SeqNumbers >= 0 /\ x % SeqNumbers < SeqNumbers /\ Congruent(x, x % SeqNumbers)
<1>1. PICK M \in Nat \ {0} : M = SeqNumbers
  BY NumbersNat
<1>2. x % M \in 0 .. M - 1 /\ x \div M \in Int /\ x = M * (x \div M) + (x % M)
  BY SMTT(20)
<1>3. PICK q \in Int, r \in 0 .. M - 1 : r = x % M /\ x = M * q + r
  BY <1>2
<1>4. x - r = M * q
  BY <1>3
<1>5. Congruent(x, r)
  BY <1>1, <1>4 DEF Congruent
<1> QED
  BY <1>1, <1>3, <1>5

LEMMA AheadRest ==
  ASSUME NEW a \in Int, NEW b \in Int
  PROVE  Ahead(a, b) \in Int /\ Ahead(a, b) >= 0 /\ Ahead(a, b) < SeqNumbers /\ Congruent(a - b, Ahead(a, b))
<1>1. PICK c \in Int : c = a - b
  OBVIOUS
<1>2. c % SeqNumbers \in Int /\ c % SeqNumbers >= 0 /\ c % SeqNumbers < SeqNumbers /\ Congruent(c, c % SeqNumbers)
  BY CongruentRest
<1> QED
  BY <1>1, <1>2 DEF Ahead

LEMMA SeqRest ==
  ASSUME NEW n \in Nat
  PROVE  SeqOf(n) \in Int /\ Congruent(FirstSeq + n, SeqOf(n))
<1>1. PICK c \in Int : c = FirstSeq + n
  BY NumbersNat
<1>2. c % SeqNumbers \in Int /\ Congruent(c, c % SeqNumbers)
  BY CongruentRest
<1> QED
  BY <1>1, <1>2 DEF SeqOf

(* How far a packet's number is ahead, in packets.                          *)
LEMMA OffsetRest ==
  ASSUME NEW n \in Nat, NEW b \in Int, NEW a, a = Ahead(SeqOf(n), b)
  PROVE  a \in Int /\ a >= 0 /\ a < SeqNumbers /\ Congruent(FirstSeq + n - b, a)
<1>1. PICK s : s = SeqOf(n)
  OBVIOUS
<1>2. s \in Int /\ Congruent(FirstSeq + n, s)
  BY <1>1, SeqRest
<1>3. a = Ahead(s, b)
  BY <1>1
<1>4. a \in Int /\ a >= 0 /\ a < SeqNumbers /\ Congruent(s - b, a)
  BY <1>2, <1>3, AheadRest
<1>5. PICK x \in Int, y \in Int, z \in Int : x = FirstSeq + n /\ y = s - b /\ z = FirstSeq + n - b
  BY <1>2, NumbersNat
<1>6. Congruent(z, y)
  <2>1. Congruent(x, s) /\ x - s = z - y
    BY <1>2, <1>5, NumbersNat
  <2> QED
    BY <2>1, <1>2, CongruentShift
<1>7. Congruent(y, a)
  BY <1>4, <1>5
<1>8. Congruent(z, a)
  BY <1>4, <1>6, <1>7, CongruentOn
<1> QED
  BY <1>4, <1>5, <1>8

LEMMA SamePacket ==
  ASSUME NEW n \in 0 .. Packets - 1, NEW m \in 0 .. Packets - 1, NEW b \in Int,
         Ahead(SeqOf(n), b) = Ahead(SeqOf(m), b)
  PROVE  n = m
<1>1. Packets \in Nat /\ Packets <= SeqNumbers /\ SeqNumbers \in Nat /\ FirstSeq \in Nat
  BY SequenceSizes
<1>2. n \in Nat /\ m \in Nat
  BY <1>1
<1>3. PICK a : a = Ahead(SeqOf(n), b) /\ a = Ahead(SeqOf(m), b)
  OBVIOUS
<1>4. PICK x \in Int, y \in Int : x = FirstSeq + n - b /\ y = FirstSeq + m - b
  BY <1>1
<1>5. a \in Int /\ Congruent(x, a)
  BY <1>2, <1>3, <1>4, OffsetRest
<1>6. Congruent(y, a)
  BY <1>2, <1>3, <1>4, OffsetRest
<1>7. Congruent(a, y)
  BY <1>5, <1>6, CongruentBack
<1>8. Congruent(x, y)
  BY <1>5, <1>7, CongruentOn
<1>9. x - y < SeqNumbers /\ y - x < SeqNumbers
  BY <1>1, <1>4
<1>10. x = y
  BY <1>8, <1>9, CongruentNear
<1> QED
  BY <1>1, <1>4, <1>10

(* The number after that of a packet, whether or not it wraps.              *)
LEMMA ExpectedRest ==
  ASSUME NEW m \in Nat, NEW e, e = SeqOf(m) + 1 \/ e = (SeqOf(m) + 1) % SeqNumbers
  PROVE  e \in Int /\ Congruent(FirstSeq + m + 1, e)
<1>1. PICK s : s = SeqOf(m)
  OBVIOUS
<1>2. s \in Int /\ Congruent(FirstSeq + m, s)
  BY <1>1, SeqRest
<1>3. PICK x \in Int, y \in Int, z \in Int : x = FirstSeq + m /\ y = s + 1 /\ z = FirstSeq + m + 1
  BY <1>2, NumbersNat
<1>4. Congruent(z, y)
  <2>1. Congruent(x, s) /\ x - s = z - y
    BY <1>2, <1>3
  <2> QED
    BY <2>1, <1>2, CongruentShift
<1>5. e = y \/ e = y % SeqNumbers
  BY <1>1, <1>3
<1>6. y % SeqNumbers \in Int /\ Congruent(y, y % SeqNumbers)
  BY CongruentRest
<1>7. e \in Int /\ Congruent(z, e)
  BY <1>4, <1>5, <1>6, CongruentOn
<1> QED
  BY <1>3, <1>7

(* The signed difference of two packets' numbers is how far they are apart. *)
LEMMA DeltaCounts ==
  ASSUME NEW n \in 0 .. Packets - 1, NEW m \in 0 .. Packets - 1, NEW e,
         e = SeqOf(m) + 1 \/ e = (SeqOf(m) + 1) % SeqNumbers
  PROVE  Delta(SeqOf(n), e) = n - m - 1
<1>1. PICK M \in Nat \ {0}, H \in Nat :
        M = SeqNumbers /\ H = SeqNumbers \div 2 /\ H > 0 /\ 2 * H <= M /\ Packets <= H /\ Packets \in Nat /\ FirstSeq \in Nat
  BY SequenceSizes
<1>2. n \in Nat /\ m \in Nat
  BY <1>1
<1>3. e \in Int /\ Congruent(FirstSeq + m + 1, e)
  BY <1>2, ExpectedRest
<1>4. PICK o : o = Ahead(SeqOf(n), e)
  OBVIOUS
<1>5. o \in Int /\ o >= 0 /\ o < M /\ Congruent(FirstSeq + n - e, o)
  BY <1>1, <1>2, <1>3, <1>4, OffsetRest
<1>6. PICK d \in Int, x \in Int, y \in Int : d = n - m - 1 /\ x = FirstSeq + m + 1 /\ y = FirstSeq + n - e
  BY <1>1, <1>2, <1>3
<1>7. Congruent(d, o)
  <2>1. Congruent(x, e) /\ x - e = y - d
    BY <1>1, <1>2, <1>3, <1>6
  <2>2. Congruent(y, d)
    BY <1>3, <1>6, <2>1, CongruentShift
  <2>3. Congruent(d, y)
    BY <1>6, <2>2, CongruentBack
  <2>4. Congruent(y, o)
    BY <1>5, <1>6
  <2> QED
    BY <1>5, <1>6, <2>3, <2>4, CongruentOn
<1>8. d < H /\ d >= -H
  BY <1>1, <1>2, <1>6
<1>9. Delta(SeqOf(n), e) = IF o < H THEN o ELSE o - M
  BY <1>1, <1>4 DEF Delta
<1>10. CASE d >= 0
  <2>1. d - o < SeqNumbers /\ o - d < SeqNumbers
    BY <1>1, <1>5, <1>8, <1>10
  <2>2. d = o
    BY <1>5, <1>6, <1>7, <2>1, CongruentNear
  <2> QED
    BY <1>6, <1>8, <1>9, <2>2
<1>11. CASE d < 0
  <2>1. PICK g \in Int : g = d + M
    BY <1>6
  <2>2. Congruent(g, d)
    <3>1. g - d = M * 1
      BY <1>6, <2>1
    <3> QED
      BY <1>1, <3>1 DEF Congruent
  <2>3. Congruent(g, o)
    BY <1>5, <1>6, <1>7, <2>2, CongruentOn
  <2>4. g - o < SeqNumbers /\ o - g < SeqNumbers
    BY <1>1, <1>5, <1>8, <1>11, <2>1
  <2>5. g = o
    BY <1>5, <2>3, <2>4, CongruentNear
  <2>6. ~(o < H) /\ o - M = d
    BY <1>1, <1>6, <1>8, <2>1, <2>5
  <2> QED
    BY <1>6, <1>9, <2>6
<1> QED
  BY <1>6, <1>10, <1>11

(* The bits set for a gap of c are those of the packets in it.              *)
LEMMA GapBits ==
  ASSUME NEW m \in 0 .. Packets - 1, NEW c \in Nat, m + c + 1 < Packets, NEW b \in Int, NEW e,
         e = (SeqOf(m) + 1) % SeqNumbers, NEW o, o = Ahead(e, b) \/ (b = e /\ o = 0),
         NEW n \in 0 .. Packets - 1, Ahead(SeqOf(n), b) \in o .. (o + c - 1)
  PROVE  m < n /\ n < m + c + 1
<1>1. PICK M \in Nat \ {0} : M = SeqNumbers /\ Packets <= M /\ Packets \in Nat /\ FirstSeq \in Nat
  BY SequenceSizes
<1>2. n \in Nat /\ m \in Nat
  BY <1>1
<1>3. e \in Int /\ Congruent(FirstSeq + m + 1, e)
  BY <1>2, ExpectedRest
<1>4. o \in Int /\ Congruent(e - b, o)
  <2>1. CASE o = Ahead(e, b)
    BY <1>3, <2>1, AheadRest
  <2>2. CASE b = e /\ o = 0
    <3>1. PICK w \in Int : w = e - b
      BY <1>3
    <3>2. w - o = M * 0 /\ o \in Int
      BY <2>2, <3>1
    <3>3. Congruent(w, o)
      BY <1>1, <3>2 DEF Congruent
    <3> QED
      BY <3>1, <3>2, <3>3
  <2> QED
    BY <2>1, <2>2
<1>5. PICK a : a = Ahead(SeqOf(n), b)
  OBVIOUS
<1>6. a \in Int /\ Congruent(FirstSeq + n - b, a)
  BY <1>2, <1>5, OffsetRest
<1>7. PICK j \in Int : j = a - o /\ 0 <= j /\ j < c
  BY <1>4, <1>5, <1>6
<1>8. PICK x \in Int, y \in Int, z \in Int, u \in Int, v \in Int :
        x = FirstSeq + n - b /\ y = FirstSeq + m + 1 /\ z = e - b /\ u = z + j /\ v = y - b + j
  BY <1>1, <1>2, <1>3, <1>7
<1>9. Congruent(v, u)
  <2>1. Congruent(y, e) /\ y - e = v - u
    BY <1>3, <1>8
  <2> QED
    BY <1>3, <1>8, <2>1, CongruentShift
<1>10. Congruent(u, a)
  <2>1. Congruent(z, o) /\ z - o = u - a
    BY <1>4, <1>6, <1>7, <1>8
  <2> QED
    BY <1>4, <1>6, <1>8, <2>1, CongruentShift
<1>11. Congruent(v, a)
  BY <1>6, <1>8, <1>9, <1>10, CongruentOn
<1>12. Congruent(a, x)
  BY <1>6, <1>8, CongruentBack
<1>13. Congruent(v, x)
  BY <1>6, <1>8, <1>11, <1>12, CongruentOn
<1>14. v - x < SeqNumbers /\ x - v < SeqNumbers
  BY <1>1, <1>2, <1>7, <1>8
<1>15. v = x
  BY <1>8, <1>13, <1>14, CongruentNear
<1> QED
  BY <1>1, <1>2, <1>7, <1>8, <1>15

(* Moving the window moves the offsets with it.                             *)
LEMMA SlidBack ==
  ASSUME NEW n \in Nat, NEW f \in Int, NEW k \in Int, NEW o \in Int, o >= 0, o < SeqNumbers, NEW g \in Int,
         Congruent(f + k, g), Ahead(SeqOf(n), g) = o - k
  PROVE  Ahead(SeqOf(n), f) = o
<1>1. PICK M \in Nat \ {0} : M = SeqNumbers /\ FirstSeq \in Nat
  BY SequenceSizes
<1>2. PICK s \in Int : s = f + k
  OBVIOUS
<1>3. g \in Int /\ Congruent(s, g)
  BY <1>2
<1>4. PICK a : a = Ahead(SeqOf(n), f)
  OBVIOUS
<1>5. a \in Int /\ a >= 0 /\ a < M /\ Congruent(FirstSeq + n - f, a)
  BY <1>1, <1>4, OffsetRest
<1>6. PICK h : h = Ahead(SeqOf(n), g)
  OBVIOUS
<1>7. h \in Int /\ Congruent(FirstSeq + n - g, h)
  BY <1>3, <1>6, OffsetRest
<1>8. h = o - k /\ o \in Int
  BY <1>1, <1>6
<1>9. PICK x \in Int, y \in Int, z \in Int : x = FirstSeq + n - f /\ y = FirstSeq + n - g /\ z = FirstSeq + n - g + k
  <2>1. FirstSeq + n - f \in Int /\ FirstSeq + n - g \in Int /\ FirstSeq + n - g + k \in Int
    BY <1>1, <1>3
  <2> QED
    BY <2>1
<1>10. Congruent(z, o)
  <2>1. Congruent(y, h) /\ y - h = z - o
    BY <1>3, <1>7, <1>8, <1>9
  <2> QED
    BY <1>7, <1>8, <1>9, <2>1, CongruentShift
<1>11. Congruent(z, x)
  <2>1. Congruent(s, g) /\ s - g = z - x
    BY <1>1, <1>2, <1>3, <1>9
  <2> QED
    BY <1>2, <1>3, <1>9, <2>1, CongruentShift
<1>12. Congruent(x, a)
  BY <1>5, <1>9
<1>13. Congruent(z, a)
  BY <1>5, <1>9, <1>11, <1>12, CongruentOn
<1>14. Congruent(o, z)
  BY <1>8, <1>9, <1>10, CongruentBack
<1>15. Congruent(o, a)
  BY <1>5, <1>8, <1>9, <1>13, <1>14, CongruentOn
<1>16. o - a < SeqNumbers /\ a - o < SeqNumbers
  BY <1>1, <1>5
<1>17. o = a
  BY <1>5, <1>8, <1>15, <1>16, CongruentNear
<1> QED
  BY <1>4, <1>17

-----------------------------------------------------------------------------
(* What the receiver takes for missing was not given to the decoder, and    *)
(* lies before the last packet L in order.  Inside resend_track_missing the *)
(* packet that showed the gap is newer than L, the gap lies between them,   *)
(* and the old mask is either kept, with its window, or will be written     *)
(* over.                                                                    *)
Windows == [valid : BOOLEAN, last : Int, first : Int, mask : SUBSET (0 .. Window - 1),
            asked : {"never", "now", "due"}, backoff : BOOLEAN]
ResendTypes ==
    /\ sent \in 0 .. Packets /\ rx \in Windows
    /\ \A p \in medium : p.kind \in {"rtp", "again"} => p.n \in 0 .. sent - 1
    /\ \/ work = NotTracking
       \/ /\ work.on = TRUE /\ work.keep \in BOOLEAN /\ work.bits \subseteq 0 .. Window - 1
          /\ work.p.n \in 0 .. sent - 1
    /\ left = [faults |-> left.faults, resets |-> left.resets, torn |-> left.torn] /\ left.torn \in BOOLEAN
UpTo(L) ==
    /\ rx.last = SeqOf(L)
    /\ \A q \in got : q[1] <= L
    /\ (~work.on \/ work.keep) =>
         \A n \in 0 .. Packets - 1 : Marked(rx, SeqOf(n)) => n < L /\ \A q \in got : q[1] # n
    /\ work.on =>
         /\ L < work.p.n
         /\ \A n \in 0 .. Packets - 1 : Ahead(SeqOf(n), rx.first) \in work.bits => L < n /\ n < work.p.n
Whole ==
    /\ \A q \in got : q[2] = 1 /\ q[1] \in 0 .. sent - 1
    /\ ~rx.valid => rx.mask = {} /\ got = {} /\ ~work.on
    /\ rx.valid => \E L \in 0 .. sent - 1 : UpTo(L)
ResendInv == ResendTypes /\ (~left.torn => Whole)

LEMMA WindowSize == Window \in Nat \ {0} /\ Packets \in Nat /\ SeqNumbers \in Nat \ {0}
BY SequenceSizes

LEMMA AskedKeeps ==
  ASSUME NEW r \in Windows, NEW n, NEW ask, NEW fails
  PROVE  LET x == Asked(r, n, ask, fails) IN
         /\ x[1] \in Windows /\ x[1].valid = r.valid /\ x[1].last = r.last
         /\ x[1].first = r.first /\ x[1].mask = r.mask
         /\ \A p \in x[2] : p \in n \/ p.kind = "nack"
<1>1. CASE r.backoff
  BY <1>1 DEF Asked
<1>2. CASE ~r.backoff /\ fails
  BY <1>2 DEF Asked, Windows
<1>3. CASE ~r.backoff /\ ~fails
  <2>1. PICK q : q = [kind |-> "nack", first |-> ask.first, count |-> ask.count]
    OBVIOUS
  <2>2. q.kind = "nack"
    BY <2>1
  <2>3. Asked(r, n, ask, fails) = <<[r EXCEPT !.asked = "now"], n \cup {q}>>
    BY <1>3, <2>1 DEF Asked
  <2>4. PICK r2 : r2 = [r EXCEPT !.asked = "now"]
    OBVIOUS
  <2>5. r2 \in Windows /\ r2.valid = r.valid /\ r2.last = r.last /\ r2.first = r.first /\ r2.mask = r.mask
    BY <2>4 DEF Windows
  <2>6. \A p \in n \cup {q} : p \in n \/ p.kind = "nack"
    BY <2>2
  <2>7. PICK x : x = Asked(r, n, ask, fails)
    OBVIOUS
  <2>8. x[1] = r2 /\ x[2] = n \cup {q}
    BY <2>3, <2>4, <2>7
  <2> QED
    BY <2>5, <2>6, <2>7, <2>8
<1> QED
  BY <1>1, <1>2, <1>3

LEMMA RetriedKeeps ==
  ASSUME NEW r \in Windows, NEW n, NEW fails
  PROVE  LET x == Retried(r, n, fails) IN
         /\ x[1] \in Windows /\ x[1].valid = r.valid /\ x[1].last = r.last
         /\ x[1].first = r.first /\ x[1].mask = r.mask
         /\ \A p \in x[2] : p \in n \/ p.kind = "nack"
<1>1. CASE r.mask = {} \/ r.asked = "now"
  BY <1>1 DEF Retried
<1>2. CASE ~(r.mask = {} \/ r.asked = "now")
  <2>1. PICK g : g = RangeOf(r)
    OBVIOUS
  <2>2. Retried(r, n, fails) = Asked(r, n, g, fails)
    BY <1>2, <2>1 DEF Retried
  <2> QED
    BY <2>2, AskedKeeps
<1> QED
  BY <1>1, <1>2

(* Whatever the packet: marking forgets it, and no other turns up.          *)
LEMMA MarkKeeps ==
  ASSUME NEW r \in Windows, NEW s, Marked(r, s), NEW t, t = Mark(r, s)
  PROVE  /\ t \in Windows /\ t.valid = r.valid /\ t.last = r.last
         /\ \A n \in Nat : Marked(t, SeqOf(n)) => Marked(r, SeqOf(n)) /\ Ahead(SeqOf(n), r.first) # Ahead(s, r.first)
<1>1. PICK a, f, m : a = Ahead(s, r.first) /\ f = r.first /\ m = r.mask \ {a}
  OBVIOUS
<1>2. PICK u : u = [r EXCEPT !.mask = @ \ {a}]
  OBVIOUS
<1>3. f \in Int /\ m \subseteq 0 .. Window - 1 /\ m \subseteq r.mask /\ a \notin m
  BY <1>1 DEF Windows
<1>4. u \in Windows /\ u.valid = r.valid /\ u.last = r.last /\ u.first = f /\ u.mask = m
  BY <1>1, <1>2, <1>3 DEF Windows
<1>5. t = Slide(u)
  BY <1>1, <1>2 DEF Mark
<1>6. CASE m = {}
  <2>1. t = [u EXCEPT !.asked = "never"]
    BY <1>4, <1>5, <1>6 DEF Slide
  <2>2. t \in Windows /\ t.valid = r.valid /\ t.last = r.last /\ t.mask = {}
    BY <1>4, <1>6, <2>1 DEF Windows
  <2> QED
    BY <2>2 DEF Marked
<1>7. CASE m # {}
  <2>1. PICK k : k = Min(m)
    OBVIOUS
  <2>2. \E x \in m : \A y \in m : x <= y
    <3>1. m \in SUBSET Nat
      BY <1>3, WindowSize
    <3> QED
      BY <3>1, <1>7, SmallestNat
  <2>3. k \in m /\ \A y \in m : k <= y
    BY <2>1, <2>2 DEF Min
  <2>4. PICK g, b : g = (f + k) % SeqNumbers /\ b = {o - k : o \in m}
    OBVIOUS
  <2>5. t = [u EXCEPT !.mask = b, !.first = g]
    BY <1>4, <1>5, <1>7, <2>1, <2>4 DEF Slide
  <2>6. k \in Int
    BY <1>3, <2>3, WindowSize
  <2>7. g \in Int /\ Congruent(f + k, g)
    <3>1. PICK x \in Int : x = f + k
      BY <1>3, <2>6
    <3>2. x % SeqNumbers \in Int /\ Congruent(x, x % SeqNumbers)
      BY CongruentRest
    <3> QED
      BY <2>4, <3>1, <3>2
  <2>8. b \subseteq 0 .. Window - 1
    <3> SUFFICES ASSUME NEW o \in m
                 PROVE  o - k \in 0 .. Window - 1
      BY <2>4
    <3>1. o \in 0 .. Window - 1 /\ k <= o /\ k \in 0 .. Window - 1
      BY <1>3, <2>3
    <3> QED
      BY <3>1, WindowSize
  <2>9. t \in Windows /\ t.valid = r.valid /\ t.last = r.last /\ t.first = g /\ t.mask = b
    BY <1>4, <2>5, <2>7, <2>8 DEF Windows
  <2>10. ASSUME NEW n \in Nat, Marked(t, SeqOf(n))
         PROVE  Marked(r, SeqOf(n)) /\ Ahead(SeqOf(n), r.first) # Ahead(s, r.first)
    <3>1. Ahead(SeqOf(n), g) \in b
      BY <2>9, <2>10 DEF Marked
    <3>2. PICK o \in m : Ahead(SeqOf(n), g) = o - k
      BY <2>4, <3>1
    <3>3. o \in 0 .. Window - 1
      BY <1>3
    <3>4. f \in Int /\ o \in Int /\ o >= 0 /\ o < SeqNumbers
      BY <1>3, <3>3, SequenceSizes
    <3>5. Ahead(SeqOf(n), f) = o
      BY <2>6, <2>7, <3>2, <3>4, SlidBack
    <3>6. o \in r.mask /\ o # a
      BY <1>3
    <3> QED
      BY <1>1, <3>5, <3>6 DEF Marked
  <2> QED
    BY <2>9, <2>10
<1> QED
  BY <1>6, <1>7

LEMMA Delivered ==
  ASSUME NEW n, \A q \in got : q[1] # n, Deliver(n)
  PROVE  got' = got \cup {<<n, 1>>}
<1>1. {q \in got : q[1] = n} = {}
  OBVIOUS
<1>2. Cardinality({q \in got : q[1] = n}) = 0
  BY <1>1, FS_EmptySet
<1> QED
  BY <1>2 DEF Deliver

(* What an accepted packet changes besides.                                 *)
LEMMA AcceptKeeps ==
  ASSUME ResendTypes, NEW r \in Windows, NEW p, NEW fails, Accept(r, p, fails)
  PROVE  /\ ResendTypes' /\ sent' = sent /\ work' = work /\ left'.torn = left.torn /\ Deliver(p.n)
         /\ rx'.valid = r.valid /\ rx'.last = r.last /\ rx'.first = r.first /\ rx'.mask = r.mask
<1>1. PICK n, x : n = medium \ {p} /\ x = Retried(r, n, fails)
  OBVIOUS
<1>2. rx' = x[1] /\ medium' = x[2]
  BY <1>1 DEF Accept
<1>3. /\ rx' \in Windows /\ rx'.valid = r.valid /\ rx'.last = r.last
      /\ rx'.first = r.first /\ rx'.mask = r.mask
  BY <1>1, <1>2, RetriedKeeps
<1>4. \A q \in medium' : q \in n \/ q.kind = "nack"
  BY <1>1, <1>2, RetriedKeeps
<1>5. \A q \in medium' : q.kind \in {"rtp", "again"} => q.n \in 0 .. sent - 1
  BY <1>1, <1>4 DEF ResendTypes
<1>6. /\ left' = [faults |-> left'.faults, resets |-> left'.resets, torn |-> left'.torn]
      /\ left'.torn = left.torn
  <2>1. PICK f : left' = [left EXCEPT !.faults = f]
    BY DEF Accept, Use
  <2> QED
    BY <2>1 DEF ResendTypes
<1>7. sent' = sent /\ work' = work /\ Deliver(p.n)
  BY DEF Accept
<1> QED
  BY <1>3, <1>5, <1>6, <1>7 DEF ResendTypes

(* An accepted packet that is new, in a window that knows of nothing given. *)
LEMMA AcceptNew ==
  ASSUME ResendInv, ~work.on, NEW p, NEW r \in Windows, NEW fails, Accept(r, p, fails),
         ~left.torn => r.valid /\ \E L \in 0 .. sent - 1 :
                         /\ p.n \in 0 .. L /\ r.last = SeqOf(L)
                         /\ \A q \in got : q[1] <= L /\ q[1] # p.n
                         /\ \A n \in 0 .. Packets - 1 :
                              Marked(r, SeqOf(n)) => n < L /\ n # p.n /\ \A q \in got : q[1] # n
  PROVE  ResendInv'
<1>1. /\ ResendTypes' /\ sent' = sent /\ work' = work /\ left'.torn = left.torn /\ Deliver(p.n)
      /\ rx'.valid = r.valid /\ rx'.last = r.last /\ rx'.first = r.first /\ rx'.mask = r.mask
  BY AcceptKeeps DEF ResendInv
<1>2. ASSUME ~left'.torn
      PROVE  Whole'
  <2>1. ~left.torn
    BY <1>1, <1>2
  <2>2. Whole
    BY <2>1 DEF ResendInv
  <2>3. PICK L \in 0 .. sent - 1 :
                         /\ p.n \in 0 .. L /\ r.last = SeqOf(L)
                         /\ \A q \in got : q[1] <= L /\ q[1] # p.n
                         /\ \A n \in 0 .. Packets - 1 :
                              Marked(r, SeqOf(n)) => n < L /\ n # p.n /\ \A q \in got : q[1] # n
    BY <2>1
  <2>4. got' = got \cup {<<p.n, 1>>}
    BY <1>1, <2>3, Delivered
  <2>5. PICK e : e = <<p.n, 1>>
    OBVIOUS
  <2>6. e[1] = p.n /\ e[2] = 1 /\ got' = got \cup {e}
    BY <2>4, <2>5
  <2>7. p.n \in 0 .. sent - 1 /\ p.n <= L
    <3>1. sent \in Int
      BY WindowSize DEF ResendInv, ResendTypes
    <3> QED
      BY <2>3, <3>1
  <2>8. \A q \in got' : q[2] = 1 /\ q[1] \in 0 .. sent - 1
    BY <2>2, <2>6, <2>7 DEF Whole
  <2>9. \A q \in got' : q[1] <= L
    BY <2>3, <2>6, <2>7
  <2>10. \A n \in 0 .. Packets - 1 : Marked(rx', SeqOf(n)) => n < L /\ \A q \in got' : q[1] # n
    <3> SUFFICES ASSUME NEW n \in 0 .. Packets - 1, Marked(rx', SeqOf(n))
                 PROVE  n < L /\ \A q \in got' : q[1] # n
      OBVIOUS
    <3>1. Marked(r, SeqOf(n))
      BY <1>1 DEF Marked
    <3> QED
      BY <2>3, <2>6, <3>1
  <2>11. UpTo(L)'
    BY <1>1, <2>3, <2>9, <2>10 DEF UpTo, Marked
  <2>12. rx'.valid
    BY <1>1, <2>1
  <2> QED
    BY <1>1, <2>8, <2>11, <2>12 DEF Whole
<1> QED
  BY <1>1, <1>2 DEF ResendInv

(* Steps that give the decoder nothing and leave the window alone.          *)
LEMMA Unheard ==
  ASSUME ResendInv, ResendTypes', left'.torn = left.torn, UNCHANGED <<work, got>>, sent <= sent',
         rx'.valid = rx.valid, rx'.last = rx.last, rx'.first = rx.first, rx'.mask = rx.mask
  PROVE  ResendInv'
<1>1. ASSUME Whole
      PROVE  Whole'
  <2>0. sent \in Int /\ sent' \in Int
    BY WindowSize DEF ResendInv, ResendTypes
  <2>1. ASSUME NEW x \in 0 .. sent - 1
        PROVE  x \in 0 .. sent' - 1
    <3>1. PICK b \in Int : b = sent' /\ sent <= b
      BY <2>0
    <3>2. PICK a \in Int : a = sent /\ a <= b
      BY <2>0, <3>1
    <3>3. x \in 0 .. a - 1
      BY <3>2
    <3>4. x \in 0 .. b - 1
      BY <3>2, <3>3
    <3> QED
      BY <3>1, <3>4
  <2>2. \A q \in got' : q[2] = 1 /\ q[1] \in 0 .. sent' - 1
    BY <1>1, <2>1 DEF Whole
  <2>3. ~rx'.valid => rx'.mask = {} /\ got' = {} /\ ~work'.on
    BY <1>1 DEF Whole
  <2>4. ASSUME rx'.valid
        PROVE  \E L \in 0 .. sent' - 1 : UpTo(L)'
    <3>1. PICK L \in 0 .. sent - 1 : UpTo(L)
      BY <1>1, <2>4 DEF Whole
    <3>2. UpTo(L)'
      BY <2>1, <3>1 DEF UpTo, Marked
    <3> QED
      BY <2>1, <3>1, <3>2
  <2> QED
    BY <2>2, <2>3, <2>4 DEF Whole
<1> QED
  BY <1>1 DEF ResendInv

LEMMA SentSize == ResendInv => sent \in Nat /\ sent <= Packets /\ Packets \in Nat
BY WindowSize DEF ResendInv, ResendTypes

(* A packet in order, or after a gap too long to be asked for.              *)
LEMMA AcceptLater ==
  ASSUME ResendInv, ~work.on, NEW p \in medium, p.kind = "rtp", NEW fails, NEW r \in Windows, Accept(r, p, fails),
         r.valid, r.last = SeqOf(p.n), r.first = rx.first, r.mask = rx.mask,
         rx.valid => Delta(SeqOf(p.n), rx.last + 1) >= 0
  PROVE  ResendInv'
<1>1. sent \in Nat /\ sent <= Packets /\ Packets \in Nat
  BY SentSize
<1>2. p.n \in 0 .. sent - 1
  BY DEF ResendInv, ResendTypes
<1>3. PICK k : k = p.n
  OBVIOUS
<1>4. k \in 0 .. sent - 1 /\ k \in 0 .. Packets - 1 /\ k \in Nat
  BY <1>1, <1>2, <1>3
<1>5. ASSUME Whole
      PROVE  /\ \A q \in got : q[1] < k
             /\ \A n \in 0 .. Packets - 1 : Marked(r, SeqOf(n)) => n < k /\ \A q \in got : q[1] # n
  <2>1. CASE ~rx.valid
    <3>1. rx.mask = {} /\ got = {}
      BY <1>5, <2>1 DEF Whole
    <3> QED
      BY <3>1 DEF Marked
  <2>2. CASE rx.valid
    <3>1. PICK L \in 0 .. sent - 1 : UpTo(L)
      BY <1>5, <2>2 DEF Whole
    <3>2. L \in 0 .. Packets - 1
      BY <1>1
    <3>3. rx.last = SeqOf(L)
      BY <3>1 DEF UpTo
    <3>4. PICK e : e = SeqOf(L) + 1
      OBVIOUS
    <3>5. Delta(SeqOf(k), e) = k - L - 1
      BY <1>4, <3>2, <3>4, DeltaCounts
    <3>6. Delta(SeqOf(k), e) >= 0
      BY <1>3, <2>2, <3>3, <3>4
    <3>7. L < k
      BY <1>1, <1>4, <3>5, <3>6
    <3>8. \A q \in got : q[1] <= L /\ q[1] \in Int
      BY <1>1, <1>5, <3>1 DEF UpTo, Whole
    <3>9. \A n \in 0 .. Packets - 1 : Marked(r, SeqOf(n)) => n < L /\ \A q \in got : q[1] # n
      BY <3>1 DEF UpTo, Marked
    <3>10. \A q \in got : q[1] < k
      BY <1>4, <3>7, <3>8
    <3>11. \A n \in 0 .. Packets - 1 : Marked(r, SeqOf(n)) => n < k /\ \A q \in got : q[1] # n
      BY <1>4, <3>7, <3>9
    <3> QED
      BY <3>10, <3>11
  <2> QED
    BY <2>1, <2>2
<1>6. ~left.torn => \E L \in 0 .. sent - 1 :
                         /\ p.n \in 0 .. L /\ r.last = SeqOf(L)
                         /\ \A q \in got : q[1] <= L /\ q[1] # p.n
                         /\ \A n \in 0 .. Packets - 1 :
                              Marked(r, SeqOf(n)) => n < L /\ n # p.n /\ \A q \in got : q[1] # n
  <2> SUFFICES ASSUME ~left.torn
               PROVE  /\ p.n \in 0 .. k /\ r.last = SeqOf(k)
                      /\ \A q \in got : q[1] <= k /\ q[1] # p.n
                      /\ \A n \in 0 .. Packets - 1 :
                              Marked(r, SeqOf(n)) => n < k /\ n # p.n /\ \A q \in got : q[1] # n
    BY <1>4
  <2>1. Whole
    BY DEF ResendInv
  <2>2. \A q \in got : q[1] < k /\ q[1] \in Int
    BY <1>1, <1>5, <2>1 DEF Whole
  <2>3. \A q \in got : q[1] <= k /\ q[1] # p.n
    BY <1>3, <1>4, <2>2
  <2>4. \A n \in 0 .. Packets - 1 : Marked(r, SeqOf(n)) => n < k /\ n # p.n /\ \A q \in got : q[1] # n
    BY <1>3, <1>4, <1>5, <2>1
  <2> QED
    BY <1>3, <1>4, <2>3, <2>4
<1>7. ~left.torn => r.valid
  OBVIOUS
<1> QED
  BY <1>6, <1>7, AcceptNew

(* A packet the window misses, late or sent again.                          *)
LEMMA AcceptMarked ==
  ASSUME ResendInv, ~work.on, NEW p \in medium, p.kind \in {"rtp", "again"}, NEW fails,
         Marked(rx, SeqOf(p.n)), Accept(Mark(rx, SeqOf(p.n)), p, fails)
  PROVE  ResendInv'
<1>1. sent \in Nat /\ sent <= Packets /\ Packets \in Nat
  BY SentSize
<1>2. PICK k : k = p.n
  OBVIOUS
<1>3. k \in 0 .. sent - 1 /\ k \in 0 .. Packets - 1 /\ k \in Nat
  BY <1>1, <1>2 DEF ResendInv, ResendTypes
<1>4. PICK s, r : s = SeqOf(k) /\ r = Mark(rx, s)
  OBVIOUS
<1>5. rx \in Windows /\ Marked(rx, s)
  BY <1>2, <1>4 DEF ResendInv, ResendTypes
<1>6. r \in Windows /\ r.valid = rx.valid /\ r.last = rx.last
  BY <1>4, <1>5, MarkKeeps
<1>7. \A n \in Nat : Marked(r, SeqOf(n)) => Marked(rx, SeqOf(n)) /\ Ahead(SeqOf(n), rx.first) # Ahead(s, rx.first)
  BY <1>4, <1>5, MarkKeeps
<1>8. ASSUME ~left.torn
      PROVE  r.valid /\ \E L \in 0 .. sent - 1 :
                         /\ p.n \in 0 .. L /\ r.last = SeqOf(L)
                         /\ \A q \in got : q[1] <= L /\ q[1] # p.n
                         /\ \A n \in 0 .. Packets - 1 :
                              Marked(r, SeqOf(n)) => n < L /\ n # p.n /\ \A q \in got : q[1] # n
  <2>1. Whole
    BY <1>8 DEF ResendInv
  <2>2. rx.valid
    BY <2>1, <1>5 DEF Whole, Marked
  <2>3. PICK L \in 0 .. sent - 1 : UpTo(L)
    BY <2>1, <2>2 DEF Whole
  <2>4. k < L /\ \A q \in got : q[1] # k
    BY <1>3, <1>4, <1>5, <2>3 DEF UpTo
  <2>5. p.n \in 0 .. L /\ r.last = SeqOf(L)
    BY <1>1, <1>2, <1>3, <1>6, <2>3, <2>4 DEF UpTo
  <2>6. \A q \in got : q[1] <= L /\ q[1] # p.n
    BY <1>2, <2>3, <2>4 DEF UpTo
  <2>7. \A n \in 0 .. Packets - 1 : Marked(r, SeqOf(n)) => n < L /\ n # p.n /\ \A q \in got : q[1] # n
    <3> SUFFICES ASSUME NEW n \in 0 .. Packets - 1, Marked(r, SeqOf(n))
                 PROVE  n < L /\ n # p.n /\ \A q \in got : q[1] # n
      OBVIOUS
    <3>1. n \in Nat
      BY <1>1
    <3>2. Marked(rx, SeqOf(n)) /\ Ahead(SeqOf(n), rx.first) # Ahead(s, rx.first)
      BY <1>7, <3>1
    <3>3. n # k
      BY <1>4, <3>2
    <3> QED
      BY <1>2, <2>3, <3>2, <3>3 DEF UpTo
  <2> QED
    BY <1>6, <2>2, <2>5, <2>6, <2>7
<1>9. Accept(r, p, fails)
  BY <1>2, <1>4
<1> QED
  BY <1>6, <1>8, <1>9, AcceptNew

LEMMA Dropping ==
  ASSUME ResendInv, NEW p, Drop(p)
  PROVE  ResendInv'
<1>1. UNCHANGED <<rx, work, sent, got, left>> /\ medium' \subseteq medium
  BY DEF Drop
<1>2. ResendTypes'
  BY <1>1 DEF ResendInv, ResendTypes
<1>3. sent <= sent'
  BY <1>1, SentSize
<1> QED
  BY <1>1, <1>2, <1>3, Unheard

(* The first write of resend_track_missing.                                 *)
LEMMA Tracking ==
  ASSUME ResendInv, ~work.on, NEW p \in medium, p.kind = "rtp", TrackFirst(p)
  PROVE  ResendInv'
<1>1. sent \in Nat /\ sent <= Packets /\ Packets \in Nat /\ Window \in Nat \ {0}
  BY SentSize, WindowSize
<1>2. PICK k : k = p.n
  OBVIOUS
<1>3. k \in 0 .. sent - 1 /\ k \in 0 .. Packets - 1 /\ k \in Nat
  BY <1>1, <1>2 DEF ResendInv, ResendTypes
<1>4. PICK x, e, c, o, f, b :
        /\ x = rx.last + 1 /\ e = x % SeqNumbers /\ c = Delta(SeqOf(k), e) /\ o = Ahead(e, rx.first)
        /\ f = (rx.mask # {} /\ o + c <= Window)
        /\ b = IF f THEN o .. (o + c - 1) ELSE 0 .. (c - 1)
  OBVIOUS
<1>5. /\ rx.valid /\ c \in 1 .. Window
      /\ rx' = [rx EXCEPT !.first = IF f THEN @ ELSE e]
      /\ work' = [on |-> TRUE, p |-> p, keep |-> f, first |-> e, count |-> c, bits |-> b]
      /\ UNCHANGED <<medium, sent, got, left>>
  BY <1>2, <1>4 DEF TrackFirst
<1>6. rx \in Windows /\ rx.last \in Int /\ rx.first \in Int
  BY DEF ResendInv, ResendTypes, Windows
<1>7. x \in Int
  BY <1>4, <1>6
<1>8. e \in Int
  <2>1. x % SeqNumbers \in Int
    BY <1>7, CongruentRest
  <2> QED
    BY <1>4, <2>1
<1>9. o \in Int /\ o >= 0
  BY <1>4, <1>6, <1>8, AheadRest
<1>10. f \in BOOLEAN
  BY <1>4
<1>11. b \subseteq 0 .. Window - 1
  <2>1. CASE f
    <3>1. b = o .. (o + c - 1) /\ o + c <= Window
      BY <1>4, <2>1
    <3> QED
      BY <1>1, <1>5, <1>9, <3>1
  <2>2. CASE ~f
    BY <1>1, <1>4, <1>5, <2>2
  <2> QED
    BY <2>1, <2>2
<1>12. rx' \in Windows /\ rx'.valid /\ rx'.last = rx.last /\ rx'.mask = rx.mask
       /\ rx'.first = IF f THEN rx.first ELSE e
  BY <1>5, <1>6, <1>8 DEF Windows
<1>13. work'.on = TRUE /\ work'.keep = f /\ work'.bits = b /\ work'.p.n = k
  BY <1>2, <1>5
<1>14. ResendTypes'
  <2>1. work'.on = TRUE /\ work'.keep \in BOOLEAN /\ work'.bits \subseteq 0 .. Window - 1 /\ work'.p.n \in 0 .. sent' - 1
    BY <1>3, <1>5, <1>10, <1>11, <1>13
  <2> QED
    BY <2>1, <1>5, <1>12 DEF ResendInv, ResendTypes
<1>15. ASSUME ~left'.torn
       PROVE  Whole'
  <2>1. Whole
    BY <1>5, <1>15 DEF ResendInv
  <2>2. PICK L \in 0 .. sent - 1 : UpTo(L)
    BY <1>5, <2>1 DEF Whole
  <2>3. L \in 0 .. Packets - 1
    BY <1>1
  <2>4. e = (SeqOf(L) + 1) % SeqNumbers
    BY <1>4, <2>2 DEF UpTo
  <2>5. c = k - L - 1
    BY <1>3, <1>4, <2>3, <2>4, DeltaCounts
  <2>6. c \in Nat /\ L < k /\ k = L + c + 1 /\ L + c + 1 < Packets
    BY <1>1, <1>3, <1>5, <2>5
  <2>7. \A n \in 0 .. Packets - 1 : Ahead(SeqOf(n), rx'.first) \in b => L < n /\ n < k
    <3> SUFFICES ASSUME NEW n \in 0 .. Packets - 1, Ahead(SeqOf(n), rx'.first) \in b
                 PROVE  L < n /\ n < k
      OBVIOUS
    <3>1. CASE f
      <4>1. PICK g \in Int : g = rx.first
        BY <1>6
      <4>2. Ahead(SeqOf(n), g) \in o .. (o + c - 1) /\ o = Ahead(e, g)
        BY <1>4, <1>12, <3>1, <4>1
      <4>3. L < n /\ n < L + c + 1
        BY <2>3, <2>4, <2>6, <4>2, GapBits
      <4> QED
        BY <2>6, <4>3
    <3>2. CASE ~f
      <4>1. PICK z \in Int : z = 0
        OBVIOUS
      <4>2. Ahead(SeqOf(n), e) \in z .. (z + c - 1)
        BY <1>4, <1>5, <1>12, <3>2, <4>1
      <4>3. L < n /\ n < L + c + 1
        BY <1>8, <2>3, <2>4, <2>6, <4>1, <4>2, GapBits
      <4> QED
        BY <2>6, <4>3
    <3> QED
      BY <3>1, <3>2
  <2>8. work'.keep => \A n \in 0 .. Packets - 1 : Marked(rx', SeqOf(n)) => n < L /\ \A q \in got : q[1] # n
    BY <1>12, <1>13, <2>2 DEF UpTo, Marked
  <2>9. UpTo(L)'
    BY <1>5, <1>12, <1>13, <2>2, <2>6, <2>7, <2>8 DEF UpTo, Marked
  <2> QED
    BY <1>5, <1>12, <2>1, <2>9 DEF Whole
<1> QED
  BY <1>14, <1>15 DEF ResendInv

(* The second write, after which the packet goes to the decoder.            *)
LEMMA Tracked ==
  ASSUME ResendInv, NEW fails, TrackMask(fails)
  PROVE  ResendInv'
<1>1. sent \in Nat /\ sent <= Packets /\ Packets \in Nat /\ Window \in Nat \ {0}
  BY SentSize, WindowSize
<1>2. work.on /\ work' = NotTracking /\ sent' = sent /\ Deliver(work.p.n)
  BY DEF TrackMask
<1>3. ~NotTracking.on
  BY DEF NotTracking
<1>4. work.keep \in BOOLEAN /\ work.bits \subseteq 0 .. Window - 1 /\ work.p.n \in 0 .. sent - 1
  BY <1>2, <1>3 DEF ResendInv, ResendTypes
<1>5. PICK k : k = work.p.n
  OBVIOUS
<1>6. k \in 0 .. sent - 1 /\ k \in 0 .. Packets - 1 /\ k \in Nat
  BY <1>1, <1>4, <1>5
<1>7. PICK m : m = IF work.keep THEN rx.mask \cup work.bits ELSE work.bits
  OBVIOUS
<1>8. PICK r, n0, ask : /\ r = [rx EXCEPT !.mask = m] /\ n0 = medium \ {work.p}
                        /\ ask = [first |-> work.first, count |-> work.count]
  OBVIOUS
<1>9. rx \in Windows
  BY DEF ResendInv, ResendTypes
<1>10. m \subseteq 0 .. Window - 1
  BY <1>4, <1>7, <1>9 DEF Windows
<1>11. r \in Windows /\ r.valid = rx.valid /\ r.first = rx.first /\ r.mask = m
  BY <1>8, <1>9, <1>10 DEF Windows
<1>12. PICK x : x = Asked(r, n0, ask, fails)
  OBVIOUS
<1>13. /\ x[1] \in Windows /\ x[1].valid = rx.valid /\ x[1].first = rx.first /\ x[1].mask = m
       /\ \A p \in x[2] : p \in n0 \/ p.kind = "nack"
  BY <1>11, <1>12, AskedKeeps
<1>14. PICK s, w, n1 : s = SeqOf(k) /\ w = [x[1] EXCEPT !.last = s] /\ n1 = x[2]
  OBVIOUS
<1>15. s \in Int
  BY <1>6, <1>14, SeqRest
<1>16. w \in Windows /\ w.valid = rx.valid /\ w.last = s /\ w.first = rx.first /\ w.mask = m
  BY <1>13, <1>14, <1>15 DEF Windows
<1>17. PICK y : y = Retried(w, n1, FALSE)
  OBVIOUS
<1>18. /\ y[1] \in Windows /\ y[1].valid = rx.valid /\ y[1].last = s /\ y[1].first = rx.first /\ y[1].mask = m
       /\ \A p \in y[2] : p \in n1 \/ p.kind = "nack"
  <2>1. PICK z : z = FALSE
    OBVIOUS
  <2>2. y = Retried(w, n1, z)
    BY <1>17, <2>1
  <2>3. y[1] \in Windows /\ y[1].valid = w.valid /\ y[1].last = w.last /\ y[1].first = w.first /\ y[1].mask = w.mask
    BY <1>16, <2>2, RetriedKeeps
  <2>4. \A p \in y[2] : p \in n1 \/ p.kind = "nack"
    BY <1>16, <2>2, RetriedKeeps
  <2> QED
    BY <1>16, <2>3, <2>4
<1>19. rx' = y[1] /\ medium' = y[2]
  BY <1>5, <1>7, <1>8, <1>12, <1>14, <1>17 DEF TrackMask
<1>20. \A p \in medium' : p.kind \in {"rtp", "again"} => p.n \in 0 .. sent - 1
  <2>1. \A p \in medium' : p \in medium \/ p.kind = "nack"
    BY <1>8, <1>13, <1>14, <1>18, <1>19
  <2> QED
    BY <2>1 DEF ResendInv, ResendTypes
<1>21. /\ left' = [faults |-> left'.faults, resets |-> left'.resets, torn |-> left'.torn]
       /\ left'.torn = left.torn
  <2>1. PICK f : left' = [left EXCEPT !.faults = f]
    BY DEF TrackMask, Use
  <2> QED
    BY <2>1 DEF ResendInv, ResendTypes
<1>22. ResendTypes'
  BY <1>2, <1>18, <1>19, <1>20, <1>21 DEF ResendInv, ResendTypes
<1>23. ASSUME ~left'.torn
       PROVE  Whole'
  <2>1. Whole
    BY <1>21, <1>23 DEF ResendInv
  <2>2. rx.valid
    BY <1>2, <2>1 DEF Whole
  <2>3. PICK L \in 0 .. sent - 1 : UpTo(L)
    BY <2>1, <2>2 DEF Whole
  <2>4. L < k /\ L \in Nat
    BY <1>1, <1>2, <1>5, <2>3 DEF UpTo
  <2>5. \A q \in got : q[1] < k /\ q[1] <= L
    <3>1. \A q \in got : q[1] <= L /\ q[1] \in Int
      BY <1>1, <2>1, <2>3 DEF UpTo, Whole
    <3> QED
      BY <1>6, <2>4, <3>1
  <2>6. \A q \in got : q[1] # k
    BY <1>6, <2>5
  <2>7. got' = got \cup {<<k, 1>>}
    BY <1>2, <1>5, <2>6, Delivered
  <2>8. PICK e : e = <<k, 1>>
    OBVIOUS
  <2>9. e[1] = k /\ e[2] = 1 /\ got' = got \cup {e}
    BY <2>7, <2>8
  <2>10. \A q \in got' : q[2] = 1 /\ q[1] \in 0 .. sent - 1
    BY <1>6, <2>1, <2>9 DEF Whole
  <2>11. \A q \in got' : q[1] <= k
    BY <1>6, <2>1, <2>5, <2>9 DEF Whole
  <2>12. \A n \in 0 .. Packets - 1 : Marked(rx', SeqOf(n)) => n < k /\ \A q \in got' : q[1] # n
    <3> SUFFICES ASSUME NEW n \in 0 .. Packets - 1, Marked(rx', SeqOf(n))
                 PROVE  n < k /\ \A q \in got' : q[1] # n
      OBVIOUS
    <3>1. Ahead(SeqOf(n), rx.first) \in m
      BY <1>18, <1>19 DEF Marked
    <3>2. CASE work.keep /\ Ahead(SeqOf(n), rx.first) \in rx.mask
      <4>1. n < L /\ \A q \in got : q[1] # n
        BY <2>3, <3>2 DEF UpTo, Marked
      <4> QED
        BY <1>1, <1>6, <2>4, <2>9, <4>1
    <3>3. CASE Ahead(SeqOf(n), rx.first) \in work.bits
      <4>1. L < n /\ n < k
        BY <1>2, <1>5, <2>3, <3>3 DEF UpTo
      <4>2. \A q \in got : q[1] # n
        <5>1. \A q \in got : q[1] <= L /\ q[1] \in Int
          BY <1>1, <2>1, <2>3 DEF UpTo, Whole
        <5> QED
          BY <1>1, <2>4, <4>1, <5>1
      <4> QED
        BY <1>1, <1>6, <2>9, <4>1, <4>2
    <3> QED
      BY <1>4, <1>7, <3>1, <3>2, <3>3
  <2>13. UpTo(k)'
    BY <1>2, <1>3, <1>14, <1>18, <1>19, <2>11, <2>12 DEF UpTo
  <2>14. rx'.valid /\ k \in 0 .. sent' - 1
    BY <1>2, <1>6, <1>18, <1>19, <2>2
  <2> QED
    BY <1>2, <2>10, <2>13, <2>14 DEF Whole
<1> QED
  BY <1>22, <1>23 DEF ResendInv

LEMMA Receiving ==
  ASSUME ResendInv, NEW p \in medium, NEW fails, Receive(p, fails)
  PROVE  ResendInv'
<1>1. ~work.on
  BY DEF Receive
<1>2. rx \in Windows
  BY DEF ResendInv, ResendTypes
<1>3. p.kind = "rtp" => SeqOf(p.n) \in Int
  <2> SUFFICES ASSUME p.kind = "rtp"
               PROVE  SeqOf(p.n) \in Int
    OBVIOUS
  <2>1. p.n \in Nat
    BY SentSize DEF ResendInv, ResendTypes
  <2> QED
    BY <2>1, SeqRest
<1>4. CASE p.kind = "rtp" /\ InOrder(p, fails)
  <2>1. PICK s, r : s = SeqOf(p.n) /\ r = [rx EXCEPT !.valid = TRUE, !.last = s]
    OBVIOUS
  <2>2. r \in Windows /\ r.valid /\ r.last = s /\ r.first = rx.first /\ r.mask = rx.mask
    BY <1>2, <1>3, <1>4, <2>1 DEF Windows
  <2>3. Accept(r, p, fails) /\ (rx.valid => Delta(s, rx.last + 1) >= 0)
    BY <1>4, <2>1 DEF InOrder
  <2> QED
    BY <1>1, <1>4, <2>1, <2>2, <2>3, AcceptLater
<1>5. CASE p.kind = "rtp" /\ LongGap(p, fails)
  <2>1. PICK s, r : s = SeqOf(p.n) /\ r = [rx EXCEPT !.last = s]
    OBVIOUS
  <2>2. r \in Windows /\ r.valid = rx.valid /\ r.last = s /\ r.first = rx.first /\ r.mask = rx.mask
    BY <1>2, <1>3, <1>5, <2>1 DEF Windows
  <2>3. Accept(r, p, fails) /\ rx.valid /\ Delta(s, rx.last + 1) > Window
    BY <1>5, <2>1 DEF LongGap
  <2>4. Delta(s, rx.last + 1) >= 0
    <3>1. PICK e : e = rx.last + 1
      OBVIOUS
    <3>2. e \in Int /\ s \in Int
      BY <1>2, <1>3, <1>5, <2>1, <3>1 DEF Windows
    <3>3. Ahead(s, e) \in Int
      BY <3>2, AheadRest
    <3>4. Delta(s, e) \in Int
      BY <3>3, WindowSize DEF Delta
    <3>5. PICK d : d = Delta(s, e)
      OBVIOUS
    <3>6. d \in Int /\ d > Window
      BY <2>3, <3>1, <3>4, <3>5
    <3>7. d >= 0
      BY <3>6, WindowSize
    <3> QED
      BY <3>1, <3>5, <3>7
  <2> QED
    BY <1>1, <1>5, <2>1, <2>2, <2>3, <2>4, AcceptLater
<1>6. CASE p.kind = "rtp" /\ Late(p, fails)
  BY <1>1, <1>6, AcceptMarked, Dropping DEF Late
<1>7. CASE p.kind = "rtp" /\ TrackFirst(p)
  BY <1>1, <1>7, Tracking
<1>8. CASE Retransmit(p, fails)
  BY <1>1, <1>8, AcceptMarked, Dropping DEF Retransmit
<1> QED
  BY <1>4, <1>5, <1>6, <1>7, <1>8 DEF Receive

LEMMA TimingOut ==
  ASSUME ResendInv, NEW fails, Timeout(fails)
  PROVE  ResendInv'
<1>1. PICK x : x = Retried(rx, medium, fails)
  OBVIOUS
<1>2. rx' = x[1] /\ medium' = x[2] /\ UNCHANGED <<work, sent, got>>
  BY <1>1 DEF Timeout
<1>3. /\ rx' \in Windows /\ rx'.valid = rx.valid /\ rx'.last = rx.last
      /\ rx'.first = rx.first /\ rx'.mask = rx.mask
      /\ \A p \in medium' : p \in medium \/ p.kind = "nack"
  BY <1>1, <1>2, RetriedKeeps DEF ResendInv, ResendTypes
<1>4. /\ left' = [faults |-> left'.faults, resets |-> left'.resets, torn |-> left'.torn]
      /\ left'.torn = left.torn
  <2>1. PICK f : left' = [left EXCEPT !.faults = f]
    BY DEF Timeout, Use
  <2> QED
    BY <2>1 DEF ResendInv, ResendTypes
<1>5. ResendTypes'
  BY <1>2, <1>3, <1>4 DEF ResendInv, ResendTypes
<1>6. sent <= sent'
  BY <1>2, SentSize
<1> QED
  BY <1>2, <1>3, <1>4, <1>5, <1>6, Unheard

LEMMA Passing ==
  ASSUME ResendInv, IntervalPasses \/ BackoffPasses
  PROVE  ResendInv'
<1>1. UNCHANGED <<work, medium, sent, got, left>>
  BY DEF IntervalPasses, BackoffPasses
<1>2. /\ rx' \in Windows /\ rx'.valid = rx.valid /\ rx'.last = rx.last
      /\ rx'.first = rx.first /\ rx'.mask = rx.mask
  BY DEF IntervalPasses, BackoffPasses, ResendInv, ResendTypes, Windows
<1>3. ResendTypes'
  BY <1>1, <1>2 DEF ResendInv, ResendTypes
<1>4. sent <= sent'
  BY <1>1, SentSize
<1> QED
  BY <1>1, <1>2, <1>3, <1>4, Unheard

(* A reset forgets what was given with the window, or tears the update.     *)
LEMMA Resetting ==
  ASSUME ResendInv, Reset
  PROVE  ResendInv'
<1>1. UNCHANGED <<work, medium, sent>> /\ got' = {}
  BY DEF Reset
<1>2. /\ rx' \in Windows /\ rx'.valid = FALSE /\ rx'.mask = {}
  <2>1. rx' = [rx EXCEPT !.valid = FALSE, !.first = 0, !.mask = {}, !.asked = "never", !.backoff = FALSE]
    BY DEF Reset, Fresh
  <2>2. rx \in Windows
    BY DEF ResendInv, ResendTypes
  <2>3. rx.last \in Int
    BY <2>2 DEF Windows
  <2>4. rx' = [valid |-> FALSE, last |-> rx.last, first |-> 0, mask |-> {}, asked |-> "never", backoff |-> FALSE]
    BY <2>1, <2>2 DEF Windows
  <2> QED
    BY <2>3, <2>4 DEF Windows
<1>3. /\ left' = [faults |-> left'.faults, resets |-> left'.resets, torn |-> left'.torn]
      /\ left'.torn = (left.torn \/ work.on) /\ left.torn \in BOOLEAN
  BY DEF Reset, ResendInv, ResendTypes
<1>4. work.on \in BOOLEAN
  <2>1. CASE work = NotTracking
    BY <2>1 DEF NotTracking
  <2>2. CASE work.on = TRUE
    BY <2>2
  <2> QED
    BY <2>1, <2>2 DEF ResendInv, ResendTypes
<1>5. ResendTypes'
  BY <1>1, <1>2, <1>3, <1>4 DEF ResendInv, ResendTypes
<1>6. ~left'.torn => Whole'
  BY <1>1, <1>2, <1>3 DEF Whole
<1> QED
  BY <1>5, <1>6 DEF ResendInv

LEMMA Carrying ==
  ASSUME ResendInv, Send \/ Outage \/ \E p \in medium : Answer(p) \/ Lose(p)
  PROVE  ResendInv'
<1>1. UNCHANGED <<rx, work, got>>
  BY DEF Send, Outage, Answer, Lose
<1>2. /\ left' = [faults |-> left'.faults, resets |-> left'.resets, torn |-> left'.torn]
      /\ left'.torn = left.torn
  <2>1. \/ left' = left
        \/ left' = [left EXCEPT !.faults = left.faults - 1]
    BY DEF Send, Outage, Answer, Lose
  <2> QED
    BY <2>1 DEF ResendInv, ResendTypes
<1>3. PICK a, b : a = sent /\ b = sent'
  OBVIOUS
<1>4. a \in Nat /\ a <= Packets /\ Packets \in Nat /\ Window \in Nat \ {0}
  BY <1>3, SentSize, WindowSize
<1>5. b \in Nat /\ a <= b /\ b <= Packets
  BY <1>3, <1>4 DEF Send, Outage, Answer, Lose
<1>6. \A x \in 0 .. a - 1 : x \in 0 .. b - 1
  BY <1>4, <1>5
<1>7. \A p \in medium : p.kind \in {"rtp", "again"} => p.n \in 0 .. b - 1
  BY <1>3, <1>6 DEF ResendInv, ResendTypes
<1>8. \A p \in medium' : p.kind \in {"rtp", "again"} => p.n \in 0 .. b - 1
  <2>1. CASE Send
    <3>1. PICK e : e = [kind |-> "rtp", n |-> a]
      OBVIOUS
    <3>2. medium' = medium \cup {e} /\ b = a + 1
      BY <1>3, <2>1, <3>1 DEF Send
    <3>3. e.n \in 0 .. b - 1
      BY <1>4, <3>1, <3>2
    <3> QED
      BY <1>7, <3>2, <3>3
  <2>2. CASE Outage
    BY <1>7, <2>2 DEF Outage
  <2>3. ASSUME NEW q \in medium, Answer(q)
        PROVE  \A p \in medium' : p.kind \in {"rtp", "again"} => p.n \in 0 .. b - 1
    <3>1. \A p \in medium' : p \in medium \/ \E n \in 0 .. a - 1 : p = [kind |-> "again", n |-> n]
      BY <1>3, <2>3 DEF Answer
    <3>2. \A p \in medium' : p \in medium \/ p.n \in 0 .. a - 1
      BY <3>1
    <3> QED
      BY <1>6, <1>7, <3>2
  <2>4. ASSUME NEW q \in medium, Lose(q)
        PROVE  \A p \in medium' : p.kind \in {"rtp", "again"} => p.n \in 0 .. b - 1
    BY <1>7, <2>4 DEF Lose
  <2> QED
    BY <2>1, <2>2, <2>3, <2>4
<1>9. b \in 0 .. Packets
  BY <1>4, <1>5
<1>10. \/ work = NotTracking
       \/ /\ work.on = TRUE /\ work.keep \in BOOLEAN /\ work.bits \subseteq 0 .. Window - 1
          /\ work.p.n \in 0 .. b - 1
  BY <1>3, <1>6 DEF ResendInv, ResendTypes
<1>11. ResendTypes'
  BY <1>1, <1>2, <1>3, <1>8, <1>9, <1>10 DEF ResendInv, ResendTypes
<1>12. sent <= sent'
  BY <1>3, <1>5
<1> QED
  BY <1>1, <1>2, <1>11, <1>12, Unheard

LEMMA ResendStarts == ResendInit => ResendInv
<1> SUFFICES ASSUME ResendInit
             PROVE  ResendInv
  OBVIOUS
<1>1. rx \in Windows
  BY DEF ResendInit, Windows
<1>2. left = [faults |-> left.faults, resets |-> left.resets, torn |-> left.torn] /\ left.torn = FALSE
  BY DEF ResendInit
<1>3. sent \in 0 .. Packets /\ medium = {} /\ work = NotTracking
  BY WindowSize DEF ResendInit
<1>4. ResendTypes
  BY <1>1, <1>2, <1>3 DEF ResendTypes
<1>5. Whole
  BY DEF ResendInit, Whole, NotTracking
<1> QED
  BY <1>4, <1>5 DEF ResendInv

LEMMA ResendMoves == ResendInv /\ [ResendNext]_resendVars => ResendInv'
<1> SUFFICES ASSUME ResendInv, [ResendNext]_resendVars
             PROVE  ResendInv'
  OBVIOUS
<1>1. CASE \E p \in medium, fails \in Faults : Receive(p, fails)
  BY <1>1, Receiving
<1>2. CASE \E fails \in Faults : TrackMask(fails)
  BY <1>2, Tracked
<1>3. CASE \E fails \in Faults : Timeout(fails)
  BY <1>3, TimingOut
<1>4. CASE IntervalPasses \/ BackoffPasses
  BY <1>4, Passing
<1>5. CASE Reset
  BY <1>5, Resetting
<1>6. CASE Send \/ Outage \/ \E p \in medium : Answer(p) \/ Lose(p)
  BY <1>6, Carrying
<1>7. CASE UNCHANGED resendVars
  <2>1. UNCHANGED <<rx, work, medium, sent, got, left>>
    BY <1>7 DEF resendVars
  <2>2. ResendTypes'
    BY <2>1 DEF ResendInv, ResendTypes
  <2>3. sent <= sent'
    BY <2>1, SentSize
  <2> QED
    BY <2>1, <2>2, <2>3, Unheard
<1> QED
  BY <1>1, <1>2, <1>3, <1>4, <1>5, <1>6, <1>7 DEF ResendNext

(* No packet reaches the decoder twice, however often it is asked for,      *)
(* repeated or overtaken (realtime_receive_packet), unless a reset tore an  *)
(* update of the window.                                                    *)
THEOREM EachPacketOnce == ResendSpec => []OnceEach
<1>1. ResendInv => OnceEach
  BY DEF ResendInv, Whole, OnceEach
<1> QED
  BY <1>1, ResendStarts, ResendMoves, PTL DEF ResendSpec
=============================================================================
