-------------------------- MODULE SeekGates_proofs --------------------------
(***************************************************************************)
(* Proofs about SeekGates, for every number of positions, threshold,       *)
(* window, number and length of tracks, backlog and clock.                 *)
(*                                                                         *)
(* The argument is about three places where a frame the listener left      *)
(* behind can be: on its way to the gates (GateInv), in the hands of the    *)
(* reader past its last test (Leaving), and in the ring (RingInv).  All    *)
(* positions lie within half of the range from one origin, where the       *)
(* signed differences the code computes order them as numbers.             *)
(***************************************************************************)
EXTENDS SeekGates, NatLemmas, FiniteSetTheorems

-----------------------------------------------------------------------------
(* Positions as distances from an origin before all tracks. *)

Origin == CHOOSE o \in Pos :
            \A b \in Bases : ((b - o) % PosMod) + MaxFrames + MaxElapsed < PosMod \div 2

Lin(p)   == (p - Origin) % PosMod
Of(p, b) == p \in Pos /\ Lin(p) \in Lin(b) .. Lin(b) + MaxFrames
Sent     == {p \in Pos : \E b \in Bases : Of(p, b)}

(* Not left behind: from the track being played on. *)
New(p) == Lin(p) >= Lin(track)

-----------------------------------------------------------------------------
(* The inductive invariant. *)

(* The handler of SETRATEANCHORTIME is at work. *)
Handling == {"paths", "armB", "openBlanket", "phase2", "armLate", "setAnchor"}

PhoneInv ==
    /\ track \in used /\ used \subseteq Bases
    /\ sent \in 0 .. MaxFrames /\ played \in 0 .. sent
    /\ elapsed \in 0 .. MaxElapsed
    /\ wire \in Seq(Sent) /\ frame \in Sent /\ ring \subseteq Sent

(* The connection keeps the order of the tracks. *)
WireInv ==
    /\ \A i \in 1 .. Len(wire) : TrackOf(wire[i]) \in used
    /\ \A i, j \in 1 .. Len(wire) : i < j /\ ~Older(wire[i]) => ~Older(wire[j])
    /\ reader = "testBefore" => TrackOf(frame) \in used
    /\ reader = "testBefore" /\ ~Older(frame) => \A j \in 1 .. Len(wire) : ~Older(wire[j])

(* Which track the anchor is of, and where a request of the phone stands. *)
AnchorInv ==
    /\ rtsp \in Handling => Of(req, track)
    /\ rtsp \in Handling => phone = "play"
    /\ pausedRtp # Off => rtsp \in {"stopRing", "stopGates"}
    /\ rtsp = "idle" /\ phone \in {"play", "paused"} => anchor # Off /\ Of(anchor, track)
    /\ phone = "await" => rtsp = "idle" /\ anchor # Off /\ ~Of(anchor, track)
    /\ armNext => rtsp = "paths" \/ (rtsp = "idle" /\ phone = "flushed")
    /\ phone = "paused" => rtsp = "idle"
    /\ rtsp = "idle" /\ phone = "flushed" => anchor = Off
    /\ rtsp \in {"flushRing", "flushGates", "closeBlanket", "stopRing", "stopGates"}
         => phone = "flushed"
    /\ rtsp \in {"flushGates", "closeBlanket", "stopGates"} => anchor = Off
    /\ anchor # Off => \E b \in used : Of(anchor, b)

(* The listener has moved on and the gates are not armed for it yet. *)
Dirty ==
    \/ rtsp \in {"flushRing", "flushGates", "closeBlanket", "armB"}
    \/ armNext
    \/ phone = "await"
    \/ rtsp = "paths" /\ anchor # Off /\ ~Of(anchor, track)

(* No reader was caught between its tests, no backlog of two seeks crossed. *)
Counted == caught \cap {"atGates", "crossed"} = {}

(* The reader is about to queue a frame that was left behind. *)
Leaving == reader = "queue" /\ ~New(frame)

(* The first gate is open only when nothing left behind is to come, and it  *)
(* opens for a frame of the track only when all that follows is new.        *)
GateInv ==
    /\ before = Off =>
         /\ \A i \in 1 .. Len(wire) : New(wire[i])
         /\ reader \in {"testBefore", "disarmBefore", "testAbove", "disarmAbove", "decode"}
              => New(frame)
    /\ before # Off => before \in Sent /\ New(before)
    /\ \A i, j \in 1 .. Len(wire) : i < j /\ New(wire[i]) => New(wire[j])
    /\ reader = "testBefore" /\ New(frame) => \A j \in 1 .. Len(wire) : New(wire[j])
    /\ reader = "disarmBefore" => New(frame) /\ \A j \in 1 .. Len(wire) : New(wire[j])
    /\ reader \in {"testAbove", "disarmAbove"} => New(frame)
    /\ Leaving => "accepted" \in caught

(* A TEARDOWN opens the gates when nothing left behind is on its way. *)
StopInv ==
    rtsp \in {"stopRing", "stopGates"} =>
        /\ \A i \in 1 .. Len(wire) : New(wire[i])
        /\ reader # "idle" => New(frame)

(* From phase 2 on the ring holds at most the one frame, and not while      *)
(* another is in the reader's hands; the same for what is counted after.    *)
Left == {p \in ring : ~New(p)}

RingInv ==
    /\ rtsp \in {"armLate", "setAnchor"} =>
         /\ \A p, q \in Left : p = q
         /\ Left # {} => "accepted" \in caught /\ ~Leaving
    /\ rtsp = "idle" /\ phone = "play" =>
         /\ stale \in 0 .. 1
         /\ stale = 1 => "accepted" \in caught /\ ~Leaving

SeekInv ==
    /\ PhoneInv /\ WireInv /\ AnchorInv /\ StopInv
    /\ caught \subseteq {"atGates", "accepted", "crossed"}
    /\ Counted /\ ~Dirty => GateInv
    /\ Counted => RingInv

-----------------------------------------------------------------------------
(* Positions.                                                              *)

H == PosMod \div 2

LEMMA HalfFacts == /\ PosMod \in Nat \ {0} /\ H \in Nat /\ 2 * H <= PosMod
                   /\ Threshold \in Nat /\ Window \in Nat /\ MaxFrames \in Nat /\ MaxElapsed \in Nat
                   /\ Threshold <= Window
                   /\ Origin \in Pos /\ \A b \in Bases : ((b - Origin) % PosMod) + MaxFrames + MaxElapsed < H
<1>1. PosMod \in Nat \ {0} /\ H \in Nat /\ 2 * H <= PosMod
  BY PositionAssumption DEF H
<1>2. Origin \in Pos /\ \A b \in Bases : ((b - Origin) % PosMod) + MaxFrames + MaxElapsed < PosMod \div 2
  BY HalfRangeAssumption, Zenon DEF Origin
<1> QED
  BY <1>1, <1>2, PositionAssumption DEF H

(* Counted from the origin a position is a number below PosMod.            *)
LEMMA LinForm ==
  ASSUME NEW p \in Pos
  PROVE  Lin(p) \in 0 .. PosMod - 1 /\ \E k \in Int : p = PosMod * k + (Origin + Lin(p))
<1>1. p \in Int /\ Origin \in Int /\ PosMod \in Nat \ {0}
  BY HalfFacts DEF Pos
<1> DEFINE d == p - Origin
           k == d \div PosMod
           r == d % PosMod
<1>2. k \in Int /\ r \in 0 .. PosMod - 1 /\ d = PosMod * k + r
  BY <1>1, SMTT(20)
<1>3. r = Lin(p)
  BY DEF Lin
<1> HIDE DEF k, r
<1>4. PosMod * k \in Int
  BY <1>1, <1>2
<1>5. p = PosMod * k + (Origin + r)
  BY <1>1, <1>2, <1>4
<1> QED
  BY <1>2, <1>3, <1>5

(* In the half of the range the phone uses, the signed difference is the    *)
(* difference.                                                             *)
LEMMA DiffIsLin ==
  ASSUME NEW p \in Pos, NEW q \in Pos, Lin(p) < H, Lin(q) < H
  PROVE  Diff(p, q) = Lin(p) - Lin(q)
<1>1. PICK k \in Int : p = PosMod * k + (Origin + Lin(p))
  BY LinForm
<1>2. PICK l \in Int : q = PosMod * l + (Origin + Lin(q))
  BY LinForm
<1>3. /\ Lin(p) \in 0 .. PosMod - 1 /\ Lin(q) \in 0 .. PosMod - 1 /\ PosMod \in Nat \ {0} /\ H \in Nat
      /\ 2 * H <= PosMod /\ Origin \in Int /\ p \in Int /\ q \in Int
  BY LinForm, HalfFacts DEF Pos
<1>4. PICK x \in Int : x = Lin(p) - Lin(q)
  BY <1>3
<1>5. PICK m \in Int : m = k - l
  OBVIOUS
<1>6. p - q = PosMod * m + x
  <2>1. k = l + m
    BY <1>5
  <2>2. PosMod * k = PosMod * l + PosMod * m
    BY <1>3, <2>1
  <2>3. PICK u \in Int, v \in Int, w \in Int : u = PosMod * k /\ v = PosMod * l /\ w = PosMod * m
    BY <1>3
  <2>4. u = v + w /\ p = u + (Origin + Lin(p)) /\ q = v + (Origin + Lin(q))
    BY <1>1, <1>2, <2>2, <2>3
  <2>5. p - q = w + x
    BY <1>3, <1>4, <2>4
  <2> QED
    BY <2>3, <2>5
<1>7. CASE x >= 0
  <2>1. x \in 0 .. PosMod - 1
    BY <1>3, <1>4, <1>7
  <2>a. PICK d \in Int : d = p - q
    BY <1>3
  <2>b. d % PosMod = x
    BY <1>3, <1>6, <2>1, <2>a, RemainderUnique
  <2>2. (p - q) % PosMod = x
    BY <2>a, <2>b
  <2> QED
    BY <1>3, <1>4, <1>7, <2>2 DEF Diff, H
<1>8. CASE x < 0
  <2>1. x + PosMod \in 0 .. PosMod - 1 /\ ~(x + PosMod < H)
    BY <1>3, <1>4, <1>8
  <2>2. p - q = PosMod * (m - 1) + (x + PosMod)
    BY <1>3, <1>6
  <2>3. PICK d \in Int, y \in Int, r \in 0 .. PosMod - 1 : d = p - q /\ y = m - 1 /\ r = x + PosMod
    BY <1>3, <2>1
  <2>4. d = PosMod * y + r
    BY <2>2, <2>3
  <2>5. d % PosMod = r
    BY <1>3, <2>4, RemainderUnique
  <2>6. (p - q) % PosMod = x + PosMod
    BY <2>3, <2>5
  <2> QED
    BY <1>3, <1>4, <2>1, <2>6 DEF Diff, H
<1> QED
  BY <1>7, <1>8

LEMMA LinPlus ==
  ASSUME NEW p \in Pos, NEW n \in Nat, Lin(p) + n < PosMod
  PROVE  Plus(p, n) \in Pos /\ Lin(Plus(p, n)) = Lin(p) + n
<1>1. PICK k \in Int : p = PosMod * k + (Origin + Lin(p))
  BY LinForm
<1>2. /\ Lin(p) \in 0 .. PosMod - 1 /\ PosMod \in Nat \ {0} /\ Origin \in Int /\ p \in Int
  BY LinForm, HalfFacts DEF Pos
<1> DEFINE r == (p + n) % PosMod
           l == (p + n) \div PosMod
<1>3. r \in 0 .. PosMod - 1 /\ l \in Int /\ p + n = PosMod * l + r
  BY <1>2, SMTT(20)
<1>4. r = Plus(p, n)
  BY DEF Plus
<1> HIDE DEF r, l
<1>5. PICK m \in Int : m = k - l
  BY <1>3
<1>6. r - Origin = PosMod * m + (Lin(p) + n)
  <2>1. k = l + m
    BY <1>3, <1>5
  <2>2. PosMod * k = PosMod * l + PosMod * m
    BY <1>2, <1>3, <2>1
  <2>3. PosMod * k \in Int /\ PosMod * l \in Int /\ PosMod * m \in Int
    BY <1>2, <1>3
  <2> QED
    BY <1>1, <1>2, <1>3, <2>2, <2>3
<1>7. Lin(p) + n \in 0 .. PosMod - 1 /\ r - Origin \in Int
  BY <1>2, <1>3
<1>8. (r - Origin) % PosMod = Lin(p) + n
  BY <1>2, <1>6, <1>7, RemainderUnique
<1> QED
  BY <1>3, <1>4, <1>8 DEF Lin, Pos

LEMMA BaseFacts ==
  ASSUME NEW b \in Bases
  PROVE  b \in Pos /\ Lin(b) \in Nat /\ Lin(b) + MaxFrames + MaxElapsed < H /\ Of(b, b) /\ b \in Sent
<1>1. b \in Pos
  BY PositionAssumption
<1>2. Lin(b) \in Nat /\ Lin(b) + MaxFrames + MaxElapsed < H
  BY <1>1, HalfFacts, LinForm DEF Lin
<1> QED
  BY <1>1, <1>2, HalfFacts DEF Of, Sent

(* Two tracks, counted from the origin. *)
LEMMA Apart ==
  ASSUME NEW a \in Bases, NEW b \in Bases, a # b
  PROVE  Lin(a) - Lin(b) > Window + MaxFrames + MaxElapsed \/ Lin(b) - Lin(a) > Window + MaxFrames + MaxElapsed
<1>1. /\ a \in Pos /\ b \in Pos /\ Lin(a) \in Nat /\ Lin(b) \in Nat /\ Lin(a) < H /\ Lin(b) < H
  BY BaseFacts, HalfFacts
<1>2. Diff(a, b) = Lin(a) - Lin(b)
  BY <1>1, DiffIsLin
<1>3. Abs(Diff(a, b)) > Window + MaxFrames + MaxElapsed
  BY TracksApartAssumption
<1> QED
  BY <1>1, <1>2, <1>3, HalfFacts DEF Abs

LEMMA OfFacts ==
  ASSUME NEW b \in Bases, NEW p, Of(p, b)
  PROVE  /\ p \in Sent /\ p \in Pos /\ Lin(p) \in Nat /\ Lin(p) + MaxElapsed < H
         /\ Lin(b) <= Lin(p) /\ Lin(p) <= Lin(b) + MaxFrames
         /\ TrackOf(p) = b
<1>1. /\ p \in Pos /\ Lin(p) \in Nat /\ Lin(b) <= Lin(p) /\ Lin(p) <= Lin(b) + MaxFrames
      /\ Lin(p) + MaxElapsed < H /\ Lin(p) < H
  BY BaseFacts, HalfFacts DEF Of
<1>2. p \in Sent
  BY <1>1 DEF Sent
<1>3. ASSUME NEW c \in Bases
      PROVE  Diff(p, c) = Lin(p) - Lin(c) /\ Lin(c) \in Nat
  BY <1>1, BaseFacts, HalfFacts, DiffIsLin
<1>4. Diff(p, b) \in 0 .. (MaxFrames + MaxElapsed)
  BY <1>1, <1>3, BaseFacts, HalfFacts
<1>5. ASSUME NEW c \in Bases, Diff(p, c) \in 0 .. (MaxFrames + MaxElapsed)
      PROVE  c = b
  <2>1. Lin(p) - Lin(c) \in 0 .. (MaxFrames + MaxElapsed) /\ Lin(c) \in Nat
    BY <1>3, <1>5
  <2>2. Lin(b) \in Nat /\ Window \in Nat /\ MaxFrames \in Nat /\ MaxElapsed \in Nat
    BY BaseFacts, HalfFacts
  <2>3. c # b => Lin(b) - Lin(c) > Window + MaxFrames + MaxElapsed \/ Lin(c) - Lin(b) > Window + MaxFrames + MaxElapsed
    BY Apart
  <2> QED
    BY <1>1, <2>1, <2>2, <2>3
<1>6. TrackOf(p) = b
  BY <1>4, <1>5 DEF TrackOf
<1> QED
  BY <1>1, <1>2, <1>6

LEMMA SentFacts ==
  ASSUME NEW p \in Sent
  PROVE  p \in Pos /\ Lin(p) \in Nat /\ Lin(p) < H /\ \E b \in Bases : Of(p, b)
  BY OfFacts, HalfFacts DEF Sent

(* What is behind the track is what lies before it.                         *)
LEMMA BehindIsBefore ==
  ASSUME track \in Bases, NEW p \in Sent
  PROVE  /\ Behind(p) <=> ~New(p)
         /\ ~New(p) => Older(p)
         /\ Diff(p, track) = Lin(p) - Lin(track)
<1>1. PICK b \in Bases : Of(p, b)
  BY SentFacts
<1>2. TrackOf(p) = b /\ p \in Pos /\ Lin(p) \in Nat /\ Lin(p) < H /\ Lin(b) <= Lin(p)
  BY <1>1, OfFacts, SentFacts
<1>3. PICK t \in Bases : t = track
  OBVIOUS
<1>4. t \in Pos /\ Lin(t) \in Nat /\ Lin(t) < H
  BY BaseFacts, HalfFacts
<1>5. Diff(p, t) = Lin(p) - Lin(t)
  BY <1>2, <1>4, DiffIsLin
<1>6. Lin(p) < Lin(t) => b # t
  BY <1>2, <1>4
<1> QED
  BY <1>2, <1>3, <1>4, <1>5, <1>6 DEF Behind, Older, New

LEMMA OfPlus ==
  ASSUME NEW b \in Bases, NEW n \in 0 .. MaxFrames
  PROVE  Of(Plus(b, n), b)
<1>1. b \in Pos /\ Lin(b) \in Nat /\ Lin(b) + n < PosMod /\ n \in Nat
  BY BaseFacts, HalfFacts
<1>2. Plus(b, n) \in Pos /\ Lin(Plus(b, n)) = Lin(b) + n
  BY <1>1, LinPlus
<1> QED
  BY <1>1, <1>2, HalfFacts DEF Of

(* Where the phone stands and what it sends next. *)
LEMMA Positions ==
  ASSUME PhoneInv
  PROVE  track \in Bases /\ Of(Position, track) /\ Of(Plus(track, sent), track)
<1>1. track \in Bases /\ played \in 0 .. MaxFrames /\ sent \in 0 .. MaxFrames
  BY HalfFacts DEF PhoneInv
<1>2. PICK b \in Bases, n \in 0 .. MaxFrames, m \in 0 .. MaxFrames : b = track /\ n = played /\ m = sent
  BY <1>1
<1>3. Of(Plus(b, n), b) /\ Of(Plus(b, m), b)
  BY OfPlus
<1> QED
  BY <1>1, <1>2, <1>3 DEF Position

-----------------------------------------------------------------------------
(* The phone and the anchor.                                               *)

LEMMA InitPhone == Init => PhoneInv /\ AnchorInv
<1> SUFFICES ASSUME Init PROVE PhoneInv /\ AnchorInv
  OBVIOUS
<1>1. FirstBase \in Bases /\ FirstBase # Off
  BY PositionAssumption
<1>2. FirstBase \in Sent /\ Of(FirstBase, FirstBase)
  BY <1>1, BaseFacts
<1>3. PhoneInv
  BY <1>1, <1>2, HalfFacts DEF Init, PhoneInv
<1>4. AnchorInv
  BY <1>1, <1>2 DEF Init, AnchorInv, Handling
<1> QED
  BY <1>3, <1>4

LEMMA NextPhone == PhoneInv /\ AnchorInv /\ [Next]_vars => PhoneInv' /\ AnchorInv'
<1> SUFFICES ASSUME PhoneInv, AnchorInv, [Next]_vars PROVE PhoneInv' /\ AnchorInv'
  OBVIOUS
<1> USE DEF phoneVars, rtspVars, gateVars, timeVars, readerVars
<1>a. /\ track \in used /\ used \subseteq Bases /\ track \in Bases
      /\ sent \in 0 .. MaxFrames /\ played \in 0 .. sent /\ elapsed \in 0 .. MaxElapsed
      /\ wire \in Seq(Sent) /\ frame \in Sent /\ ring \subseteq Sent
      /\ MaxFrames \in Nat /\ MaxElapsed \in Nat
  BY HalfFacts DEF PhoneInv
<1>b. Of(Position, track) /\ Of(Plus(track, sent), track) /\ Plus(track, sent) \in Sent
  BY <1>a, Positions DEF Of, Sent
<1>1. CASE Send
  <2>1. PhoneInv'
    BY <1>a, <1>b, <1>1 DEF Send, PhoneInv
  <2>2. AnchorInv'
    BY <1>1 DEF Send, AnchorInv
  <2> QED
    BY <2>1, <2>2
<1>2. CASE Seek
  <2>1. PhoneInv'
    BY <1>a, <1>2 DEF Seek, NewTrack, PhoneInv
  <2>2. AnchorInv'
    BY <1>a, <1>2 DEF Seek, NewTrack, AnchorInv, Handling
  <2> QED
    BY <2>1, <2>2
<1>3. CASE Skip
  <2>1. PhoneInv'
    BY <1>a, <1>3 DEF Skip, NewTrack, PhoneInv
  <2>2. PICK t \in Bases, u \in Bases : t = track /\ u = track' /\ t # u
    BY <1>a, <1>3 DEF Skip, NewTrack
  <2>3. Of(anchor, t) /\ anchor # Off
    BY <1>3, <2>2 DEF Skip, AnchorInv
  <2>4. ~Of(anchor, u)
    <3>1. PICK x : x = anchor
      OBVIOUS
    <3>2. ~Of(x, u)
      BY <2>2, <2>3, <3>1, OfFacts
    <3> QED
      BY <3>1, <3>2
  <2>5. AnchorInv'
    BY <1>a, <1>3, <2>2, <2>3, <2>4 DEF Skip, NewTrack, AnchorInv, Handling
  <2> QED
    BY <2>1, <2>5
<1>4. CASE SendAnchor
  <2>1. PhoneInv'
    BY <1>a, <1>4 DEF SendAnchor, PhoneInv
  <2>2. AnchorInv'
    BY <1>a, <1>b, <1>4 DEF SendAnchor, AnchorInv, Handling
  <2> QED
    BY <2>1, <2>2
<1>5. CASE Tick
  <2>1. PhoneInv'
    BY <1>a, <1>5 DEF Tick, PhoneInv
  <2>2. AnchorInv'
    BY <1>5 DEF Tick, AnchorInv
  <2> QED
    BY <2>1, <2>2
<1>6. CASE Pause
  <2>1. PhoneInv'
    BY <1>a, <1>6 DEF Pause, PhoneInv
  <2>2. AnchorInv'
    BY <1>6 DEF Pause, AnchorInv, Handling
  <2> QED
    BY <2>1, <2>2
<1>7. CASE TeardownStreams
  <2>1. PhoneInv'
    BY <1>a, <1>7 DEF TeardownStreams, PhoneInv
  <2>2. AnchorInv'
    BY <1>7 DEF TeardownStreams, AnchorInv, Handling
  <2> QED
    BY <2>1, <2>2
<1>8. CASE FlushRing
  <2>1. PhoneInv'
    BY <1>a, <1>8 DEF FlushRing, PhoneInv
  <2>2. AnchorInv'
    BY <1>8 DEF FlushRing, AnchorInv, Handling
  <2> QED
    BY <2>1, <2>2
<1>9. CASE FlushGates
  <2>1. PhoneInv'
    BY <1>a, <1>9 DEF FlushGates, PhoneInv
  <2>2. AnchorInv'
    BY <1>9 DEF FlushGates, AnchorInv, Handling
  <2> QED
    BY <2>1, <2>2
<1>10. CASE CloseBlanket
  <2>1. PhoneInv'
    BY <1>a, <1>10 DEF CloseBlanket, PhoneInv
  <2>2. AnchorInv'
    BY <1>10 DEF CloseBlanket, AnchorInv, Handling
  <2> QED
    BY <2>1, <2>2
<1>11. CASE PathA \/ PathB \/ ArmB \/ OpenBlanket \/ Phase2 \/ ArmLate
  <2>1. /\ UNCHANGED phoneVars /\ UNCHANGED <<wire, req, anchor, elapsed, playing, reader, frame>>
        /\ ring' = ring \/ ring' = {}
        /\ pausedRtp' = pausedRtp \/ pausedRtp' = Off
        /\ rtsp \in Handling /\ rtsp' \in Handling
    BY <1>11 DEF PathA, PathB, ArmB, OpenBlanket, Phase2, ArmLate, ArmGates, Handling
  <2>a. ~armNext'
    BY <1>11 DEF PathA, PathB, ArmB, OpenBlanket, Phase2, ArmLate, AnchorInv
  <2>2. PhoneInv'
    BY <1>a, <2>1 DEF PhoneInv
  <2>3. AnchorInv'
    BY <1>a, <2>1, <2>a DEF AnchorInv, Handling
  <2> QED
    BY <2>2, <2>3
<1>12. CASE SetAnchor
  <2>1. PhoneInv'
    BY <1>a, <1>12 DEF SetAnchor, PhoneInv
  <2>2. Of(req, track) /\ req # Off
    BY <1>12, PositionAssumption DEF SetAnchor, AnchorInv, Handling, Of
  <2>3. AnchorInv'
    BY <1>a, <1>12, <2>2 DEF SetAnchor, AnchorInv, Handling
  <2> QED
    BY <2>1, <2>3
<1>13. CASE Reader
  <2>1. UNCHANGED <<phone, track, sent, played, used, rtsp, req, armed, pausedRtp, anchor, elapsed, playing>>
    BY <1>13 DEF Reader, TakeFrame, TestBefore, DisarmBefore, TestAbove, DisarmAbove, Recheck, Queue, Reads
  <2>2. AnchorInv'
    <3>1. armNext' = armNext
      BY <1>13 DEF Reader, TakeFrame, TestBefore, DisarmBefore, TestAbove, DisarmAbove, Recheck, Queue, Reads
    <3> QED
      BY <2>1, <3>1 DEF AnchorInv
  <2>3. wire' \in Seq(Sent) /\ frame' \in Sent /\ ring' \subseteq Sent
    <3>1. CASE TakeFrame
      <4>1. Head(wire) \in Sent /\ Tail(wire) \in Seq(Sent)
        BY <1>a, <3>1 DEF TakeFrame
      <4> QED
        BY <1>a, <3>1, <4>1 DEF TakeFrame, Reads
    <3>2. CASE TestBefore \/ DisarmBefore \/ TestAbove \/ DisarmAbove \/ Recheck \/ Queue
      BY <1>a, <3>2 DEF TestBefore, DisarmBefore, TestAbove, DisarmAbove, Recheck, Queue, Reads
    <3> QED
      BY <1>13, <3>1, <3>2 DEF Reader
  <2>4. PhoneInv'
    BY <1>a, <2>1, <2>3 DEF PhoneInv
  <2> QED
    BY <2>2, <2>4
<1>14. CASE Play
  <2>1. PhoneInv'
    BY <1>a, <1>14 DEF Play, PhoneInv
  <2>2. AnchorInv'
    BY <1>14 DEF Play, AnchorInv
  <2> QED
    BY <2>1, <2>2
<1>15. CASE UNCHANGED vars
  BY <1>15 DEF vars, PhoneInv, AnchorInv
<1> QED
  BY <1>1, <1>2, <1>3, <1>4, <1>5, <1>6, <1>7, <1>8, <1>9, <1>10, <1>11, <1>12, <1>13, <1>14, <1>15
     DEF Next, Rtsp

-----------------------------------------------------------------------------
(* The connection keeps the frames in the order they were sent.            *)

LEMMA TailFacts ==
  ASSUME NEW S, NEW s \in Seq(S), s # <<>>
  PROVE  /\ Head(s) \in S /\ Head(s) = s[1] /\ Len(s) \in Nat /\ Len(s) >= 1
         /\ Tail(s) \in Seq(S) /\ Len(Tail(s)) = Len(s) - 1
         /\ \A i \in 1 .. Len(s) - 1 : Tail(s)[i] = s[i + 1]
  OBVIOUS

LEMMA AppendFacts ==
  ASSUME NEW S, NEW s \in Seq(S), NEW e \in S
  PROVE  /\ Append(s, e) \in Seq(S) /\ Len(s) \in Nat /\ Len(Append(s, e)) = Len(s) + 1
         /\ \A i \in 1 .. Len(s) : Append(s, e)[i] = s[i]
         /\ Append(s, e)[Len(s) + 1] = e
  OBVIOUS

(* The steps that move no frame towards the gates and change no track.      *)
LEMMA QuietSteps ==
  ASSUME [Next]_vars
  PROVE  \/ Send \/ Seek \/ Skip \/ TeardownStreams \/ TakeFrame
         \/ /\ UNCHANGED <<wire, track, used>>
            /\ reader' = "testBefore" => reader = "testBefore" /\ frame' = frame
  BY DEF Next, vars, Rtsp, Reader, phoneVars, rtspVars, gateVars, timeVars, readerVars,
         SendAnchor, Tick, Pause, FlushRing, FlushGates, CloseBlanket, PathA, PathB, ArmB, OpenBlanket,
         Phase2, ArmLate, SetAnchor, TestBefore, DisarmBefore, TestAbove, DisarmAbove, Recheck, Queue,
         Reads, Play

LEMMA NextWire == PhoneInv /\ WireInv /\ [Next]_vars => WireInv'
<1> SUFFICES ASSUME PhoneInv, WireInv, [Next]_vars PROVE WireInv'
  OBVIOUS
<1> USE DEF phoneVars, rtspVars, gateVars, timeVars, readerVars
<1>a. track \in used /\ used \subseteq Bases /\ track \in Bases /\ wire \in Seq(Sent) /\ Len(wire) \in Nat
  BY DEF PhoneInv
<1>b. /\ \A i \in 1 .. Len(wire) : TrackOf(wire[i]) \in used
      /\ \A i, j \in 1 .. Len(wire) : i < j /\ TrackOf(wire[i]) = track => TrackOf(wire[j]) = track
      /\ reader = "testBefore" => TrackOf(frame) \in used
      /\ reader = "testBefore" /\ TrackOf(frame) = track => \A j \in 1 .. Len(wire) : TrackOf(wire[j]) = track
  BY DEF WireInv, Older
<1> HIDE DEF WireInv
<1>c. SUFFICES /\ \A i \in 1 .. Len(wire') : TrackOf(wire'[i]) \in used'
               /\ \A i, j \in 1 .. Len(wire') : i < j /\ TrackOf(wire'[i]) = track' => TrackOf(wire'[j]) = track'
               /\ reader' = "testBefore" => TrackOf(frame') \in used'
               /\ reader' = "testBefore" /\ TrackOf(frame') = track'
                    => \A j \in 1 .. Len(wire') : TrackOf(wire'[j]) = track'
  BY DEF WireInv, Older
<1>1. CASE Send
  <2>1. PICK x : x = Plus(track, sent)
    OBVIOUS
  <2>2. x \in Sent /\ TrackOf(x) = track
    <3>1. Of(x, track)
      BY <2>1, Positions
    <3>2. PICK t \in Bases : t = track
      BY <1>a
    <3> QED
      BY <3>1, <3>2, OfFacts
  <2>3. wire' = Append(wire, x) /\ UNCHANGED <<track, used, reader, frame>>
    BY <1>1, <2>1 DEF Send
  <2>4. /\ Len(wire') = Len(wire) + 1 /\ wire'[Len(wire) + 1] = x
        /\ \A i \in 1 .. Len(wire) : wire'[i] = wire[i]
    BY <1>a, <2>2, <2>3, AppendFacts
  <2>5. \A i \in 1 .. Len(wire') : i \in 1 .. Len(wire) \/ i = Len(wire) + 1
    BY <1>a, <2>4
  <2>6. \A i \in 1 .. Len(wire') : TrackOf(wire'[i]) \in used'
    BY <1>a, <1>b, <2>2, <2>3, <2>4, <2>5
  <2>7. \A i, j \in 1 .. Len(wire') : i < j /\ TrackOf(wire'[i]) = track' => TrackOf(wire'[j]) = track'
    BY <1>a, <1>b, <2>2, <2>3, <2>4, <2>5
  <2>8. reader' = "testBefore" /\ TrackOf(frame') = track'
           => \A j \in 1 .. Len(wire') : TrackOf(wire'[j]) = track'
    BY <1>a, <1>b, <2>2, <2>3, <2>4, <2>5
  <2> QED
    BY <1>b, <2>3, <2>6, <2>7, <2>8
<1>2. CASE Seek \/ Skip
  <2>1. /\ track' \in Bases \ used /\ used' = used \cup {track'} /\ UNCHANGED <<wire, reader, frame>>
    BY <1>2 DEF Seek, Skip, NewTrack
  <2> QED
    BY <1>b, <2>1
<1>3. CASE TeardownStreams
  <2>1. wire' = <<>> /\ reader' = "idle"
    BY <1>3 DEF TeardownStreams
  <2> QED
    BY <2>1
<1>4. CASE TakeFrame
  <2>1. wire # <<>> /\ wire' = Tail(wire) /\ frame' = Head(wire) /\ UNCHANGED <<track, used>>
    BY <1>4 DEF TakeFrame, Reads
  <2>2. /\ frame' = wire[1] /\ Len(wire) >= 1 /\ Len(wire') = Len(wire) - 1
        /\ \A i \in 1 .. Len(wire) - 1 : wire'[i] = wire[i + 1]
    BY <1>a, <2>1, TailFacts
  <2>3. \A i \in 1 .. Len(wire') : i + 1 \in 1 .. Len(wire) /\ 1 < i + 1 /\ wire'[i] = wire[i + 1]
    BY <1>a, <2>2
  <2>4. 1 \in 1 .. Len(wire)
    BY <1>a, <2>2
  <2>5. \A i \in 1 .. Len(wire') : TrackOf(wire'[i]) \in used'
    BY <1>b, <2>1, <2>3
  <2>6. \A i, j \in 1 .. Len(wire') : i < j /\ TrackOf(wire'[i]) = track' => TrackOf(wire'[j]) = track'
    <3> SUFFICES ASSUME NEW i \in 1 .. Len(wire'), NEW j \in 1 .. Len(wire'), i < j, TrackOf(wire'[i]) = track'
                 PROVE  TrackOf(wire'[j]) = track'
      OBVIOUS
    <3>1. i + 1 \in 1 .. Len(wire) /\ j + 1 \in 1 .. Len(wire) /\ i + 1 < j + 1
      BY <2>3
    <3>2. TrackOf(wire[i + 1]) = track
      BY <2>1, <2>3
    <3>3. TrackOf(wire[j + 1]) = track
      BY <1>b, <3>1, <3>2
    <3> QED
      BY <2>1, <2>3, <3>3
  <2>7. TrackOf(frame') \in used'
    BY <1>b, <2>1, <2>2, <2>4
  <2>8. TrackOf(frame') = track' => \A j \in 1 .. Len(wire') : TrackOf(wire'[j]) = track'
    BY <1>b, <2>1, <2>2, <2>3, <2>4
  <2> QED
    BY <2>5, <2>6, <2>7, <2>8
<1>5. CASE /\ UNCHANGED <<wire, track, used>>
           /\ reader' = "testBefore" => reader = "testBefore" /\ frame' = frame
  BY <1>b, <1>5
<1> QED
  BY <1>1, <1>2, <1>3, <1>4, <1>5, QuietSteps

-----------------------------------------------------------------------------
(* A TEARDOWN leaves nothing of another track on the way.                  *)

LEMMA NewPosition ==
  ASSUME PhoneInv
  PROVE  Plus(track, sent) \in Sent /\ New(Plus(track, sent))
<1>1. PICK t \in Bases : t = track
  BY DEF PhoneInv
<1>2. PICK x : x = Plus(track, sent)
  OBVIOUS
<1>3. Of(x, t)
  BY <1>1, <1>2, Positions
<1> QED
  BY <1>1, <1>2, <1>3, OfFacts DEF New

LEMMA NextStop == PhoneInv /\ AnchorInv /\ StopInv /\ [Next]_vars => StopInv'
<1> SUFFICES ASSUME PhoneInv, AnchorInv, StopInv, [Next]_vars, rtsp' \in {"stopRing", "stopGates"}
             PROVE  (\A i \in 1 .. Len(wire') : Lin(wire'[i]) >= Lin(track')) /\ (reader' # "idle" => Lin(frame') >= Lin(track'))
  BY DEF StopInv, New
<1> USE DEF phoneVars, rtspVars, gateVars, timeVars, readerVars
<1>a. wire \in Seq(Sent) /\ Len(wire) \in Nat
  BY DEF PhoneInv
<1>1. CASE TeardownStreams
  BY <1>1 DEF TeardownStreams
<1>2. CASE ~TeardownStreams
  <2>1. /\ rtsp \in {"stopRing", "stopGates"} /\ track' = track
        /\ \/ wire' = Append(wire, Plus(track, sent)) /\ UNCHANGED <<reader, frame>>
           \/ TakeFrame
           \/ wire' = wire /\ frame' = frame /\ (reader' # "idle" => reader # "idle")
    BY <1>2 DEF Next, vars, Rtsp, Reader, Send, Seek, Skip, NewTrack,
         SendAnchor, Tick, Pause, FlushRing, FlushGates, CloseBlanket, PathA, PathB, ArmB, OpenBlanket,
         Phase2, ArmLate, SetAnchor, TakeFrame, TestBefore, DisarmBefore, TestAbove, DisarmAbove, Recheck, Queue,
         Reads, Play
  <2>2. (\A i \in 1 .. Len(wire) : Lin(wire[i]) >= Lin(track)) /\ (reader # "idle" => Lin(frame) >= Lin(track))
    BY <2>1 DEF StopInv, New
  <2>3. CASE wire' = Append(wire, Plus(track, sent)) /\ UNCHANGED <<reader, frame>>
    <3>1. PICK x \in Sent : x = Plus(track, sent) /\ Lin(x) >= Lin(track)
      BY NewPosition DEF New
    <3>2. /\ Len(wire') = Len(wire) + 1 /\ wire'[Len(wire) + 1] = x
          /\ \A i \in 1 .. Len(wire) : wire'[i] = wire[i]
      BY <1>a, <2>3, <3>1, AppendFacts
    <3>3. \A i \in 1 .. Len(wire') : i \in 1 .. Len(wire) \/ i = Len(wire) + 1
      BY <1>a, <3>2
    <3> QED
      BY <2>1, <2>2, <2>3, <3>1, <3>2, <3>3
  <2>4. CASE TakeFrame
    <3>1. wire # <<>> /\ wire' = Tail(wire) /\ frame' = Head(wire)
      BY <2>4 DEF TakeFrame, Reads
    <3>2. /\ frame' = wire[1] /\ Len(wire) >= 1 /\ Len(wire') = Len(wire) - 1
          /\ \A i \in 1 .. Len(wire) - 1 : wire'[i] = wire[i + 1]
      BY <1>a, <3>1, TailFacts
    <3>3. \A i \in 1 .. Len(wire') : i + 1 \in 1 .. Len(wire) /\ wire'[i] = wire[i + 1]
      BY <1>a, <3>2
    <3> QED
      BY <1>a, <2>1, <2>2, <3>2, <3>3
  <2>5. CASE wire' = wire /\ frame' = frame /\ (reader' # "idle" => reader # "idle")
    BY <2>1, <2>2, <2>5
  <2> QED
    BY <2>1, <2>3, <2>4, <2>5
<1> QED
  BY <1>1, <1>2

-----------------------------------------------------------------------------
(* The gates.                                                              *)

(* When gates are armed without what ArmGates remembers as crossed, nothing *)
(* that lies before the track follows a frame that passes the first gate.   *)
LEMMA Uncrossed ==
  ASSUME PhoneInv, WireInv, ~Crossed
  PROVE  /\ \A i, j \in 1 .. Len(wire) : i < j /\ New(wire[i]) => New(wire[j])
         /\ reader = "testBefore" /\ New(frame) => \A j \in 1 .. Len(wire) : New(wire[j])
<1>a. track \in Bases /\ wire \in Seq(Sent) /\ Len(wire) \in Nat /\ frame \in Sent
  BY DEF PhoneInv
<1>b. /\ frame \in Sent => (Behind(frame) <=> ~New(frame)) /\ (~New(frame) => Older(frame))
      /\ \A i \in 1 .. Len(wire) : (Behind(wire[i]) <=> ~New(wire[i])) /\ (~New(wire[i]) => Older(wire[i]))
  <2>1. ASSUME NEW p \in Sent
        PROVE  (Behind(p) <=> ~New(p)) /\ (~New(p) => Older(p))
    BY <1>a, BehindIsBefore
  <2> QED
    BY <1>a, <2>1
<1>c. \A i, j \in DOMAIN Coming : i < j /\ Older(Coming[i]) /\ ~Behind(Coming[i]) => ~Behind(Coming[j])
  BY DEF Crossed
<1>1. \A i, j \in 1 .. Len(wire) : i < j /\ Older(wire[i]) /\ ~Behind(wire[i]) => ~Behind(wire[j])
  <2>1. CASE reader = "testBefore"
    <3>1. Coming = <<frame>> \o wire
      BY <2>1 DEF Coming
    <3>2. DOMAIN Coming = 1 .. Len(wire) + 1 /\ \A i \in 1 .. Len(wire) : Coming[i + 1] = wire[i]
      BY <1>a, <3>1
    <3> HIDE DEF Coming
    <3> SUFFICES ASSUME NEW i \in 1 .. Len(wire), NEW j \in 1 .. Len(wire), i < j,
                        Older(wire[i]), ~Behind(wire[i])
                 PROVE  ~Behind(wire[j])
      OBVIOUS
    <3>3. i + 1 \in DOMAIN Coming /\ j + 1 \in DOMAIN Coming /\ i + 1 < j + 1
      BY <1>a, <3>2
    <3>4. Coming[i + 1] = wire[i] /\ Coming[j + 1] = wire[j]
      BY <3>2
    <3>5. Older(Coming[i + 1]) /\ ~Behind(Coming[i + 1])
      BY <3>4
    <3>6. ~Behind(Coming[j + 1])
      BY <1>c, <3>3, <3>5
    <3> QED
      BY <3>4, <3>6
  <2>2. CASE reader # "testBefore"
    <3>1. Coming = wire
      BY <1>a, <2>2 DEF Coming
    <3>2. DOMAIN Coming = 1 .. Len(wire)
      BY <1>a, <3>1
    <3> QED
      BY <1>c, <3>1, <3>2
  <2> QED
    BY <2>1, <2>2
<1>2. reader = "testBefore" /\ Older(frame) /\ ~Behind(frame) => \A j \in 1 .. Len(wire) : ~Behind(wire[j])
  <2> SUFFICES ASSUME reader = "testBefore", Older(frame), ~Behind(frame), NEW j \in 1 .. Len(wire)
               PROVE  ~Behind(wire[j])
    OBVIOUS
  <2>1. Coming = <<frame>> \o wire
    BY DEF Coming
  <2>2. DOMAIN Coming = 1 .. Len(wire) + 1 /\ Coming[1] = frame /\ Coming[j + 1] = wire[j]
    BY <1>a, <2>1
  <2> HIDE DEF Coming
  <2>3. 1 \in DOMAIN Coming /\ j + 1 \in DOMAIN Coming /\ 1 < j + 1
    BY <1>a, <2>2
  <2>4. Older(Coming[1]) /\ ~Behind(Coming[1])
    BY <2>2
  <2>5. ~Behind(Coming[j + 1])
    BY <1>c, <2>3, <2>4
  <2> QED
    BY <2>2, <2>5
<1>3. \A i, j \in 1 .. Len(wire) : i < j /\ New(wire[i]) => New(wire[j])
  BY <1>b, <1>1 DEF WireInv
<1>4. reader = "testBefore" /\ New(frame) => \A j \in 1 .. Len(wire) : New(wire[j])
  BY <1>a, <1>b, <1>2 DEF WireInv
<1> QED
  BY <1>3, <1>4

(* Gates that are armed around the anchor of the track hold what lies      *)
(* before it, if the reader is not between its tests.                      *)
LEMMA ArmedGates ==
  ASSUME PhoneInv, AnchorInv, WireInv, ArmGates, rtsp \in Handling,
         UNCHANGED <<track, wire, reader, frame>>, Counted'
  PROVE  GateInv'
<1>1. reader \notin {"disarmBefore", "testAbove", "disarmAbove"} /\ ~Crossed
      /\ (reader = "queue" => "accepted" \in caught')
  BY DEF ArmGates, Counted
<1>2. before' = req /\ Of(req, track) /\ track \in Bases
  BY DEF ArmGates, AnchorInv, PhoneInv
<1>3. req \in Sent /\ Lin(req) >= Lin(track) /\ req # Off
  <2>1. PICK t, x : t \in Bases /\ t = track /\ x = req
    BY <1>2
  <2>2. x \in Sent /\ x \in Pos /\ Lin(x) \in Nat /\ Lin(t) <= Lin(x) /\ Lin(t) \in Nat
    BY <1>2, <2>1, OfFacts, BaseFacts
  <2> QED
    BY <2>1, <2>2, PositionAssumption
<1>4. /\ \A i, j \in 1 .. Len(wire) : i < j /\ Lin(wire[i]) >= Lin(track) => Lin(wire[j]) >= Lin(track)
      /\ reader = "testBefore" /\ Lin(frame) >= Lin(track) => \A j \in 1 .. Len(wire) : Lin(wire[j]) >= Lin(track)
  BY <1>1, Uncrossed DEF New
<1> QED
  BY <1>1, <1>2, <1>3, <1>4 DEF GateInv, New, Leaving

(* A new anchor on another track than the one in force is far from it.      *)
LEMMA SkipIsFar ==
  ASSUME NEW t \in Bases, NEW b \in Bases, t # b,
         NEW r, Of(r, t), NEW a, Of(a, b), NEW e \in 0 .. MaxElapsed
  PROVE  Abs(Diff(r, Plus(a, e))) > Threshold
<1>1. /\ r \in Pos /\ Lin(r) \in Nat /\ Lin(r) < H /\ Lin(t) <= Lin(r) /\ Lin(r) <= Lin(t) + MaxFrames
      /\ a \in Pos /\ Lin(a) \in Nat /\ Lin(a) + e < H /\ Lin(b) <= Lin(a) /\ Lin(a) <= Lin(b) + MaxFrames
      /\ Lin(t) \in Nat /\ Lin(b) \in Nat /\ e \in Nat /\ e <= MaxElapsed
  BY OfFacts, BaseFacts, HalfFacts
<1>2. Lin(a) + e < PosMod
  BY <1>1, HalfFacts
<1>3. Plus(a, e) \in Pos /\ Lin(Plus(a, e)) = Lin(a) + e
  BY <1>1, <1>2, LinPlus
<1>4. Diff(r, Plus(a, e)) = Lin(r) - (Lin(a) + e)
  BY <1>1, <1>3, DiffIsLin
<1>5. Lin(t) - Lin(b) > Window + MaxFrames + MaxElapsed \/ Lin(b) - Lin(t) > Window + MaxFrames + MaxElapsed
  BY Apart
<1>6. PICK d \in Int : d = Lin(r) - (Lin(a) + e)
  BY <1>1
<1>7. d > Threshold \/ -d > Threshold
  BY <1>1, <1>5, <1>6, HalfFacts
<1> QED
  BY <1>4, <1>6, <1>7, HalfFacts DEF Abs

(* So Path B goes on without a flush only on the track it is on.            *)
LEMMA PathBNear ==
  ASSUME PhoneInv, AnchorInv, PathB, rtsp' # "armB"
  PROVE  anchor = Off \/ Of(anchor, track)
<1> SUFFICES ASSUME anchor # Off, ~Of(anchor, track) PROVE FALSE
  OBVIOUS
<1>1. PICK b \in used : Of(anchor, b)
  BY DEF AnchorInv
<1>2. PICK t, r, a, e : t = track /\ r = req /\ a = anchor /\ e = elapsed
  OBVIOUS
<1>3. b \in Bases /\ t \in Bases /\ e \in 0 .. MaxElapsed /\ t # b /\ Of(r, t) /\ Of(a, b)
  BY <1>1, <1>2 DEF PhoneInv, AnchorInv, PathB, Handling
<1>4. Abs(Diff(r, Plus(a, e))) > Threshold
  BY <1>2, <1>3, SkipIsFar
<1>5. Reference = Plus(anchor, elapsed)
  BY DEF Reference, AnchorInv, PathB
<1> QED
  BY <1>2, <1>4, <1>5 DEF PathB

LEMMA CaughtGrows == [Next]_vars /\ Counted' => Counted
  BY DEF Counted, Next, vars, Rtsp, Reader, Send, Seek, Skip, NewTrack,
         SendAnchor, Tick, Pause, TeardownStreams, FlushRing, FlushGates, CloseBlanket, PathA, PathB, ArmB, OpenBlanket,
         Phase2, ArmLate, SetAnchor, TakeFrame, TestBefore, DisarmBefore, TestAbove, DisarmAbove, Recheck, Queue,
         Reads, Play, ArmGates

(* What decides about the gates and does not change: the gates hold.        *)
LEMMA GateFrame ==
  ASSUME GateInv, UNCHANGED <<track, wire, before, reader, frame, caught>>
  PROVE  GateInv'
BY DEF GateInv, New, Leaving

(* The reader disarms the first gate only when nothing it holds back is to  *)
(* come, and takes no frame to the ring that the gate would hold back.      *)
LEMMA ReaderAtGates ==
  ASSUME PhoneInv, GateInv, Reader
  PROVE  GateInv'
<1> USE DEF phoneVars, rtspVars, gateVars, timeVars
<1>a. track \in Bases /\ wire \in Seq(Sent) /\ Len(wire) \in Nat /\ frame \in Sent
  BY DEF PhoneInv
<1>b. /\ before = Off => \A i \in 1 .. Len(wire) : Lin(wire[i]) >= Lin(track)
      /\ before = Off /\ reader \in {"testBefore", "disarmBefore", "testAbove", "disarmAbove", "decode"}
           => Lin(frame) >= Lin(track)
      /\ before # Off => before \in Sent /\ Lin(before) >= Lin(track)
      /\ \A i, j \in 1 .. Len(wire) : i < j /\ Lin(wire[i]) >= Lin(track) => Lin(wire[j]) >= Lin(track)
      /\ reader = "testBefore" /\ Lin(frame) >= Lin(track) => \A j \in 1 .. Len(wire) : Lin(wire[j]) >= Lin(track)
      /\ reader = "disarmBefore" => Lin(frame) >= Lin(track) /\ \A j \in 1 .. Len(wire) : Lin(wire[j]) >= Lin(track)
      /\ reader \in {"testAbove", "disarmAbove"} => Lin(frame) >= Lin(track)
  BY DEF GateInv, New
<1>c. before # Off => /\ Diff(frame, before) = Lin(frame) - Lin(before)
                      /\ Lin(before) \in Nat /\ Lin(frame) \in Nat /\ Lin(track) \in Nat /\ Lin(before) >= Lin(track)
  <2> SUFFICES ASSUME before # Off
               PROVE  /\ Diff(frame, before) = Lin(frame) - Lin(before)
                      /\ Lin(before) \in Nat /\ Lin(frame) \in Nat /\ Lin(track) \in Nat
    BY <1>b
  <2>1. PICK p \in Sent, q \in Sent, t \in Bases : p = frame /\ q = before /\ t = track
    BY <1>a, <1>b
  <2>2. p \in Pos /\ q \in Pos /\ Lin(p) \in Nat /\ Lin(q) \in Nat /\ Lin(p) < H /\ Lin(q) < H /\ Lin(t) \in Nat
    BY SentFacts, BaseFacts
  <2>3. Diff(p, q) = Lin(p) - Lin(q)
    BY <2>2, DiffIsLin
  <2> QED
    BY <2>1, <2>2, <2>3
<1>1. CASE TakeFrame
  <2>1. /\ wire # <<>> /\ wire' = Tail(wire) /\ frame' = Head(wire) /\ before' = before /\ caught' = caught
        /\ track' = track /\ reader' \in {"idle", "testBefore"}
    BY <1>1 DEF TakeFrame, Reads
  <2>2. /\ frame' = wire[1] /\ Len(wire) >= 1 /\ Len(wire') = Len(wire) - 1
        /\ \A i \in 1 .. Len(wire) - 1 : wire'[i] = wire[i + 1]
    BY <1>a, <2>1, TailFacts
  <2>3. \A i \in 1 .. Len(wire') : i + 1 \in 1 .. Len(wire) /\ 1 < i + 1 /\ wire'[i] = wire[i + 1] /\ i \in Nat
    BY <1>a, <2>2
  <2>4. 1 \in 1 .. Len(wire)
    BY <1>a, <2>2
  <2>5. \A i, j \in 1 .. Len(wire') : i < j /\ Lin(wire'[i]) >= Lin(track) => Lin(wire'[j]) >= Lin(track)
    <3> SUFFICES ASSUME NEW i \in 1 .. Len(wire'), NEW j \in 1 .. Len(wire'), i < j, Lin(wire'[i]) >= Lin(track)
                 PROVE  Lin(wire'[j]) >= Lin(track)
      OBVIOUS
    <3>1. i + 1 \in 1 .. Len(wire) /\ j + 1 \in 1 .. Len(wire) /\ i + 1 < j + 1
      BY <2>3
    <3>2. Lin(wire[i + 1]) >= Lin(track)
      BY <2>3
    <3>3. Lin(wire[j + 1]) >= Lin(track)
      BY <1>b, <3>1, <3>2
    <3> QED
      BY <2>3, <3>3
  <2>6. Lin(frame') >= Lin(track) => \A j \in 1 .. Len(wire') : Lin(wire'[j]) >= Lin(track)
    BY <1>b, <2>2, <2>3, <2>4
  <2>7. before = Off => Lin(frame') >= Lin(track) /\ \A j \in 1 .. Len(wire') : Lin(wire'[j]) >= Lin(track)
    BY <1>b, <2>2, <2>3, <2>4
  <2> QED
    BY <1>b, <2>1, <2>5, <2>6, <2>7 DEF GateInv, New, Leaving
<1>2. CASE TestBefore
  <2>1. /\ UNCHANGED <<track, wire, before, frame, caught>> /\ reader = "testBefore"
        /\ reader' = (IF before = Off THEN "testAbove"
                      ELSE IF Diff(frame, before) < 0 THEN "idle" ELSE "disarmBefore")
    BY <1>2 DEF TestBefore, Reads
  <2>2. reader' = "testAbove" \/ reader' = "disarmBefore" => Lin(frame) >= Lin(track)
    BY <1>b, <1>c, <2>1
  <2> QED
    BY <1>b, <2>1, <2>2 DEF GateInv, New, Leaving
<1>3. CASE DisarmBefore
  <2>1. /\ UNCHANGED <<track, wire, frame, caught>> /\ reader = "disarmBefore" /\ reader' = "testAbove" /\ before' = Off
    BY <1>3 DEF DisarmBefore, Reads
  <2> QED
    BY <1>b, <2>1 DEF GateInv, New, Leaving
<1>4. CASE TestAbove \/ DisarmAbove
  <2>1. /\ UNCHANGED <<track, wire, frame, caught, before>> /\ reader \in {"testAbove", "disarmAbove"}
        /\ reader' \in {"idle", "disarmAbove", "decode"}
    BY <1>4 DEF TestAbove, DisarmAbove, Reads
  <2> QED
    BY <1>b, <2>1 DEF GateInv, New, Leaving
<1>5. CASE Recheck
  <2>1. /\ UNCHANGED <<track, wire, frame, caught, before>> /\ reader = "decode"
        /\ reader' = IF Gated(frame) THEN "idle" ELSE "queue"
    BY <1>5 DEF Recheck, Reads
  <2>2. reader' = "queue" => Lin(frame) >= Lin(track)
    BY <1>b, <1>c, <2>1 DEF Gated
  <2> QED
    BY <1>b, <2>1, <2>2 DEF GateInv, New, Leaving
<1>6. CASE Queue
  <2>1. UNCHANGED <<track, wire, frame, caught, before>> /\ reader' = "idle"
    BY <1>6 DEF Queue, Reads
  <2> QED
    BY <1>b, <2>1 DEF GateInv, New, Leaving
<1> QED
  BY <1>1, <1>2, <1>3, <1>4, <1>5, <1>6 DEF Reader

LEMMA NextGate ==
  ASSUME PhoneInv, AnchorInv, WireInv, StopInv, Counted /\ ~Dirty => GateInv, [Next]_vars, Counted', ~Dirty'
  PROVE  GateInv'
<1> USE DEF phoneVars, rtspVars, gateVars, timeVars, readerVars
<1>a. Counted
  BY CaughtGrows
<1>b. ~Dirty => GateInv
  BY <1>a
<1>1. CASE Send
  <2>1. /\ UNCHANGED <<track, before, reader, frame, caught>> /\ wire' = Append(wire, Plus(track, sent))
    BY <1>1 DEF Send
  <2>2. ~Dirty
    BY <1>1 DEF Send, Dirty
  <2>3. GateInv
    BY <1>b, <2>2
  <2>4. PICK x \in Sent : x = Plus(track, sent) /\ Lin(x) >= Lin(track)
    BY NewPosition DEF New
  <2>5. wire \in Seq(Sent)
    BY DEF PhoneInv
  <2>6. /\ Len(wire) \in Nat /\ Len(wire') = Len(wire) + 1 /\ wire'[Len(wire) + 1] = x
        /\ \A i \in 1 .. Len(wire) : wire'[i] = wire[i]
    BY <2>1, <2>4, <2>5, AppendFacts
  <2>7. \A i \in 1 .. Len(wire') : i \in 1 .. Len(wire) \/ i = Len(wire) + 1
    BY <2>6
  <2>8. \A i, j \in 1 .. Len(wire') : i < j /\ Lin(wire'[i]) >= Lin(track) => Lin(wire'[j]) >= Lin(track)
    BY <2>3, <2>4, <2>6, <2>7 DEF GateInv, New
  <2>9. (\A j \in 1 .. Len(wire) : Lin(wire[j]) >= Lin(track)) => \A j \in 1 .. Len(wire') : Lin(wire'[j]) >= Lin(track)
    BY <2>4, <2>6, <2>7
  <2> QED
    BY <2>1, <2>3, <2>8, <2>9 DEF GateInv, New, Leaving
<1>2. CASE Seek \/ Skip
  BY <1>2 DEF Seek, Skip, NewTrack, Dirty
<1>3. CASE SendAnchor
  <2>1. UNCHANGED <<track, wire, before, reader, frame, caught, anchor, armNext>> /\ rtsp' = "paths" /\ rtsp = "idle"
    BY <1>3 DEF SendAnchor
  <2>2. ~Dirty
    BY <2>1 DEF Dirty, AnchorInv
  <2> QED
    BY <1>b, <2>1, <2>2, GateFrame
<1>4. CASE Tick \/ Pause \/ Play \/ OpenBlanket \/ Phase2 \/ SetAnchor
  <2>1. UNCHANGED <<track, wire, before, reader, frame, caught>>
    BY <1>4 DEF Tick, Pause, Play, OpenBlanket, Phase2, SetAnchor
  <2>2. ~Dirty
    BY <1>4 DEF Tick, Pause, Play, OpenBlanket, Phase2, SetAnchor, Dirty, AnchorInv, Handling
  <2> QED
    BY <1>b, <2>1, <2>2, GateFrame
<1>5. CASE TeardownStreams
  <2>1. UNCHANGED <<track, before, frame, caught>> /\ wire' = <<>> /\ reader' = "idle"
    BY <1>5 DEF TeardownStreams
  <2>2. ~Dirty
    BY <1>5 DEF TeardownStreams, Dirty
  <2>3. before # Off => before \in Sent /\ New(before)
    BY <1>b, <2>2 DEF GateInv
  <2> QED
    BY <2>1, <2>3 DEF GateInv, New, Leaving
<1>6. CASE FlushRing
  <2>1. UNCHANGED <<track, wire, before, reader, frame, caught>>
    BY <1>6 DEF FlushRing
  <2>2. ~Dirty
    BY <1>6 DEF FlushRing, Dirty
  <2> QED
    BY <1>b, <2>1, <2>2, GateFrame
<1>7. CASE FlushGates
  <2>1. UNCHANGED <<track, wire, reader, frame, caught>> /\ before' = Off /\ rtsp = "stopGates"
    BY <1>7 DEF FlushGates, Dirty
  <2> QED
    BY <2>1 DEF GateInv, New, Leaving, StopInv
<1>8. CASE CloseBlanket
  BY <1>8 DEF CloseBlanket, Dirty
<1>9. CASE PathA \/ ArmB \/ ArmLate
  <2>1. ArmGates /\ rtsp \in Handling /\ UNCHANGED <<track, wire, reader, frame>>
    BY <1>9 DEF PathA, ArmB, ArmLate, Handling
  <2> QED
    BY <2>1, ArmedGates
<1>10. CASE PathB
  <2>1. UNCHANGED <<track, wire, before, reader, frame, caught, phone>> /\ rtsp = "paths" /\ ~armNext
    BY <1>10 DEF PathB
  <2>2. rtsp' # "armB"
    BY DEF Dirty
  <2>3. anchor = Off \/ Of(anchor, track)
    BY <1>10, <2>2, PathBNear
  <2>4. ~Dirty
    BY <2>1, <2>3 DEF Dirty, AnchorInv
  <2> QED
    BY <1>b, <2>1, <2>4, GateFrame
<1>11. CASE Reader
  <2>1. ~Dirty
    BY <1>11 DEF Dirty, Reader, TakeFrame, TestBefore, DisarmBefore, TestAbove, DisarmAbove, Recheck, Queue, Reads
  <2> QED
    BY <1>b, <1>11, <2>1, ReaderAtGates
<1>12. CASE UNCHANGED vars
  <2>1. UNCHANGED <<track, wire, before, reader, frame, caught>> /\ ~Dirty
    BY <1>12 DEF vars, Dirty
  <2> QED
    BY <1>b, <2>1, GateFrame
<1> QED
  BY <1>1, <1>2, <1>3, <1>4, <1>5, <1>6, <1>7, <1>8, <1>9, <1>10, <1>11, <1>12 DEF Next, Rtsp

-----------------------------------------------------------------------------
(* The ring.                                                               *)

(* The oldest frame is the one that lies first.                             *)
LEMMA OldestIsFirst ==
  ASSUME ring \subseteq Sent, ring # {}
  PROVE  Oldest \in ring /\ \A q \in ring : Lin(Oldest) <= Lin(q)
<1>1. PICK r : r = ring
  OBVIOUS
<1>2. \A p \in r : p \in Pos /\ Lin(p) \in Nat /\ Lin(p) < H
  BY <1>1, SentFacts
<1> DEFINE T == {Lin(p) : p \in r}
<1>3. T \in SUBSET Nat /\ T # {}
  BY <1>1, <1>2
<1>4. PICK n \in T : \A m \in T : n <= m
  <2> HIDE DEF T
  <2> QED
    BY <1>3, SmallestNat
<1>5. PICK p \in r : \A q \in r : Lin(p) <= Lin(q)
  BY <1>4
<1>6. \A a, b \in r : Diff(a, b) = Lin(a) - Lin(b)
  BY <1>2, DiffIsLin
<1>7. \A a, b \in r : Diff(a, b) <= 0 <=> Lin(a) <= Lin(b)
  BY <1>2, <1>6
<1>8. \E a \in r : \A b \in r : Diff(a, b) <= 0
  BY <1>5, <1>7
<1>9. Oldest \in r /\ \A b \in r : Diff(Oldest, b) <= 0
  BY <1>1, <1>8 DEF Oldest
<1> QED
  BY <1>1, <1>7, <1>9

(* A ring that holds something from before the track begins too far from    *)
(* the anchor.                                                             *)
LEMMA LeftIsFar ==
  ASSUME PhoneInv, Of(req, track), Left # {}
  PROVE  ring # {} /\ Abs(Diff(Oldest, req)) > Threshold
<1>1. PICK p \in ring : ~New(p)
  BY DEF Left
<1>2. ring \subseteq Sent
  BY DEF PhoneInv
<1>3. Oldest \in ring /\ Lin(Oldest) <= Lin(p)
  BY <1>1, <1>2, OldestIsFirst
<1>4. PICK t, o, r, x : t = track /\ o = Oldest /\ r = req /\ x = p
  OBVIOUS
<1>5. /\ t \in Bases /\ o \in Sent /\ x \in Sent /\ Of(r, t) /\ Lin(o) <= Lin(x) /\ ~(Lin(x) >= Lin(t))
  BY <1>1, <1>2, <1>3, <1>4 DEF PhoneInv, New
<1>6. PICK b \in Bases : Of(o, b)
  BY <1>5, SentFacts
<1>7. /\ o \in Pos /\ Lin(o) \in Nat /\ Lin(o) < H /\ Lin(b) <= Lin(o) /\ Lin(o) <= Lin(b) + MaxFrames
      /\ r \in Pos /\ Lin(r) \in Nat /\ Lin(r) < H /\ Lin(t) <= Lin(r)
      /\ Lin(b) \in Nat /\ Lin(t) \in Nat /\ Lin(x) \in Nat
  BY <1>5, <1>6, OfFacts, SentFacts, BaseFacts, HalfFacts
<1>8. b # t
  BY <1>5, <1>7
<1>9. Lin(t) - Lin(b) > Window + MaxFrames + MaxElapsed
  <2>1. Lin(b) - Lin(t) > Window + MaxFrames + MaxElapsed \/ Lin(t) - Lin(b) > Window + MaxFrames + MaxElapsed
    BY <1>5, <1>6, <1>8, Apart
  <2> QED
    BY <1>5, <1>7, <2>1, HalfFacts
<1>10. Diff(o, r) = Lin(o) - Lin(r)
  BY <1>7, DiffIsLin
<1>11. PICK d \in Int : d = Lin(o) - Lin(r)
  BY <1>7
<1>12. -d > Threshold
  BY <1>7, <1>9, <1>11, HalfFacts
<1>13. Abs(d) > Threshold
  BY <1>12, HalfFacts DEF Abs
<1> QED
  BY <1>3, <1>4, <1>10, <1>11, <1>13

(* What passes the test after decoding is not left behind.                  *)
LEMMA RecheckPassesNew ==
  ASSUME PhoneInv, GateInv, Recheck
  PROVE  ~Leaving'
<1> USE DEF phoneVars, rtspVars, gateVars, timeVars
<1>1. UNCHANGED <<track, frame>> /\ reader = "decode" /\ reader' = IF Gated(frame) THEN "idle" ELSE "queue"
  BY DEF Recheck, Reads
<1>2. CASE before = Off
  <2>1. New(frame)
    BY <1>1, <1>2 DEF GateInv
  <2> QED
    BY <1>1, <2>1 DEF Leaving, New
<1>3. CASE before # Off
  <2>1. PICK p \in Sent, q \in Sent, t \in Bases : p = frame /\ q = before /\ t = track /\ Lin(q) >= Lin(t)
    BY <1>3 DEF PhoneInv, GateInv, New
  <2>2. p \in Pos /\ q \in Pos /\ Lin(p) \in Nat /\ Lin(q) \in Nat /\ Lin(p) < H /\ Lin(q) < H /\ Lin(t) \in Nat
    BY SentFacts, BaseFacts
  <2>3. Diff(p, q) = Lin(p) - Lin(q)
    BY <2>2, DiffIsLin
  <2>4. reader' = "queue" => ~(Diff(p, q) < 0)
    BY <1>1, <1>3, <2>1 DEF Gated
  <2>5. reader' = "queue" => Lin(p) >= Lin(t)
    BY <2>1, <2>2, <2>3, <2>4
  <2> QED
    BY <1>1, <2>1, <2>5 DEF Leaving, New
<1> QED
  BY <1>2, <1>3

(* A reader at work leaves the tasks where they are and brings nothing into *)
(* the hands of the reader that is left behind.                             *)
LEMMA ReaderLeavesNothing ==
  ASSUME PhoneInv, GateInv, Reader
  PROVE  /\ UNCHANGED <<track, rtsp, phone, caught>>
         /\ Leaving' => Leaving
         /\ \/ Queue
            \/ UNCHANGED <<ring, stale>>
<1> USE DEF phoneVars, rtspVars, gateVars, timeVars
<1>1. CASE Recheck
  BY <1>1, RecheckPassesNew DEF Recheck, Reads
<1>2. CASE ~Recheck
  BY <1>2 DEF Reader, TakeFrame, TestBefore, DisarmBefore, TestAbove, DisarmAbove, Queue, Reads, Leaving
<1> QED
  BY <1>1, <1>2

LEMMA NextRing ==
  ASSUME PhoneInv, AnchorInv, Counted /\ ~Dirty => GateInv, Counted => RingInv, [Next]_vars, Counted'
  PROVE  RingInv'
<1> USE DEF phoneVars, rtspVars, gateVars, timeVars, readerVars
<1>a. Counted /\ RingInv
  BY CaughtGrows
<1>b. ~Dirty => GateInv
  BY <1>a
<1>c. rtsp \in {"phase2", "armLate", "setAnchor"} \/ (rtsp = "idle" /\ phone = "play") => ~Dirty
  BY DEF Dirty, AnchorInv
<1>1. CASE Phase2
  <2>1. /\ UNCHANGED <<track, phone, caught, reader, frame>> /\ rtsp' \in {"setAnchor", "armLate"}
        /\ ring' = ring \/ ring' = {}
        /\ Of(req, track)
        /\ ring # {} /\ Abs(Diff(Oldest, req)) > Threshold => ring' = {}
    BY <1>1 DEF Phase2, AnchorInv, Handling
  <2>2. Left' = {}
    BY <2>1, LeftIsFar DEF Left, New
  <2> QED
    BY <2>1, <2>2 DEF RingInv
<1>2. CASE ArmLate
  <2>1. UNCHANGED <<track, phone, ring, reader, frame, stale>> /\ rtsp = "armLate" /\ rtsp' = "setAnchor"
        /\ caught \subseteq caught'
    BY <1>2 DEF ArmLate, ArmGates
  <2>2. Left' = Left /\ (Leaving' <=> Leaving)
    BY <2>1 DEF Left, Leaving, New
  <2> QED
    BY <1>a, <2>1, <2>2 DEF RingInv
<1>3. CASE SetAnchor
  <2>1. UNCHANGED <<track, phone, ring, reader, frame, caught>> /\ rtsp = "setAnchor" /\ rtsp' = "idle"
        /\ stale' = Cardinality({p \in ring : Behind(p)})
    BY <1>3 DEF SetAnchor
  <2>2. {p \in ring : Behind(p)} = Left
    <3>1. track \in Bases /\ \A p \in ring : p \in Sent
      BY DEF PhoneInv
    <3>2. \A p \in ring : Behind(p) <=> ~New(p)
      BY <3>1, BehindIsBefore
    <3> QED
      BY <3>2 DEF Left
  <2>3. (\A p, q \in Left : p = q) /\ (Left # {} => "accepted" \in caught /\ ~Leaving)
    BY <1>a, <2>1 DEF RingInv
  <2>4. Leaving' <=> Leaving
    BY <2>1 DEF Leaving, New
  <2>5. CASE Left = {}
    <3>1. stale' = 0
      BY <2>1, <2>2, <2>5, FS_EmptySet
    <3> QED
      BY <2>1, <3>1 DEF RingInv
  <2>6. CASE Left # {}
    <3>1. PICK p : Left = {p}
      BY <2>3, <2>6
    <3>2. stale' = 1
      BY <2>1, <2>2, <3>1, FS_Singleton
    <3> QED
      BY <2>1, <2>3, <2>4, <2>6, <3>2 DEF RingInv
  <2> QED
    BY <2>5, <2>6
<1>4. CASE Reader
  <2> SUFFICES ASSUME rtsp' \in {"armLate", "setAnchor"} \/ (rtsp' = "idle" /\ phone' = "play")
               PROVE  RingInv'
    BY DEF RingInv
  <2>1. UNCHANGED <<track, rtsp, phone, caught>>
    BY <1>4 DEF Reader, TakeFrame, TestBefore, DisarmBefore, TestAbove, DisarmAbove, Recheck, Queue, Reads
  <2>2. GateInv
    BY <1>b, <1>c, <2>1
  <2>3. (Leaving' => Leaving) /\ (Queue \/ UNCHANGED <<ring, stale>>)
    BY <1>4, <2>2, ReaderLeavesNothing
  <2>4. CASE UNCHANGED <<ring, stale>>
    <3>1. Left' = Left
      BY <2>1, <2>4 DEF Left, New
    <3> QED
      BY <1>a, <2>1, <2>3, <2>4, <3>1 DEF RingInv
  <2>5. CASE Queue
    <3>1. /\ reader = "queue" /\ ring' = ring \cup {frame} /\ reader' = "idle"
          /\ stale' = IF Behind(frame) /\ stale < MaxFrames THEN stale + 1 ELSE stale
      BY <2>5 DEF Queue, Reads
    <3>2. ~Leaving'
      BY <3>1 DEF Leaving
    <3>3. Behind(frame) => Leaving
      <4>1. track \in Bases /\ frame \in Sent
        BY DEF PhoneInv
      <4> QED
        BY <3>1, <4>1, BehindIsBefore DEF Leaving
    <3>4. Leaving => "accepted" \in caught
      BY <2>2 DEF GateInv
    <3>5. CASE ~Leaving
      <4>1. Left' = Left
        BY <2>1, <3>1, <3>5 DEF Left, Leaving, New
      <4>2. stale' = stale
        BY <3>1, <3>3, <3>5
      <4> QED
        BY <1>a, <2>1, <3>2, <4>1, <4>2 DEF RingInv
    <3>6. CASE Leaving
      <4>1. rtsp' \in {"armLate", "setAnchor"} => Left = {} /\ Left' = {frame}
        <5>1. rtsp' \in {"armLate", "setAnchor"} => Left = {}
          BY <1>a, <2>1, <3>6 DEF RingInv
        <5>2. Left = {} => Left' = {frame}
          BY <2>1, <3>1, <3>6 DEF Left, Leaving, New
        <5> QED
          BY <5>1, <5>2
      <4>2. rtsp' = "idle" /\ phone' = "play" => stale = 0 /\ stale' \in 0 .. 1
        <5>1. rtsp' = "idle" /\ phone' = "play" => stale = 0
          BY <1>a, <2>1, <3>6 DEF RingInv
        <5> QED
          BY <3>1, <5>1
      <4> QED
        BY <2>1, <3>2, <3>4, <3>6, <4>1, <4>2 DEF RingInv
    <3> QED
      BY <3>5, <3>6
  <2> QED
    BY <2>3, <2>4, <2>5
<1>5. CASE Play
  <2>1. UNCHANGED <<track, phone, rtsp, reader, frame, stale, caught>> /\ ring' \subseteq ring
    BY <1>5 DEF Play
  <2>2. Left' \subseteq Left /\ (Leaving' <=> Leaving)
    BY <2>1 DEF Left, Leaving, New
  <2> QED
    BY <1>a, <2>1, <2>2 DEF RingInv
<1>6. CASE ~(Phase2 \/ ArmLate \/ SetAnchor \/ Reader \/ Play)
  <2>1. \/ UNCHANGED <<track, phone, rtsp, ring, reader, frame, stale, caught>>
        \/ rtsp' \notin {"armLate", "setAnchor"} /\ ~(rtsp' = "idle" /\ phone' = "play")
    <3>1. CASE Send \/ Seek \/ Skip \/ SendAnchor \/ Pause \/ TeardownStreams \/ UNCHANGED vars
      BY <3>1 DEF Send, Seek, Skip, NewTrack, SendAnchor, Pause, TeardownStreams, vars
    <3>2. CASE Tick
      BY <3>2 DEF Tick
    <3>3. CASE FlushRing \/ FlushGates \/ CloseBlanket \/ PathA \/ PathB \/ ArmB \/ OpenBlanket
      BY <3>3 DEF FlushRing, FlushGates, CloseBlanket, PathA, PathB, ArmB, OpenBlanket, AnchorInv
    <3> QED
      BY <1>6, <3>1, <3>2, <3>3 DEF Next, Rtsp
  <2>2. UNCHANGED <<track, ring, reader, frame>> => Left' = Left /\ (Leaving' <=> Leaving)
    BY DEF Left, Leaving, New
  <2>3. CASE UNCHANGED <<track, phone, rtsp, ring, reader, frame, stale, caught>>
    BY <1>a, <2>2, <2>3 DEF RingInv
  <2>4. CASE rtsp' \notin {"armLate", "setAnchor"} /\ ~(rtsp' = "idle" /\ phone' = "play")
    BY <2>4 DEF RingInv
  <2> QED
    BY <2>1, <2>3, <2>4
<1> QED
  BY <1>1, <1>2, <1>3, <1>4, <1>5, <1>6

-----------------------------------------------------------------------------
(* All together.                                                           *)

LEMMA InitSeekInv == Init => SeekInv
<1> SUFFICES ASSUME Init PROVE SeekInv
  OBVIOUS
<1>1. PhoneInv /\ AnchorInv
  BY InitPhone
<1>2. wire = <<>> /\ Len(wire) = 0 /\ rtsp = "idle" /\ reader = "idle" /\ stale = 0 /\ caught = {} /\ before = Off
  BY DEF Init
<1>3. WireInv
  BY <1>2 DEF WireInv
<1>4. StopInv /\ GateInv /\ RingInv
  BY <1>2 DEF StopInv, GateInv, RingInv, Leaving
<1> QED
  BY <1>1, <1>2, <1>3, <1>4 DEF SeekInv

LEMMA NextSeekInv == SeekInv /\ [Next]_vars => SeekInv'
<1> SUFFICES ASSUME SeekInv, [Next]_vars PROVE SeekInv'
  OBVIOUS
<1>1. PhoneInv /\ WireInv /\ AnchorInv /\ StopInv
  BY DEF SeekInv
<1>2. (Counted /\ ~Dirty => GateInv) /\ (Counted => RingInv)
  BY DEF SeekInv
<1>3. PhoneInv' /\ AnchorInv'
  BY <1>1, NextPhone
<1>4. WireInv' /\ StopInv'
  BY <1>1, NextWire, NextStop
<1>5. caught' \subseteq {"atGates", "accepted", "crossed"}
  <2>1. caught' = caught \/ ArmGates
    BY DEF Next, vars, Rtsp, Reader, Send, Seek, Skip, NewTrack, SendAnchor, Tick, Pause,
           TeardownStreams, FlushRing, FlushGates, CloseBlanket, PathA, PathB, ArmB, OpenBlanket,
           Phase2, ArmLate, SetAnchor, TakeFrame, TestBefore, DisarmBefore, TestAbove,
           DisarmAbove, Recheck, Queue, Reads, Play
  <2> QED
    BY <2>1 DEF SeekInv, ArmGates
<1>6. Counted' /\ ~Dirty' => GateInv'
  BY <1>1, <1>2, NextGate
<1>7. Counted' => RingInv'
  BY <1>1, <1>2, NextRing
<1> QED
  BY <1>3, <1>4, <1>5, <1>6, <1>7 DEF SeekInv

LEMMA SeekInvKeepsOut == SeekInv => BacklogStaysOut
<1> SUFFICES ASSUME SeekInv, Anchored, Counted
             PROVE  stale <= Cardinality(caught \cap {"accepted"})
  BY DEF BacklogStaysOut, Counted
<1>1. stale \in 0 .. 1 /\ (stale = 1 => "accepted" \in caught)
  BY DEF SeekInv, RingInv, Anchored
<1>2. CASE "accepted" \in caught
  <2>1. caught \cap {"accepted"} = {"accepted"}
    BY <1>2
  <2>2. Cardinality(caught \cap {"accepted"}) = 1
    BY <2>1, FS_Singleton
  <2> QED
    BY <1>1, <2>2
<1>3. CASE "accepted" \notin caught
  <2>1. caught \cap {"accepted"} = {}
    BY <1>3
  <2>2. Cardinality(caught \cap {"accepted"}) = 0
    BY <2>1, FS_EmptySet
  <2> QED
    BY <1>1, <1>3, <2>2
<1> QED
  BY <1>2, <1>3

(* Once the anchor of a track is in force, nothing the listener left behind *)
(* by seeking forwards is in the ring or enters it, but for the one frame   *)
(* that was past its last test when audio_receiver.c armed the gates.       *)
THEOREM BacklogIsKeptOut == Spec => []BacklogStaysOut
<1>1. Init => SeekInv
  BY InitSeekInv
<1>2. SeekInv /\ [Next]_vars => SeekInv'
  BY NextSeekInv
<1>3. SeekInv => BacklogStaysOut
  BY SeekInvKeepsOut
<1> QED
  BY <1>1, <1>2, <1>3, PTL DEF Spec
=============================================================================
