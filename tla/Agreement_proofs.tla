-------------------------- MODULE Agreement_proofs --------------------------
(***************************************************************************)
(* Proofs about what the parts of one session agree on.  The two clocks,   *)
(* NtpClock and PtpClock: the offset in use was measured from the sender   *)
(* it is used for; they hold for every delay, length of history, threshold *)
(* and divisor, and for every number of starts, stops, resets and steps.   *)
(* The session, RtspSession: what it shows is what it plays, for every     *)
(* number of requests and connections.  The volume, Volume: its copies are *)
(* one value at rest, for every set of levels and number of requests.  The *)
(* amplifiers, Dacs: their chips run what was saved and set, for all gains,*)
(* corners, offsets and volumes and any number of orders and power cuts.   *)
(* The display, NowPlaying: it shows what it was told and a position that  *)
(* is the phone's to a second, for every track, report and drawing.        *)
(***************************************************************************)
EXTENDS NtpClock, PtpClock, RtspSession, Volume, Dacs, NowPlaying, NatLemmas, SequenceTheorems

-----------------------------------------------------------------------------
(* The fields the offset comes from.  Whether the clock is locked does not *)
(* matter to them.                                                         *)
Measurement(n, i) ==
  /\ n.off[i] - Ahead(n.to) >= -1 - n.disp[i]
  /\ n.off[i] - Ahead(n.to) <= 1 + n.disp[i]

Typed(n) ==
  /\ n = [run |-> n.run, to |-> n.to, locked |-> n.locked, offset |-> n.offset,
          off |-> n.off, disp |-> n.disp, count |-> n.count, index |-> n.index]
  /\ n.to \in Int /\ n.offset \in Int
  /\ n.off \in [Slots -> Int] /\ n.disp \in [Slots -> Nat]
  /\ n.count \in 0 .. History /\ n.index \in Slots

(* Of the history, the slots below the index are measured, all of them     *)
(* once the index has come around; the count never claims more.            *)
History0(n) ==
  /\ \A i \in Slots : i < n.index => Measurement(n, i)
  /\ n.count <= n.index \/ \A i \in Slots : Measurement(n, i)
  /\ n.count > 0 => \E i \in Slots : n.offset = n.off[i] /\ Measurement(n, i)

IInv == Typed(ntp) /\ History0(ntp) /\ starter.to \in Senders \cup {0}

LEMMA BestIsOne ==
  ASSUME NEW n, Typed(n), n.count > 0, NEW d \in Nat, NEW o \in Int
  PROVE  Best(n, o, d) = o \/ \E i \in 0 .. n.count - 1 : Best(n, o, d) = n.off[i]
<1> DEFINE near == {i \in 0 .. (n.count - 1) : n.disp[i] < d}
           First(i) == \A j \in near : n.disp[i] < n.disp[j] \/ (n.disp[i] = n.disp[j] /\ i <= j)
<1>1. /\ History \in Nat \ {0} /\ n.count \in 1 .. History
      /\ \A i \in 0 .. n.count - 1 : n.disp[i] \in Nat
  BY HistoryAssumption DEF Typed, Slots
<1>2. CASE near = {}
  BY <1>2 DEF Best
<1>3. CASE near # {}
  <2>1. near \in SUBSET Nat /\ \A i \in near : n.disp[i] \in Nat /\ i \in 0 .. n.count - 1
    BY <1>1
  <2>2. Best(n, o, d) = n.off[CHOOSE i \in near : First(i)]
    BY <1>3 DEF Best
  <2> HIDE DEF near
  <2> DEFINE T == {n.disp[i] : i \in near}
  <2>3. T \in SUBSET Nat /\ T # {}
    BY <1>3, <2>1
  <2>4. PICK m \in T : \A k \in T : m <= k
    BY <2>3, SmallestNat
  <2> DEFINE U == {i \in near : n.disp[i] = m}
  <2>5. U \in SUBSET Nat /\ U # {}
    BY <2>1, <2>4
  <2>6. PICK i \in U : \A j \in U : i <= j
    BY <2>5, SmallestNat
  <2>7. i \in near /\ First(i)
    <3> SUFFICES ASSUME NEW j \in near
                 PROVE  n.disp[i] < n.disp[j] \/ (n.disp[i] = n.disp[j] /\ i <= j)
      BY <2>6
    <3>1. n.disp[i] = m /\ n.disp[j] \in T /\ n.disp[j] \in Nat /\ m \in Nat
      BY <2>1, <2>3, <2>6
    <3>2. m <= n.disp[j]
      BY <2>4, <3>1
    <3>3. CASE n.disp[j] = m
      BY <2>6, <3>1, <3>3
    <3>4. CASE n.disp[j] # m
      BY <3>1, <3>2, <3>4
    <3> QED
      BY <3>3, <3>4
  <2> HIDE DEF First
  <2>8. (CHOOSE k \in near : First(k)) \in near
    BY <2>7
  <2> QED
    BY <2>1, <2>2, <2>8
<1> QED
  BY <1>2, <1>3

(* The stores of process_timing_response, field by field.                  *)
LEMMA Stored ==
  ASSUME NEW r, NEW t, NEW l, NEW f, NEW o, NEW d, NEW c, NEW x,
         NEW on, NEW dn, NEW cn, NEW xn, NEW p
  PROVE  LET n == [run |-> r, to |-> t, locked |-> l, offset |-> f,
                   off |-> o, disp |-> d, count |-> c, index |-> x]
         IN  [n EXCEPT !.off[p] = on, !.disp[p] = dn, !.index = xn, !.count = cn] =
             [run |-> r, to |-> t, locked |-> l, offset |-> f, off |-> [o EXCEPT ![p] = on],
              disp |-> [d EXCEPT ![p] = dn], count |-> cn, index |-> xn]
<1> DEFINE n == [run |-> r, to |-> t, locked |-> l, offset |-> f,
                 off |-> o, disp |-> d, count |-> c, index |-> x]
           eo == [o EXCEPT ![p] = on]
           ed == [d EXCEPT ![p] = dn]
<1>1. n.off = o /\ n.disp = d
  OBVIOUS
<1>2. PICK uo, ud : uo = eo /\ ud = ed
  OBVIOUS
<1>3. [n EXCEPT !.off = uo] = [run |-> r, to |-> t, locked |-> l, offset |-> f,
                               off |-> uo, disp |-> d, count |-> c, index |-> x]
  OBVIOUS
<1> DEFINE m == [run |-> r, to |-> t, locked |-> l, offset |-> f,
                 off |-> uo, disp |-> d, count |-> c, index |-> x]
<1>4. m.disp = d
  OBVIOUS
<1> DEFINE m1 == [run |-> r, to |-> t, locked |-> l, offset |-> f,
                  off |-> uo, disp |-> ud, count |-> c, index |-> x]
           m2 == [run |-> r, to |-> t, locked |-> l, offset |-> f,
                  off |-> uo, disp |-> ud, count |-> c, index |-> xn]
           m3 == [run |-> r, to |-> t, locked |-> l, offset |-> f,
                  off |-> uo, disp |-> ud, count |-> cn, index |-> xn]
<1>5. [[[m EXCEPT !.disp = ud] EXCEPT !.index = xn] EXCEPT !.count = cn] = m3
  <2>1. [m EXCEPT !.disp = ud] = m1
    OBVIOUS
  <2>2. [m1 EXCEPT !.index = xn] = m2
    OBVIOUS
  <2>3. [m2 EXCEPT !.count = cn] = m3
    OBVIOUS
  <2> HIDE DEF m, m1, m2, m3
  <2> QED
    BY <2>1, <2>2, <2>3
<1>6. [n EXCEPT !.off[p] = on, !.disp[p] = dn, !.index = xn, !.count = cn] =
      [[[m EXCEPT !.disp = ud] EXCEPT !.index = xn] EXCEPT !.count = cn]
  <2> HIDE DEF n, m
  <2>1. [n EXCEPT !.off = [@ EXCEPT ![p] = on]] = m
    BY <1>1, <1>2, <1>3 DEF m
  <2> QED
    BY <1>2, <1>4, <2>1
<1> QED
  BY <1>2, <1>5, <1>6

(* What the measurement n makes of the history when a packet is answered.  *)
LEMMA AnswerKeeps ==
  ASSUME Typed(ntp), History0(ntp), NEW o \in 0 .. MaxDelay, NEW b \in 0 .. MaxDelay,
         Response(o, b)
  PROVE  Typed(ntp') /\ History0(ntp')
<1> DEFINE off == Ahead(ntp.to) + (o + b) \div 2 - b
           disp == (o + b) \div 2
           count == IF ntp.count < History THEN ntp.count + 1 ELSE ntp.count
           index == (ntp.index + 1) % History
           n == [ntp EXCEPT !.off[ntp.index] = off, !.disp[ntp.index] = disp,
                            !.index = (@ + 1) % History,
                            !.count = IF @ < History THEN @ + 1 ELSE @]
<1>0. History \in Nat \ {0} /\ MaxDelay \in Nat /\ Slots = 0 .. History - 1
  BY HistoryAssumption DEF Slots
<1>1. CASE o + b > Limit
  BY <1>1 DEF Response
<1>2. CASE ~(o + b > Limit)
  <2>1. /\ off \in Int /\ disp \in Nat
        /\ off - Ahead(ntp.to) >= -1 - disp /\ off - Ahead(ntp.to) <= 1 + disp
    <3>1. o \in Nat /\ b \in Nat /\ Ahead(ntp.to) \in Int
      BY <1>0 DEF Typed, Ahead
    <3>2. disp \in Nat /\ 2 * disp <= o + b /\ o + b <= 2 * disp + 1
      BY <3>1
    <3>3. off = Ahead(ntp.to) + disp - b
      OBVIOUS
    <3> HIDE DEF off, disp
    <3> QED
      BY <3>1, <3>2, <3>3
  <2>2. count \in 1 .. History /\ index \in Slots
    <3>1. ntp.count \in 0 .. History /\ ntp.index \in 0 .. History - 1
      BY <1>0 DEF Typed
    <3>2. index = IF ntp.index + 1 = History THEN 0 ELSE ntp.index + 1
      BY <1>0, <3>1, NextIndex
    <3>3. index \in 0 .. History - 1
      <4> HIDE DEF index
      <4> QED
        BY <1>0, <3>1, <3>2
    <3>4. count \in 1 .. History
      BY <1>0, <3>1
    <3> QED
      BY <1>0, <3>3, <3>4
  <2>3. /\ index = ntp.index + 1 \/ (index = 0 /\ ntp.index = History - 1)
    <3>1. ntp.index \in 0 .. History - 1
      BY <1>0 DEF Typed
    <3>2. index = IF ntp.index + 1 = History THEN 0 ELSE ntp.index + 1
      BY <1>0, <3>1, NextIndex
    <3> HIDE DEF index
    <3> QED
      BY <1>0, <3>1, <3>2
  <2>4. ntp' = [n EXCEPT !.offset = Best(n, off, disp),
                         !.locked = @ \/ n.count >= MinMeasurements]
    BY <1>2 DEF Response
  <2> HIDE DEF off, disp, count, index
  <2> DEFINE no == [ntp.off EXCEPT ![ntp.index] = off]
             nd == [ntp.disp EXCEPT ![ntp.index] = disp]
  <2>5. n = [run |-> ntp.run, to |-> ntp.to, locked |-> ntp.locked, offset |-> ntp.offset,
             off |-> no, disp |-> nd, count |-> count, index |-> index]
    <3>1. PICK r, t, l, f, oo, d, c, x :
            ntp = [run |-> r, to |-> t, locked |-> l, offset |-> f,
                   off |-> oo, disp |-> d, count |-> c, index |-> x]
      BY DEF Typed
    <3>2. /\ ntp.run = r /\ ntp.to = t /\ ntp.locked = l /\ ntp.offset = f
          /\ ntp.off = oo /\ ntp.disp = d /\ ntp.count = c /\ ntp.index = x
      BY <3>1
    <3>3. n = [ntp EXCEPT !.off[x] = off, !.disp[x] = disp, !.index = index, !.count = count]
      BY <3>2 DEF index, count
    <3> HIDE DEF n
    <3> QED
      BY <3>1, <3>2, <3>3, Stored
  <2>6. /\ no \in [Slots -> Int] /\ nd \in [Slots -> Nat]
        /\ no[ntp.index] = off /\ nd[ntp.index] = disp
        /\ \A i \in Slots : i # ntp.index => no[i] = ntp.off[i] /\ nd[i] = ntp.disp[i]
    BY <2>1 DEF Typed
  <2> HIDE DEF n, no, nd
  <2>7. Typed(n) /\ n.to = ntp.to /\ n.off = no /\ n.disp = nd /\ n.count = count /\ n.index = index
    BY <2>2, <2>5, <2>6 DEF Typed
  <2>8. Measurement(n, ntp.index)
    BY <2>1, <2>6, <2>7 DEF Measurement
  <2>9. \A i \in Slots : Measurement(ntp, i) => Measurement(n, i)
    <3> SUFFICES ASSUME NEW i \in Slots, Measurement(ntp, i) PROVE Measurement(n, i)
      OBVIOUS
    <3>1. CASE i = ntp.index
      BY <2>8, <3>1
    <3>2. CASE i # ntp.index
      BY <2>6, <2>7, <3>2 DEF Measurement
    <3> QED
      BY <3>1, <3>2
  <2>10. \A i \in Slots : i < index => Measurement(n, i)
    <3> SUFFICES ASSUME NEW i \in Slots, i < index PROVE Measurement(n, i)
      OBVIOUS
    <3>1. ntp.index \in Slots /\ i \in Int /\ ntp.index \in Int
      BY <1>0 DEF Typed
    <3>2. i < ntp.index \/ i = ntp.index
      BY <1>0, <2>3, <3>1
    <3> QED
      BY <2>8, <2>9, <3>2 DEF History0
  <2>11. count <= index \/ \A i \in Slots : Measurement(n, i)
    <3>1. CASE \A i \in Slots : Measurement(ntp, i)
      BY <2>9, <3>1
    <3>2. CASE ntp.count <= ntp.index /\ index = ntp.index + 1
      BY <1>0, <3>2 DEF count, Typed
    <3>3. CASE ntp.index = History - 1
      <4> SUFFICES ASSUME NEW i \in Slots PROVE Measurement(n, i)
        OBVIOUS
      <4>1. i < ntp.index \/ i = ntp.index
        BY <1>0, <3>3
      <4> QED
        BY <2>8, <2>9, <4>1 DEF History0
    <3> QED
      BY <2>3, <3>1, <3>2, <3>3 DEF History0
  <2>12. \E i \in Slots : Best(n, off, disp) = n.off[i] /\ Measurement(n, i)
    <3>1. CASE Best(n, off, disp) = off
      <4>1. ntp.index \in Slots
        BY DEF Typed
      <4> QED
        BY <2>6, <2>7, <2>8, <3>1, <4>1
    <3>2. CASE \E i \in 0 .. n.count - 1 : Best(n, off, disp) = n.off[i]
      <4>1. PICK i \in 0 .. n.count - 1 : Best(n, off, disp) = n.off[i]
        BY <3>2
      <4>2. i \in Slots /\ i < count
        BY <1>0, <2>2, <2>7, <4>1
      <4>3. Measurement(n, i)
        BY <1>0, <2>2, <2>10, <2>11, <4>2
      <4> QED
        BY <4>1, <4>2, <4>3
    <3>3. n.count > 0
      BY <2>2, <2>7
    <3> QED
      BY <2>1, <2>7, <3>1, <3>2, <3>3, BestIsOne
  <2> DEFINE best == Best(n, off, disp)
             lock == n.locked \/ n.count >= MinMeasurements
  <2>13. best \in Int
    BY <2>6, <2>7, <2>12
  <2>14. ntp' = [n EXCEPT !.offset = best, !.locked = lock]
    BY <2>4
  <2> HIDE DEF best, lock
  <2>15. ntp' = [run |-> n.run, to |-> n.to, locked |-> lock, offset |-> best,
                 off |-> n.off, disp |-> n.disp, count |-> n.count, index |-> n.index]
    BY <2>7, <2>14 DEF Typed
  <2>16. Typed(ntp')
    BY <2>7, <2>13, <2>15 DEF Typed
  <2>17. \A i \in Slots : Measurement(ntp', i) <=> Measurement(n, i)
    BY <2>15 DEF Measurement
  <2>18. History0(ntp')
    BY <2>7, <2>10, <2>11, <2>12, <2>15, <2>17 DEF History0, best
  <2> QED
    BY <2>16, <2>18
<1> QED
  BY <1>1, <1>2

(* Starts and stops forget the measurements or zero them; a sender that is *)
(* addressed with a history that is not its own does not happen.           *)
LEMMA ForgottenKeeps ==
  ASSUME Typed(ntp), History0(ntp), NEW r,
         ntp' = [ntp EXCEPT !.run = r] \/ ntp' = Forgotten(ntp)
  PROVE  Typed(ntp') /\ History0(ntp')
<1>1. ntp' = [run |-> ntp'.run, to |-> ntp.to, locked |-> ntp'.locked, offset |-> ntp.offset,
              off |-> ntp.off, disp |-> ntp.disp, count |-> ntp'.count, index |-> ntp.index]
      /\ ntp'.count \in {0, ntp.count}
  <2>1. PICK q, t, l, f, o, d, c, x :
          ntp = [run |-> q, to |-> t, locked |-> l, offset |-> f,
                 off |-> o, disp |-> d, count |-> c, index |-> x]
    BY DEF Typed
  <2>2. CASE ntp' = [ntp EXCEPT !.run = r]
    <3>1. ntp' = [run |-> r, to |-> t, locked |-> l, offset |-> f,
                  off |-> o, disp |-> d, count |-> c, index |-> x]
      BY <2>1, <2>2
    <3> QED
      BY <2>1, <3>1
  <2>3. CASE ntp' = Forgotten(ntp)
    <3>1. ntp' = [run |-> q, to |-> t, locked |-> FALSE, offset |-> f,
                  off |-> o, disp |-> d, count |-> 0, index |-> x]
      BY <2>1, <2>3 DEF Forgotten
    <3> QED
      BY <2>1, <3>1
  <2> QED
    BY <2>2, <2>3
<1>2. /\ ntp'.to = ntp.to /\ ntp'.offset = ntp.offset /\ ntp'.off = ntp.off
      /\ ntp'.disp = ntp.disp /\ ntp'.index = ntp.index
  BY <1>1
<1>3. History \in Nat \ {0} /\ ntp.index \in Slots /\ Slots = 0 .. History - 1
  BY HistoryAssumption DEF Typed, Slots
<1>4. Typed(ntp')
  BY <1>1, <1>2, <1>3 DEF Typed
<1>5. \A i \in Slots : Measurement(ntp', i) <=> Measurement(ntp, i)
  BY <1>2 DEF Measurement
<1>6. History0(ntp')
  BY <1>1, <1>2, <1>3, <1>5 DEF History0
<1> QED
  BY <1>4, <1>6

LEMMA FreshKeeps ==
  ASSUME Typed(ntp), NEW t \in Int, ntp' = Fresh(t)
  PROVE  Typed(ntp') /\ History0(ntp')
<1>1. ntp' = [run |-> TRUE, to |-> t, locked |-> FALSE, offset |-> 0,
              off |-> Zeroed, disp |-> Zeroed, count |-> 0, index |-> 0]
  BY DEF Typed, Fresh
<1>2. History \in Nat \ {0} /\ Slots = 0 .. History - 1 /\ Zeroed \in [Slots -> Nat]
  BY HistoryAssumption DEF Slots, Zeroed
<1>3. Typed(ntp')
  BY <1>1, <1>2 DEF Typed
<1>4. History0(ntp')
  BY <1>1, <1>2 DEF History0
<1> QED
  BY <1>3, <1>4

LEMMA InitIInv == Init => IInv
<1> SUFFICES ASSUME Init PROVE IInv
  OBVIOUS
<1>1. ntp = [run |-> FALSE, to |-> 0, locked |-> FALSE, offset |-> 0,
             off |-> Zeroed, disp |-> Zeroed, count |-> 0, index |-> 0]
  BY DEF Init
<1>2. History \in Nat \ {0} /\ Slots = 0 .. History - 1 /\ Zeroed \in [Slots -> Nat]
  BY HistoryAssumption DEF Slots, Zeroed
<1>3. Typed(ntp)
  BY <1>1, <1>2 DEF Typed
<1>4. History0(ntp)
  BY <1>1, <1>2 DEF History0
<1> QED
  BY <1>3, <1>4 DEF Init, NoStart, IInv, Senders

LEMMA NextIInv == IInv /\ [Next]_vars => IInv'
<1> SUFFICES ASSUME IInv, [Next]_vars PROVE IInv'
  OBVIOUS
<1> USE DEF IInv
<1>0. (Typed(ntp) /\ History0(ntp))' <=> Typed(ntp') /\ History0(ntp')
  BY DEF Typed, History0, Measurement
<1>1. ASSUME UNCHANGED <<ntp, starter>> PROVE IInv'
  BY <1>1 DEF Typed, History0, Measurement
<1>2. ASSUME StopBegin PROVE IInv'
  BY <1>0, <1>2, ForgottenKeeps DEF StopBegin
<1>3. ASSUME StopEnd PROVE IInv'
  BY <1>0, <1>3, ForgottenKeeps DEF StopEnd
<1>4. ASSUME NEW t \in Senders, StartBegin(t) PROVE IInv'
  <2>1. starter' = starter \/ starter'.to = t
    BY <1>4 DEF StartBegin
  <2>2. ntp' = ntp \/ ntp' = [ntp EXCEPT !.run = FALSE]
    BY <1>4 DEF StartBegin
  <2>3. CASE ntp' = ntp
    BY <2>1, <2>3 DEF Typed, History0, Measurement
  <2>4. CASE ntp' = [ntp EXCEPT !.run = FALSE]
    BY <1>0, <2>1, <2>4, ForgottenKeeps
  <2> QED
    BY <2>2, <2>3, <2>4
<1>5. ASSUME StartStopped PROVE IInv'
  <2>1. starter'.to = starter.to
    BY <1>5 DEF StartStopped
  <2> QED
    BY <1>0, <1>5, <2>1, ForgottenKeeps DEF StartStopped
<1>6. ASSUME StartGo PROVE IInv'
  <2>1. PICK t \in Senders \cup {0} : t = starter.to /\ ntp' = Fresh(t)
    BY <1>6 DEF StartGo
  <2>2. t \in Int
    BY DEF Senders
  <2> QED
    BY <1>0, <1>6, <2>1, <2>2, FreshKeeps DEF StartGo, NoStart
<1>7. ASSUME StartFails PROVE IInv'
  BY <1>7 DEF StartFails, NoStart, Typed, History0, Measurement
<1>8. ASSUME NEW o \in 0 .. MaxDelay, NEW b \in 0 .. MaxDelay, Response(o, b) PROVE IInv'
  BY <1>0, <1>8, AnswerKeeps DEF Response
<1>9. CASE UNCHANGED vars
  BY <1>1, <1>9 DEF vars
<1> QED
  BY <1>1, <1>2, <1>3, <1>4, <1>5, <1>6, <1>7, <1>8, <1>9
  DEF Next, TaskBegin, TaskEnd, Request, Lost

(* The offset a stream is played by comes from one measurement of the      *)
(* sender that is being served, and is off by no more than half of what    *)
(* its packets took: also when the stop of the client that leaves ends     *)
(* after the start of the one that comes and wipes the count, but not the  *)
(* index, of a history that is already being filled.                       *)
THEOREM OffsetIsMeasured == Spec => []OffsetMeasured
<1>1. IInv => OffsetMeasured
  <2> SUFFICES ASSUME IInv, ntp.count > 0
               PROVE  \E i \in Slots :
                        /\ ntp.offset = ntp.off[i]
                        /\ (ntp.offset - Ahead(ntp.to)) \in (-1 - ntp.disp[i])..(1 + ntp.disp[i])
    BY DEF OffsetMeasured
  <2>1. PICK i \in Slots : ntp.offset = ntp.off[i] /\ Measurement(ntp, i)
    BY DEF IInv, History0
  <2>2. ntp.disp[i] \in Nat /\ ntp.off[i] \in Int /\ Ahead(ntp.to) \in Int
    BY DEF IInv, Typed, Ahead
  <2> QED
    BY <2>1, <2>2 DEF Measurement
<1> QED
  BY <1>1, InitIInv, NextIInv, PTL DEF Spec

-----------------------------------------------------------------------------
(* PTP.  What was measured of a master lies within the delay of a SYNC.    *)
Measured(x, id) == x \in Int /\ Near(x, id)

Names == {"run", "expected", "locked", "cand", "since", "filtered", "samples", "prev", "tracked", "age", "awaiting", "sync"}
PtpFields(p) == DOMAIN p = Names /\ p.expected \in Masters \cup {0} /\ p.sync.d \in 0 .. Jitter

GhostFields == DOMAIN ghost = {"resets", "steps", "torn", "stepped"}

(* Two states of the clock with the same estimate.                         *)
SameEstimate(q, p) == /\ q.expected = p.expected /\ q.filtered = p.filtered /\ q.samples = p.samples
                      /\ q.prev = p.prev /\ q.tracked = p.tracked

(* What the filter holds: of a clock that tracks, the sample it filed last *)
(* and its offset are the same, and both are measured of this master.      *)
Filtered(p, id) == /\ p.samples > 0 => Measured(p.filtered, id)
                   /\ p.tracked => Measured(p.filtered, id) /\ p.prev = p.filtered

PtpInv ==
  /\ PtpFields(ptp) /\ GhostFields
  /\ ahead \in [Masters -> Int]
  /\ pc = Idle \/ pc.at = "update"
  /\ Steady => /\ Filtered(ptp, ptp.expected)
               /\ pc.at = "update" => Measured(pc.x, ptp.expected)

(* A part of a distance is no longer than the distance.                    *)
LEMMA PartOf ==
  ASSUME NEW a \in Nat, NEW m \in Nat \ {0}
  PROVE  a \div m \in 0 .. a
<1> DEFINE q == a \div m
           r == a % m
<1>1. q \in Int /\ r \in 0 .. m - 1 /\ a = m * q + r
  BY SMTT(20)
<1> HIDE DEF q, r
<1>2. q >= 0
  <2>1. q <= -1 => m * q <= -m
    BY <1>1
  <2> QED
    BY <1>1, <2>1
<1>3. m * q >= q
  BY <1>1, <1>2
<1> QED
  BY <1>1, <1>2, <1>3 DEF q

(* The filter moves from the last sample towards the new one, never past   *)
(* it: between two bounds that hold both it stays.                         *)
LEMMA SmoothedBetween ==
  ASSUME NEW p, NEW x \in Int, NEW lo \in Int, NEW hi \in Int,
         lo <= x, x <= hi,
         p.tracked => p.prev \in Int /\ lo <= p.prev /\ p.prev <= hi
  PROVE  Smoothed(p, x) \in Int /\ lo <= Smoothed(p, x) /\ Smoothed(p, x) <= hi
<1>1. CASE ~p.tracked
  BY <1>1 DEF Smoothed
<1>2. CASE p.tracked
  <2> DEFINE j == x - p.prev
             down == Least(-j, NegClamp)
  <2>1. p.prev \in Int /\ j \in Int /\ lo <= p.prev /\ p.prev <= hi
    BY <1>2
  <2>2. CASE j >= 0
    <3>1. j \div PosDiv \in 0 .. j
      BY <2>1, <2>2, PartOf, FilterAssumption
    <3>2. Smoothed(p, x) = p.prev + j \/ Smoothed(p, x) = p.prev + (j \div PosDiv)
      BY <1>2, <2>2 DEF Smoothed
    <3> QED
      BY <2>1, <3>1, <3>2
  <2>3. CASE j < 0
    <3>1. down \in 0 .. -j
      BY <2>1, <2>3, FilterAssumption DEF Least
    <3>2. down \div NegDiv \in 0 .. down
      BY <3>1, PartOf, FilterAssumption
    <3>3. Smoothed(p, x) = p.prev - (down \div NegDiv)
      BY <1>2, <2>1, <2>3 DEF Smoothed
    <3> HIDE DEF down
    <3> QED
      BY <2>1, <3>1, <3>2, <3>3
  <2> QED
    BY <2>1, <2>2, <2>3
<1> QED
  BY <1>1, <1>2

(* The lock is all that Locked decides.                                    *)
LEMMA LockedKeeps ==
  ASSUME NEW p, PtpFields(p), NEW x
  PROVE  PtpFields(Locked(p, x)) /\ SameEstimate(Locked(p, x), p)
<1>1. \/ Locked(p, x) = p
      \/ \E v, w : Locked(p, x) = [p EXCEPT !.locked = v, !.cand = w]
      \/ \E w : Locked(p, x) = [p EXCEPT !.cand = w]
  <2>1. CASE p.samples < MinSamples
    BY <2>1 DEF Locked
  <2>2. CASE ~(p.samples < MinSamples)
    <3> DEFINE cand == IF p.cand = None THEN 0 ELSE p.cand
               near == Abs(x - p.filtered) < LockWithin
    <3>1. CASE near /\ ~p.locked /\ cand >= Stable
      BY <2>2, <3>1, Zenon DEF Locked
    <3>2. CASE near /\ ~p.locked /\ ~(cand >= Stable)
      BY <2>2, <3>2, Zenon DEF Locked
    <3>3. CASE near /\ p.locked
      BY <2>2, <3>3, Zenon DEF Locked
    <3>4. CASE ~near
      <4>1. Locked(p, x) = [p EXCEPT !.cand = None, !.locked = @ /\ Abs(x - p.filtered) <= 4 * LockWithin]
        BY <2>2, <3>4, Zenon DEF Locked
      <4>2. PICK v : v = (p.locked /\ Abs(x - p.filtered) <= 4 * LockWithin)
        OBVIOUS
      <4>3. Locked(p, x) = [p EXCEPT !.locked = v, !.cand = None]
        BY <4>1, <4>2
      <4> QED
        BY <4>3
    <3> QED
      BY <3>1, <3>2, <3>3, <3>4
  <2> QED
    BY <2>1, <2>2
<1> QED
  <2>1. CASE Locked(p, x) = p
    BY <2>1 DEF SameEstimate
  <2>2. CASE \E v, w : Locked(p, x) = [p EXCEPT !.locked = v, !.cand = w]
    <3>1. PICK v, w : Locked(p, x) = [p EXCEPT !.locked = v, !.cand = w]
      BY <2>2
    <3> QED
      BY <3>1 DEF PtpFields, Names, SameEstimate
  <2>3. CASE \E w : Locked(p, x) = [p EXCEPT !.cand = w]
    <3>1. PICK w : Locked(p, x) = [p EXCEPT !.cand = w]
      BY <2>3
    <3> QED
      BY <3>1 DEF PtpFields, Names, SameEstimate
  <2> QED
    BY <1>1, <2>1, <2>2, <2>3

(* A sample that was measured leaves the filter with what was measured.    *)
LEMMA UpdateKeeps ==
  ASSUME NEW p, PtpFields(p), NEW x
  PROVE  /\ PtpFields(Update(p, x)) /\ Update(p, x).expected = p.expected
         /\ \A id \in Masters : ahead \in [Masters -> Int] /\ Filtered(p, id) /\ Measured(x, id)
                                   => Filtered(Update(p, x), id)
<1> DEFINE q == [p EXCEPT !.since = 0, !.samples = Least(@ + 1, MinSamples)]
           s == Smoothed(q, x)
           age == IF q.tracked THEN q.age ELSE 0
           r == [q EXCEPT !.prev = s, !.filtered = s, !.tracked = TRUE, !.age = age]
<1>1. Update(p, x) = IF q.tracked /\ Abs(x - q.filtered) > Outlier THEN q ELSE Locked(r, x)
  BY Zenon DEF Update
<1>2. /\ PtpFields(q) /\ q.expected = p.expected /\ q.filtered = p.filtered
      /\ q.prev = p.prev /\ q.tracked = p.tracked
  BY DEF PtpFields, Names
<1> HIDE DEF q, s
<1>3. /\ PtpFields(r) /\ r.expected = q.expected /\ r.filtered = s
      /\ r.prev = s /\ r.tracked
  BY <1>2 DEF PtpFields, Names
<1> HIDE DEF r
<1>4. PtpFields(Locked(r, x)) /\ SameEstimate(Locked(r, x), r)
  BY <1>3, LockedKeeps
<1>5. PtpFields(Update(p, x)) /\ Update(p, x).expected = p.expected
  BY <1>1, <1>2, <1>3, <1>4 DEF SameEstimate
<1>6. ASSUME NEW id \in Masters, ahead \in [Masters -> Int], Filtered(p, id), Measured(x, id)
      PROVE  Filtered(Update(p, x), id)
  <2>1. CASE q.tracked /\ Abs(x - q.filtered) > Outlier
    BY <1>1, <1>2, <1>6, <2>1 DEF Filtered
  <2>2. CASE ~(q.tracked /\ Abs(x - q.filtered) > Outlier)
    <3>1. ahead[id] \in Int /\ Jitter \in Nat /\ ahead[id] - Jitter <= x /\ x <= ahead[id] /\ x \in Int
      BY <1>6, FilterAssumption DEF Measured, Near
    <3>2. q.tracked => q.prev \in Int /\ ahead[id] - Jitter <= q.prev /\ q.prev <= ahead[id]
      BY <1>2, <1>6 DEF Filtered, Measured, Near
    <3>3. PICK lo \in Int, hi \in Int : lo = ahead[id] - Jitter /\ hi = ahead[id]
      BY <3>1
    <3>4. Smoothed(q, x) \in Int /\ lo <= Smoothed(q, x) /\ Smoothed(q, x) <= hi
      BY <3>1, <3>2, <3>3, SmoothedBetween
    <3>5. Measured(s, id)
      BY <3>3, <3>4 DEF s, Measured, Near
    <3> QED
      BY <1>1, <1>3, <1>4, <2>2, <3>5 DEF Filtered, SameEstimate
  <2> QED
    BY <2>1, <2>2
<1> QED
  BY <1>5, <1>6

LEMMA InitPtpInv == PtpInit => PtpInv
<1> SUFFICES ASSUME PtpInit PROVE PtpInv
  OBVIOUS
<1>1. PtpFields(ptp)
  BY FilterAssumption DEF PtpInit, Cleared, PtpFields, Names
<1>2. GhostFields
  BY DEF PtpInit, GhostFields
<1>3. ahead \in [Masters -> Int]
  BY DEF PtpInit, Masters
<1>4. pc = Idle /\ ~Steady
  BY DEF PtpInit, Cleared, Steady
<1> QED
  BY <1>1, <1>2, <1>3, <1>4 DEF PtpInv

LEMMA NextPtpInv == PtpInv /\ [PtpNext]_ptpVars => PtpInv'
<1> SUFFICES ASSUME PtpInv, [PtpNext]_ptpVars PROVE PtpInv'
  OBVIOUS
<1> USE FilterAssumption
<1>1. /\ PtpFields(ptp) /\ GhostFields /\ ahead \in [Masters -> Int] /\ (pc = Idle \/ pc.at = "update")
      /\ Steady => Filtered(ptp, ptp.expected) /\ (pc.at = "update" => Measured(pc.x, ptp.expected))
  BY DEF PtpInv
<1>a. Steady => ptp.expected \in Masters
  BY <1>1 DEF Steady, PtpFields
<1>b. Idle.at # "update"
  BY DEF Idle
<1>2. ASSUME NEW m \in net.sync, NEW d \in 0 .. Jitter, NEW o \in BOOLEAN, Sync(m, d, o)
      PROVE  PtpInv'
  <2>1. CASE ~Heard(m.id)
    BY <1>1, <1>2, <2>1 DEF Sync, PtpInv, PtpFields, GhostFields, Steady, Filtered, Measured, Near
  <2>2. CASE Heard(m.id)
    <3>1. /\ ptp' = [ptp EXCEPT !.sync = [seq |-> m.seq, d |-> d], !.awaiting = ~o]
          /\ pc' = (IF o THEN [at |-> "update", x |-> ahead[m.id] - d] ELSE pc)
          /\ pc = Idle /\ ahead' = ahead /\ ghost' = ghost
      BY <1>2, <2>2 DEF Sync
    <3>2. PtpFields(ptp)' /\ ptp'.expected = ptp.expected /\ SameEstimate(ptp', ptp)
      <4>1. PICK w : w = ~o
        OBVIOUS
      <4>2. ptp' = [ptp EXCEPT !.sync = [seq |-> m.seq, d |-> d], !.awaiting = w]
        BY <3>1, <4>1
      <4> QED
        BY <1>1, <4>2 DEF PtpFields, Names, SameEstimate
    <3>3. pc' = Idle \/ pc'.at = "update"
      BY <3>1
    <3>4. Steady' => Steady
      BY <3>1, <3>2 DEF Steady
    <3>5. ASSUME Steady', pc'.at = "update" PROVE Measured(pc'.x, ptp.expected)
      <4>1. o /\ ptp.expected = m.id /\ m.id \in Masters
        BY <1>a, <1>b, <2>2, <3>1, <3>4, <3>5 DEF Heard, Steady
      <4>2. pc'.x = ahead[m.id] - d /\ ahead[m.id] \in Int
        BY <1>1, <3>1, <4>1
      <4> QED
        BY <4>1, <4>2 DEF Measured, Near
    <3> QED
      BY <1>1, <3>1, <3>2, <3>3, <3>4, <3>5
         DEF PtpInv, GhostFields, Steady, Filtered, Measured, Near, SameEstimate
  <2> QED
    BY <2>1, <2>2
<1>3. ASSUME NEW f \in net.follow, NEW a \in BOOLEAN, FollowUp(f, a)
      PROVE  PtpInv'
  <2>1. CASE ~(Heard(f.id) /\ ptp.awaiting /\ f.seq = ptp.sync.seq)
    BY <1>1, <1>3, <2>1 DEF FollowUp, PtpInv, PtpFields, GhostFields, Steady, Filtered, Measured, Near
  <2>2. CASE Heard(f.id) /\ ptp.awaiting /\ f.seq = ptp.sync.seq
    <3>1. /\ ptp' = [ptp EXCEPT !.awaiting = FALSE]
          /\ pc' = [at |-> "update", x |-> ahead[f.id] - ptp.sync.d]
          /\ ahead' = ahead /\ ghost' = ghost
      BY <1>3, <2>2 DEF FollowUp
    <3>2. PtpFields(ptp)' /\ SameEstimate(ptp', ptp)
      BY <1>1, <3>1 DEF PtpFields, Names, SameEstimate
    <3>4. Steady' => Steady
      BY <3>1, <3>2 DEF Steady, SameEstimate
    <3>5. ASSUME Steady' PROVE Measured(pc'.x, ptp.expected)
      <4>1. ptp.expected = f.id /\ f.id \in Masters
        BY <1>a, <2>2, <3>4, <3>5 DEF Heard, Steady
      <4>2. pc'.x = ahead[f.id] - ptp.sync.d /\ ahead[f.id] \in Int /\ ptp.sync.d \in 0 .. Jitter
        BY <1>1, <3>1, <4>1 DEF PtpFields
      <4> QED
        BY <4>1, <4>2 DEF Measured, Near
    <3> QED
      BY <1>1, <3>1, <3>2, <3>4, <3>5
         DEF PtpInv, GhostFields, Steady, Filtered, Measured, Near, SameEstimate
  <2> QED
    BY <2>1, <2>2
<1>4. ASSUME File
      PROVE  PtpInv'
  <2>1. pc.at = "update" /\ pc' = Idle /\ ptp' = Update(ptp, pc.x) /\ ahead' = ahead /\ ghost' = ghost
    BY <1>4 DEF File
  <2>2. PICK p, x : p = ptp /\ x = pc.x
    OBVIOUS
  <2>3. PtpFields(ptp)' /\ ptp'.expected = ptp.expected
    BY <1>1, <2>1, <2>2, UpdateKeeps DEF PtpFields
  <2>4. ASSUME Steady PROVE Filtered(ptp', ptp.expected)
    BY <1>1, <1>a, <2>1, <2>2, <2>4, UpdateKeeps
  <2>5. Steady' => Steady
    BY <2>1, <2>3 DEF Steady
  <2> QED
    BY <1>1, <1>b, <2>1, <2>3, <2>4, <2>5 DEF PtpInv, GhostFields, Steady, Filtered, Measured, Near
<1>5. ASSUME NEW id \in Masters, SetMaster(id)
      PROVE  PtpInv'
  <2>1. PtpFields(ptp)' /\ ~ptp'.tracked /\ ptp'.samples = 0
    BY <1>1, <1>5 DEF SetMaster, PtpFields, Names
  <2>2. GhostFields' /\ (ghost'.torn <=> pc # Idle)
    <3>1. PICK t : t = (pc # Idle)
      OBVIOUS
    <3>2. ghost' = [ghost EXCEPT !.resets = @ + 1, !.torn = t, !.stepped = FALSE]
      BY <1>5, <3>1 DEF SetMaster, Anew
    <3>3. GhostFields' /\ ghost'.torn = t
      BY <1>1, <3>2 DEF GhostFields
    <3> QED
      BY <3>1, <3>3
  <2>3. pc' = pc /\ ahead' = ahead
    BY <1>5 DEF SetMaster
  <2>4. Steady' => pc = Idle
    BY <2>2 DEF Steady
  <2> QED
    BY <1>1, <1>b, <2>1, <2>2, <2>3, <2>4 DEF PtpInv, Filtered
<1>6. ASSUME Clear
      PROVE  PtpInv'
  <2>1. PtpFields(ptp)' /\ ptp'.expected = 0
    BY <1>6 DEF Clear, Cleared, PtpFields, Names
  <2>2. GhostFields'
    BY <1>1, <1>6 DEF Clear, Anew, GhostFields
  <2> QED
    BY <1>1, <1>6, <2>1, <2>2 DEF Clear, PtpInv, Steady
<1>7. ASSUME Stop
      PROVE  PtpInv'
  <2>1. PtpFields(ptp)' /\ SameEstimate(ptp', ptp)
    BY <1>1, <1>7 DEF Stop, PtpFields, Names, SameEstimate
  <2>2. GhostFields' /\ ghost'.torn = ghost.torn /\ ghost'.stepped = ghost.stepped
    BY <1>1, <1>7 DEF Stop, GhostFields
  <2> QED
    BY <1>1, <1>7, <2>1, <2>2 DEF Stop, PtpInv, Steady, SameEstimate, Filtered, Measured, Near
<1>8. ASSUME Start
      PROVE  PtpInv'
  <2>1. PtpFields(ptp)' /\ ptp'.expected = 0
    BY <1>8 DEF Start, Cleared, PtpFields, Names
  <2>2. GhostFields'
    BY <1>1, <1>8 DEF Start, GhostFields
  <2> QED
    BY <1>1, <1>8, <2>1, <2>2 DEF Start, PtpInv, Steady
<1>9. ASSUME Resume
      PROVE  PtpInv'
  <2>1. /\ PtpFields(ptp)' /\ ~ptp'.tracked
        /\ ptp'.expected = ptp.expected /\ ptp'.samples = ptp.samples /\ ptp'.filtered = ptp.filtered
    BY <1>1, <1>9 DEF Resume, PtpFields, Names
  <2>2. GhostFields' /\ ghost'.torn = ghost.torn /\ ghost'.stepped = ghost.stepped
    BY <1>1, <1>9 DEF Resume, GhostFields
  <2> QED
    BY <1>1, <1>9, <2>1, <2>2 DEF Resume, PtpInv, Steady, Filtered, Measured, Near
<1>10. ASSUME AskLocked
       PROVE  PtpInv'
  <2>1. PtpFields(ptp)' /\ SameEstimate(ptp', ptp)
    BY <1>1, <1>10 DEF AskLocked, PtpFields, Names, SameEstimate
  <2> QED
    BY <1>1, <1>10, <2>1 DEF AskLocked, PtpInv, GhostFields, Steady, SameEstimate, Filtered, Measured, Near
<1>11. ASSUME NEW id \in Masters, Tick(id)
       PROVE  PtpInv'
  <2>1. PtpFields(ptp)' /\ SameEstimate(ptp', ptp)
    <3>1. PICK u, v, w : ptp' = [ptp EXCEPT !.since = u, !.cand = v, !.age = w]
      BY <1>11 DEF Tick
    <3> QED
      BY <1>1, <3>1 DEF PtpFields, Names, SameEstimate
  <2> QED
    BY <1>1, <1>11, <2>1 DEF Tick, PtpInv, GhostFields, Steady, SameEstimate, Filtered, Measured, Near
<1>12. ASSUME NEW id \in Masters, MasterSteps(id)
       PROVE  PtpInv'
  <2>1. GhostFields' /\ ghost'.stepped
    BY <1>1, <1>12 DEF MasterSteps, GhostFields
  <2>2. ahead' \in [Masters -> Int]
    BY <1>1, <1>12 DEF MasterSteps
  <2> QED
    BY <1>1, <1>12, <2>1, <2>2 DEF MasterSteps, PtpInv, PtpFields, Steady
<1>13. CASE UNCHANGED ptpVars
  BY <1>1, <1>13 DEF ptpVars, PtpInv, PtpFields, GhostFields, Steady, Filtered, Measured, Near
<1> QED
  BY <1>2, <1>3, <1>4, <1>5, <1>6, <1>7, <1>8, <1>9, <1>10, <1>11, <1>12, <1>13 DEF PtpNext

(* ptp_clock.c: what SYNC and FOLLOW_UP of the expected master, lost, late *)
(* or doubled, and the messages of another leave in the filter is an       *)
(* offset the delay of a SYNC explains, for every jitter, threshold,       *)
(* divisor and number of samples: OffsetSound.                             *)
THEOREM PtpOffsetIsSound == PtpSpec => []OffsetSound
<1>1. PtpInv => OffsetSound
  BY DEF PtpInv, OffsetSound, Filtered, Measured
<1> QED
  BY <1>1, InitPtpInv, NextPtpInv, PTL DEF PtpSpec

-----------------------------------------------------------------------------
(* The three records and their fields.                                     *)
Receiver(r) ==
  /\ DOMAIN r = {"cur", "type", "fmt", "key", "run", "decoder", "playing", "latency", "anchor",
                 "flushAt", "nack"}
  /\ r.cur \in Streams
  /\ DOMAIN r.type = Streams /\ DOMAIN r.fmt = Streams /\ DOMAIN r.key = Streams
Connection(c) == DOMAIN c = {"v", "type", "paused", "active", "ports", "control", "hap"}
Phone(c) == DOMAIN c = {"n", "v", "phase", "fmt", "key", "sent"}

(* What the receiver decodes with, and that its current stream runs.       *)
Decoded(r, key) == r.decoder = r.fmt[r.cur] /\ r.decoder # "none" /\ r.key[r.cur] = key
AllKeys(r, key) == r.key = [s \in Streams |-> key]

(* A set-up names the stream, its format and its key; it is active from    *)
(* then on until a teardown.  Before it nothing is active and the keys are *)
(* those of nobody, then those of the announcement.                        *)
SessionInv ==
  /\ Receiver(rcv) /\ Connection(conn) /\ Phone(client)
  /\ conn.active => /\ conn.type \in {Realtime, Buffered} /\ rcv.cur = StreamOf(conn.type)
                    /\ Decoded(rcv, client.key)
                    /\ client.phase \in {"ready", "on", "paused", "done"}
                    /\ client.phase = "ready" => client.v = 1 /\ ~conn.paused /\ shown # "playing"
                    /\ client.phase \in {"on", "paused"} \/ shown = "playing" => Started(rcv)
  /\ client.phase = "paused" => conn.paused
  /\ client.phase \in {"gone", "new"} \/ (client.phase \in {"known", "announced"} /\ client.v = 1)
       => shown # "playing" /\ ~conn.paused
  /\ client.phase \in {"gone", "new"} \/ (client.phase = "known" /\ client.v = 1)
       => AllKeys(rcv, "none")
  /\ client.phase = "announced" => client.v = 1 /\ AllKeys(rcv, client.key)
  /\ client.phase # "gone" => client.v \in {1, 2} /\ client.fmt \in {"ALAC", "AAC"}

-----------------------------------------------------------------------------
(* What each operation of the receiver leaves and what it changes.         *)

LEMMA SetFormatDoes ==
  ASSUME NEW r, Receiver(r), NEW f
  PROVE  /\ Receiver(SetFormat(r, f))
         /\ SetFormat(r, f).cur = r.cur /\ SetFormat(r, f).key = r.key /\ SetFormat(r, f).run = r.run
         /\ SetFormat(r, f).decoder = f /\ SetFormat(r, f).fmt[r.cur] = f
BY DEF Receiver, SetFormat

LEMMA SetKeyDoes ==
  ASSUME NEW r, Receiver(r), NEW k
  PROVE  /\ Receiver(SetKey(r, k)) /\ AllKeys(SetKey(r, k), k)
         /\ SetKey(r, k).cur = r.cur /\ SetKey(r, k).fmt = r.fmt /\ SetKey(r, k).run = r.run
         /\ SetKey(r, k).decoder = r.decoder /\ SetKey(r, k).key[r.cur] = k
BY DEF Receiver, SetKey, AllKeys

LEMMA SetTypeDoes ==
  ASSUME NEW r, Receiver(r), NEW t
  PROVE  /\ Receiver(SetType(r, t)) /\ SetType(r, t).cur = StreamOf(t)
         /\ SetType(r, t).decoder = r.decoder
         /\ SetType(r, t).fmt[StreamOf(t)] = r.fmt[r.cur]
         /\ SetType(r, t).key[StreamOf(t)] = r.key[r.cur]
<1> DEFINE s == StreamOf(t)
<1>1. s \in Streams
  BY DEF StreamOf, Streams
<1>2. CASE r.cur = s
  BY <1>1, <1>2 DEF Receiver, SetType
<1>3. CASE r.cur # s
  BY <1>1, <1>3 DEF Receiver, SetType
<1> QED
  BY <1>2, <1>3

LEMMA TimingResetDoes ==
  ASSUME NEW r, Receiver(r)
  PROVE  /\ Receiver(TimingReset(r))
         /\ TimingReset(r).cur = r.cur /\ TimingReset(r).key = r.key /\ TimingReset(r).fmt = r.fmt
         /\ TimingReset(r).run = r.run /\ TimingReset(r).decoder = r.decoder
BY DEF Receiver, TimingReset

LEMMA StartRealtimeDoes ==
  ASSUME NEW r, Receiver(r), NEW ok \in BOOLEAN
  PROVE  LET q == StartRealtime(r, ok)
         IN /\ Receiver(q) /\ q.cur = "realtime" /\ q.decoder = r.decoder
            /\ q.fmt[q.cur] = r.fmt[r.cur] /\ q.key[q.cur] = r.key[r.cur]
            /\ ok => Started(q)
<1>1. PICK p : p = TimingReset(SetType(r, Realtime))
  OBVIOUS
<1>2. StreamOf(Realtime) = "realtime"
  BY DEF StreamOf, Realtime, Buffered
<1>3. /\ Receiver(p) /\ p.cur = "realtime" /\ p.decoder = r.decoder
      /\ p.fmt[p.cur] = r.fmt[r.cur] /\ p.key[p.cur] = r.key[r.cur]
  <2>1. PICK m : m = SetType(r, Realtime)
    OBVIOUS
  <2>2. /\ Receiver(m) /\ m.cur = "realtime" /\ m.decoder = r.decoder
        /\ m.fmt[m.cur] = r.fmt[r.cur] /\ m.key[m.cur] = r.key[r.cur]
    BY <1>2, <2>1, SetTypeDoes
  <2> QED
    BY <1>1, <2>1, <2>2, TimingResetDoes
<1>4. StartRealtime(r, ok) = [p EXCEPT !.run = IF ok THEN @ \cup {"realtime"} ELSE @ \ {"realtime"}]
  BY <1>1 DEF StartRealtime
<1> QED
  BY <1>3, <1>4 DEF Receiver, Started

LEMMA StartBufferedDoes ==
  ASSUME NEW r, Receiver(r), NEW ok \in BOOLEAN
  PROVE  LET q == StartBuffered(r, ok)
         IN /\ Receiver(q) /\ q.cur = "buffered" /\ q.decoder = r.decoder
            /\ q.fmt[q.cur] = r.fmt[r.cur] /\ q.key[q.cur] = r.key[r.cur]
            /\ ok => Started(q)
<1>1. PICK m : m = SetType(r, Buffered)
  OBVIOUS
<1>2. StreamOf(Buffered) = "buffered"
  BY DEF StreamOf
<1>3. /\ Receiver(m) /\ m.cur = "buffered" /\ m.decoder = r.decoder
      /\ m.fmt[m.cur] = r.fmt[r.cur] /\ m.key[m.cur] = r.key[r.cur]
  BY <1>1, <1>2, SetTypeDoes
<1>4. PICK p : p = TimingReset(m)
  OBVIOUS
<1>5. /\ Receiver(p) /\ p.cur = "buffered" /\ p.decoder = r.decoder /\ p.run = m.run
      /\ p.fmt[p.cur] = r.fmt[r.cur] /\ p.key[p.cur] = r.key[r.cur]
  BY <1>3, <1>4, TimingResetDoes
<1>6. StartBuffered(r, ok) = IF "buffered" \in m.run THEN m
                             ELSE [p EXCEPT !.run = IF ok THEN @ \cup {"buffered"} ELSE @]
  BY <1>1, <1>4 DEF StartBuffered
<1> QED
  BY <1>3, <1>5, <1>6 DEF Receiver, Started

LEMMA StartStreamDoes ==
  ASSUME NEW r, Receiver(r), NEW t, NEW ok \in BOOLEAN
  PROVE  LET q == StartStream(r, t, ok)
         IN /\ Receiver(q) /\ q.cur = StreamOf(t) /\ q.decoder = r.decoder
            /\ q.fmt[q.cur] = r.fmt[r.cur] /\ q.key[q.cur] = r.key[r.cur]
            /\ ok => Started(q)
<1>1. PICK m : m = SetType(r, t)
  OBVIOUS
<1>2. /\ Receiver(m) /\ m.cur = StreamOf(t) /\ m.decoder = r.decoder
      /\ m.fmt[m.cur] = r.fmt[r.cur] /\ m.key[m.cur] = r.key[r.cur]
  BY <1>1, SetTypeDoes
<1>3. CASE t = Buffered
  BY <1>1, <1>2, <1>3, StartBufferedDoes DEF StartStream, StreamOf
<1>4. CASE t # Buffered
  BY <1>1, <1>2, <1>4, StartRealtimeDoes DEF StartStream, StreamOf
<1> QED
  BY <1>3, <1>4

LEMMA StopReceiverDoes ==
  ASSUME NEW r, Receiver(r)
  PROVE  Receiver(StopReceiver(r)) /\ AllKeys(StopReceiver(r), "none") /\ StopReceiver(r).cur = r.cur
<1>1. PICK k : k = SetKey(r, "none")
  OBVIOUS
<1>2. PICK p : p = TimingReset(k)
  OBVIOUS
<1>3. Receiver(p) /\ AllKeys(p, "none") /\ p.cur = r.cur
  <2>1. Receiver(k) /\ AllKeys(k, "none") /\ k.cur = r.cur
    BY <1>1, SetKeyDoes
  <2>2. Receiver(p) /\ p.key = k.key /\ p.cur = k.cur
    BY <1>2, <2>1, TimingResetDoes
  <2> QED
    BY <2>1, <2>2 DEF AllKeys
<1>4. StopReceiver(r) = [p EXCEPT !.run = {}, !.decoder = "none", !.nack = FALSE]
  BY <1>1, <1>2 DEF StopReceiver
<1> QED
  BY <1>3, <1>4 DEF Receiver, AllKeys

(* The switches that no property is about.                                 *)
Same(q, r) == /\ Receiver(q) /\ q.cur = r.cur /\ q.fmt = r.fmt /\ q.key = r.key /\ q.run = r.run
              /\ q.decoder = r.decoder

LEMMA SwitchesDo ==
  ASSUME NEW r, Receiver(r), NEW c, NEW b
  PROVE  /\ Same([r EXCEPT !.playing = b], r) /\ Same([r EXCEPT !.flushAt = TRUE], r)
         /\ Same([r EXCEPT !.anchor = c, !.playing = b], r) /\ Same([r EXCEPT !.latency = c, !.playing = b], r)
         /\ Same(Control(r, c), r) /\ Same(SeekFlush(r), r)
BY DEF Receiver, Same, Control, SeekFlush, TimingReset

(* A handler that leaves the phone's phase, format and key, the session's  *)
(* events and what is streamed alone leaves the invariant alone.           *)
LEMMA SameKeeps ==
  ASSUME NEW q, NEW r, Same(q, r), NEW k
  PROVE  /\ Receiver(q) /\ q.cur = r.cur
         /\ Decoded(q, k) <=> Decoded(r, k)
         /\ AllKeys(q, k) <=> AllKeys(r, k)
         /\ Started(q) <=> Started(r)
BY DEF Same, Decoded, AllKeys, Started

-----------------------------------------------------------------------------
(* The phone's turn.                                                       *)

LEMMA SendsMoves ==
  ASSUME Phone(client), NEW v, NEW before, NEW after, Sends(v, before, after)
  PROVE  /\ client.v \in v /\ client.phase \in before
         /\ Phone(client') /\ client'.phase = after
         /\ client'.v = client.v /\ client'.fmt = client.fmt /\ client'.key = client.key
BY DEF Phone, Sends

LEMMA TalksStays ==
  ASSUME Phone(client), NEW v, Talks(v)
  PROVE  /\ Phone(client') /\ client'.phase = client.phase
         /\ client'.v = client.v /\ client'.fmt = client.fmt /\ client'.key = client.key
BY DEF Phone, Talks

-----------------------------------------------------------------------------
(* The requests, in the order of a session.                                *)

LEMMA SessionStarts == SessionInit => SessionInv
BY DEF SessionInit, SessionInv, Receiver, Connection, Phone, NoConn, NoClient, AllKeys, Streams

LEMMA ConnectKeeps ==
  ASSUME SessionInv, NEW v \in {1, 2}, NEW f \in {"ALAC", "AAC"}, NEW k, Connect(v, f, k)
  PROVE  SessionInv'
<1>1. /\ client.phase = "gone" /\ UNCHANGED <<conn, rcv, shown>>
      /\ Phone(client') /\ client'.phase = "new" /\ client'.v = v /\ client'.fmt = f
  BY DEF Connect, Phone
<1> QED
  BY <1>1 DEF SessionInv

LEMMA OptionsKeeps ==
  ASSUME SessionInv, Options
  PROVE  SessionInv'
<1>1. /\ client.phase = "new" /\ client.v = 1 /\ Phone(client') /\ client'.phase = "known"
      /\ client'.v = client.v /\ client'.fmt = client.fmt /\ client'.key = client.key
  BY SendsMoves DEF SessionInv, Options
<1>2. /\ UNCHANGED <<rcv, shown>> /\ Connection(conn')
      /\ conn'.active = conn.active /\ conn'.paused = conn.paused
  BY DEF SessionInv, Options, Connection
<1> QED
  BY <1>1, <1>2 DEF SessionInv

LEMMA AnnounceKeeps ==
  ASSUME SessionInv, Announce
  PROVE  SessionInv'
<1>1. /\ client.phase = "known" /\ client.v = 1 /\ Phone(client') /\ client'.phase = "announced"
      /\ client'.v = client.v /\ client'.fmt = client.fmt /\ client'.key = client.key
  BY SendsMoves DEF SessionInv, Announce
<1>2. /\ UNCHANGED shown /\ Connection(conn')
      /\ conn'.active = conn.active /\ conn'.paused = conn.paused
  BY DEF SessionInv, Announce, Connection
<1>3. Receiver(rcv') /\ AllKeys(rcv', client.key)
  <2>1. Receiver(rcv) /\ AllKeys(rcv, "none")
    BY <1>1 DEF SessionInv
  <2>2. PICK f : f = SetFormat(rcv, client.fmt)
    OBVIOUS
  <2>3. Receiver(f) /\ AllKeys(f, "none")
    BY <2>1, <2>2, SetFormatDoes DEF AllKeys
  <2>4. rcv' = IF client.key # "none" THEN SetKey(f, client.key) ELSE f
    BY <2>2 DEF Announce
  <2> QED
    BY <2>3, <2>4, SetKeyDoes
<1> QED
  BY <1>1, <1>2, <1>3 DEF SessionInv

LEMMA SetupV1Keeps ==
  ASSUME SessionInv, NEW c, NEW n, SetupV1(c, n)
  PROVE  SessionInv'
<1>1. /\ client.phase = "announced" /\ client.v = 1 /\ Phone(client') /\ client'.phase = "ready"
      /\ client'.v = client.v /\ client'.fmt = client.fmt /\ client'.key = client.key
  BY SendsMoves DEF SessionInv, SetupV1
<1>2. /\ UNCHANGED shown /\ Connection(conn') /\ conn'.type = Realtime
      /\ conn'.active = TRUE /\ conn'.paused = conn.paused
  BY DEF SessionInv, SetupV1, Connection
<1>3. /\ Receiver(rcv') /\ rcv'.cur = StreamOf(Realtime) /\ Decoded(rcv', client.key)
  <2>1. Receiver(rcv) /\ AllKeys(rcv, client.key)
    BY <1>1 DEF SessionInv
  <2>2. PICK f : f = SetFormat(rcv, "ALAC")
    OBVIOUS
  <2>3. Receiver(f) /\ f.cur = rcv.cur /\ f.key = rcv.key /\ f.decoder = "ALAC" /\ f.fmt[f.cur] = "ALAC"
    BY <2>1, <2>2, SetFormatDoes
  <2>4. f.key[f.cur] = client.key
    BY <2>1, <2>3 DEF Receiver, AllKeys
  <2>5. rcv' = SetType(f, Realtime)
    BY <2>2 DEF SetupV1
  <2> QED
    BY <2>3, <2>4, <2>5, SetTypeDoes DEF Decoded
<1>4. client.phase = "announced" /\ client.v = 1 => shown # "playing" /\ ~conn.paused
  BY DEF SessionInv
<1> QED
  BY <1>1, <1>2, <1>3, <1>4 DEF SessionInv

LEMMA SetupV1FailsKeeps ==
  ASSUME SessionInv, SetupV1Fails
  PROVE  SessionInv'
<1>1. /\ client.phase = "announced" /\ Phone(client') /\ client'.phase = "done"
      /\ client'.v = client.v /\ client'.fmt = client.fmt /\ client'.key = client.key
  BY SendsMoves DEF SessionInv, SetupV1Fails
<1>2. UNCHANGED <<rcv, shown>> /\ Connection(conn') /\ conn'.active = conn.active
  BY DEF SessionInv, SetupV1Fails, Connection
<1> QED
  BY <1>1, <1>2 DEF SessionInv

LEMMA PairKeeps ==
  ASSUME SessionInv, Pair
  PROVE  SessionInv'
<1>1. /\ client.phase = "new" /\ client.v = 2 /\ Phone(client') /\ client'.phase = "known"
      /\ client'.v = client.v /\ client'.fmt = client.fmt /\ client'.key = client.key
  BY SendsMoves DEF SessionInv, Pair
<1>2. /\ UNCHANGED <<rcv, shown>> /\ Connection(conn') /\ conn'.active = conn.active
  BY DEF SessionInv, Pair, Connection
<1> QED
  BY <1>1, <1>2 DEF SessionInv

LEMMA SetupSessionKeeps ==
  ASSUME SessionInv, NEW ok \in BOOLEAN, SetupSession(ok)
  PROVE  SessionInv'
<1>1. PICK p : p = IF ok THEN "ready" ELSE "done"
  OBVIOUS
<1>2. /\ client.phase = "known" /\ client.v = 2 /\ Phone(client') /\ client'.phase = p
      /\ client'.v = client.v /\ client'.fmt = client.fmt /\ client'.key = client.key
  BY <1>1, SendsMoves DEF SessionInv, SetupSession
<1>3. /\ UNCHANGED shown /\ Connection(conn') /\ conn'.active = conn.active
  BY DEF SessionInv, SetupSession, Connection
<1>4. Receiver(rcv')
  BY SetKeyDoes DEF SessionInv, SetupSession
<1> QED
  BY <1>1, <1>2, <1>3, <1>4 DEF SessionInv

LEMMA SetupStreamsKeeps ==
  ASSUME SessionInv, NEW t \in {Realtime, Buffered}, NEW ok \in BOOLEAN, NEW d \in BOOLEAN,
         SetupStreams(t, ok, d)
  PROVE  SessionInv'
<1>1. PICK p : p = IF ok THEN "on" ELSE "done"
  OBVIOUS
<1>2. /\ client.phase \in {"ready", "torn"} /\ client.v = 2 /\ Phone(client') /\ client'.phase = p
      /\ client'.v = client.v /\ client'.fmt = client.fmt /\ client'.key = client.key
  BY <1>1, SendsMoves DEF SessionInv, SetupStreams
<1>3. PICK a : a = SetType(rcv, t)
  OBVIOUS
<1>4. PICK f : f = SetFormat(a, client.fmt)
  OBVIOUS
<1>5. PICK r : r = SetKey(f, client.key)
  OBVIOUS
<1>6. PICK b : b = IF t = Buffered THEN StartBuffered(r, ok) ELSE r
  OBVIOUS
<1>7. PICK s : s = StartStream(b, t, ok)
  OBVIOUS
<1>8. Receiver(r) /\ Decoded(r, client.key)
  <2>1. Receiver(a)
    BY <1>3, SetTypeDoes DEF SessionInv
  <2>2. Receiver(f) /\ f.decoder = client.fmt /\ f.fmt[f.cur] = client.fmt
    BY <1>4, <2>1, SetFormatDoes
  <2>3. Receiver(r) /\ r.decoder = client.fmt /\ r.fmt[r.cur] = client.fmt /\ r.key[r.cur] = client.key
    BY <1>5, <2>2, SetKeyDoes
  <2>4. client.fmt \in {"ALAC", "AAC"}
    BY <1>2 DEF SessionInv
  <2> QED
    BY <2>3, <2>4 DEF Decoded
<1>9. Receiver(b) /\ Decoded(b, client.key)
  BY <1>6, <1>8, StartBufferedDoes DEF Decoded
<1>10. Receiver(s) /\ s.cur = StreamOf(t) /\ Decoded(s, client.key) /\ (ok => Started(s))
  BY <1>7, <1>9, StartStreamDoes DEF Decoded
<1>11. PICK c : c = [conn EXCEPT !.v = 2, !.type = t, !.control = @ \/ d,
                        !.ports = @ \cup (IF t = Realtime THEN {"data", "control", "timing"}
                                           ELSE IF ok THEN {"buffered", "control", "timing"} ELSE {})]
  OBVIOUS
<1>12. Connection(c) /\ c.type = t /\ c.active = conn.active
  BY <1>11 DEF SessionInv, Connection
<1>13. ~conn.active
  BY <1>2 DEF SessionInv
<1>14. IF ok THEN /\ rcv' = [Control(s, c) EXCEPT !.latency = t = Realtime, !.playing = TRUE]
                  /\ conn' = [c EXCEPT !.paused = FALSE, !.active = TRUE] /\ shown' = "playing"
       ELSE rcv' = s /\ conn' = c /\ UNCHANGED shown
  BY <1>3, <1>4, <1>5, <1>6, <1>7, <1>11 DEF SetupStreams
<1>15. CASE ok
  <2>1. Connection(conn') /\ conn'.type = t /\ conn'.active = TRUE
    BY <1>12, <1>14, <1>15 DEF Connection
  <2>2. PICK q : q = Control(s, c)
    OBVIOUS
  <2>3. Same(q, s)
    BY <1>10, <2>2, SwitchesDo
  <2>4. Same(rcv', q)
    <3>1. PICK l : l = (t = Realtime)
      OBVIOUS
    <3>2. Receiver(q) /\ rcv' = [q EXCEPT !.latency = l, !.playing = TRUE]
      BY <1>14, <1>15, <2>2, <2>3, <3>1 DEF Same
    <3> QED
      BY <3>2, SwitchesDo
  <2>5. Receiver(rcv') /\ rcv'.cur = StreamOf(t) /\ Decoded(rcv', client.key) /\ Started(rcv')
    BY <1>10, <1>15, <2>3, <2>4, SameKeeps
  <2>6. shown' = "playing" /\ p = "on"
    BY <1>1, <1>14, <1>15
  <2> QED
    BY <1>2, <2>1, <2>5, <2>6 DEF SessionInv
<1>16. CASE ~ok
  BY <1>1, <1>2, <1>10, <1>12, <1>13, <1>14, <1>16 DEF SessionInv
<1> QED
  BY <1>15, <1>16

LEMMA RecordKeeps ==
  ASSUME SessionInv, NEW ok \in BOOLEAN, Record(ok)
  PROVE  SessionInv'
<1>1. PICK p : p = IF ok \/ conn.paused THEN "on" ELSE "done"
  OBVIOUS
<1>2. /\ Phone(client') /\ client'.v = client.v /\ client'.fmt = client.fmt /\ client'.key = client.key
      /\ \/ client.v = 1 /\ client.phase \in {"ready", "paused"} /\ client'.phase = p
         \/ ok /\ client.v = 2 /\ client.phase = "ready" /\ client'.phase = "ready"
  <2>1. CASE Sends({1}, {"ready", "paused"}, p)
    BY <2>1, SendsMoves DEF SessionInv
  <2>2. CASE ok /\ Sends({2}, {"ready"}, "ready")
    BY <2>2, SendsMoves DEF SessionInv
  <2> QED
    BY <1>1, <2>1, <2>2 DEF Record
<1>3. PICK s : s = StartStream(rcv, conn.type, ok)
  OBVIOUS
<1>4. /\ Receiver(s) /\ s.cur = StreamOf(conn.type) /\ (ok => Started(s))
      /\ \A k : Decoded(rcv, k) => Decoded(s, k)
  BY <1>3, StartStreamDoes DEF SessionInv, Decoded
<1>5. IF conn.paused \/ ok
      THEN /\ rcv' = IF conn.paused THEN [rcv EXCEPT !.playing = TRUE] ELSE [Control(s, conn) EXCEPT !.playing = TRUE]
           /\ conn' = [conn EXCEPT !.paused = FALSE] /\ shown' = "playing"
      ELSE rcv' = s /\ UNCHANGED <<conn, shown>>
  BY <1>3 DEF Record
<1>6. CASE conn.paused
  <2>1. /\ Connection(conn') /\ conn'.type = conn.type /\ conn'.active = conn.active /\ ~conn'.paused
        /\ shown' = "playing"
    BY <1>5, <1>6 DEF SessionInv, Connection
  <2>2. Same(rcv', rcv)
    <3>1. Receiver(rcv) /\ rcv' = [rcv EXCEPT !.playing = TRUE]
      BY <1>5, <1>6 DEF SessionInv
    <3> QED
      BY <3>1, SwitchesDo
  <2>3. /\ Receiver(rcv') /\ rcv'.cur = rcv.cur
        /\ Decoded(rcv, client.key) => Decoded(rcv', client.key)
        /\ Started(rcv) => Started(rcv')
    BY <2>2, SameKeeps
  <2>4. conn.active => client.phase = "paused" /\ client'.phase = "on"
    BY <1>1, <1>2, <1>6 DEF SessionInv
  <2> QED
    BY <1>1, <1>2, <1>6, <2>1, <2>3, <2>4 DEF SessionInv
<1>7. CASE ~conn.paused /\ ok
  <2>1. /\ Connection(conn') /\ conn'.type = conn.type /\ conn'.active = conn.active /\ ~conn'.paused
        /\ shown' = "playing"
    BY <1>5, <1>7 DEF SessionInv, Connection
  <2>2. PICK q : q = Control(s, conn)
    OBVIOUS
  <2>3. Same(q, s)
    BY <1>4, <2>2, SwitchesDo
  <2>4. Same(rcv', q)
    <3>1. Receiver(q) /\ rcv' = [q EXCEPT !.playing = TRUE]
      BY <1>5, <1>7, <2>2, <2>3 DEF Same
    <3> QED
      BY <3>1, SwitchesDo
  <2>5. /\ Receiver(rcv') /\ rcv'.cur = s.cur
        /\ Decoded(rcv, client.key) => Decoded(rcv', client.key)
        /\ Started(rcv')
    BY <1>4, <1>7, <2>3, <2>4, SameKeeps
  <2>6. conn.active => client.v = 1 /\ client'.phase = "on"
    BY <1>1, <1>2, <1>7 DEF SessionInv
  <2> QED
    BY <1>1, <1>2, <1>4, <1>7, <2>1, <2>5, <2>6 DEF SessionInv
<1>8. CASE ~conn.paused /\ ~ok
  <2>1. rcv' = s /\ UNCHANGED <<conn, shown>> /\ client'.phase = "done"
    BY <1>1, <1>2, <1>5, <1>8
  <2>2. client.phase = "ready"
    BY <1>2, <1>8 DEF SessionInv
  <2> QED
    BY <1>2, <1>4, <2>1, <2>2 DEF SessionInv
<1> QED
  BY <1>6, <1>7, <1>8

LEMMA PauseKeeps ==
  ASSUME SessionInv, Pause
  PROVE  SessionInv'
<1>1. /\ client.phase = "on" /\ client.v = 1 /\ Phone(client') /\ client'.phase = "paused"
      /\ client'.v = client.v /\ client'.fmt = client.fmt /\ client'.key = client.key
  BY SendsMoves DEF SessionInv, Pause
<1>2. /\ UNCHANGED shown /\ Connection(conn') /\ conn'.paused
      /\ conn'.active = conn.active /\ conn'.type = conn.type
  BY DEF SessionInv, Pause, Connection
<1>3. Same(rcv', rcv)
  BY SwitchesDo DEF SessionInv, Pause
<1>4. /\ Receiver(rcv') /\ rcv'.cur = rcv.cur
      /\ Decoded(rcv, client.key) => Decoded(rcv', client.key)
      /\ Started(rcv) => Started(rcv')
  BY <1>3, SameKeeps
<1> QED
  BY <1>1, <1>2, <1>4 DEF SessionInv

LEMMA FlushKeeps ==
  ASSUME SessionInv, Flush \/ FlushLater
  PROVE  SessionInv'
<1>1. /\ Phone(client') /\ client'.phase = client.phase
      /\ client'.v = client.v /\ client'.fmt = client.fmt /\ client'.key = client.key
  BY TalksStays DEF SessionInv, Flush, FlushLater
<1>2. UNCHANGED <<conn, shown>>
  BY DEF Flush, FlushLater
<1>3. Same(rcv', rcv)
  BY SwitchesDo DEF SessionInv, Flush, FlushLater
<1>4. /\ Receiver(rcv') /\ rcv'.cur = rcv.cur
      /\ Decoded(rcv, client.key) => Decoded(rcv', client.key)
      /\ Started(rcv) => Started(rcv')
      /\ AllKeys(rcv, "none") => AllKeys(rcv', "none")
      /\ AllKeys(rcv, client.key) => AllKeys(rcv', client.key)
  BY <1>3, SameKeeps
<1> QED
  BY <1>1, <1>2, <1>4 DEF SessionInv

LEMMA SetRateKeeps ==
  ASSUME SessionInv, NEW a \in BOOLEAN, NEW b \in BOOLEAN, SetRate(a, b)
  PROVE  SessionInv'
<1>1. /\ client.phase = "on" /\ client.v = 2 /\ Phone(client') /\ client'.phase = "on"
      /\ client'.v = client.v /\ client'.fmt = client.fmt /\ client'.key = client.key
  <2>1. Phone(client) /\ client.phase = "on" /\ Talks({2})
    BY DEF SessionInv, SetRate
  <2>2. client.v = 2
    BY <2>1 DEF Talks
  <2> QED
    BY <2>1, <2>2, TalksStays
<1>2. /\ Connection(conn') /\ conn'.active = conn.active /\ conn'.type = conn.type
  BY DEF SessionInv, SetRate, Connection
<1>3. PICK c : c = (rcv.anchor \/ b)
  OBVIOUS
<1>4. Same(rcv', rcv)
  <2>1. rcv' = [rcv EXCEPT !.anchor = c, !.playing = a]
    BY <1>3 DEF SetRate
  <2> QED
    BY <2>1, SwitchesDo DEF SessionInv
<1>5. /\ Receiver(rcv') /\ rcv'.cur = rcv.cur
      /\ Decoded(rcv, client.key) => Decoded(rcv', client.key)
      /\ Started(rcv) => Started(rcv')
  BY <1>4, SameKeeps
<1> QED
  BY <1>1, <1>2, <1>5 DEF SessionInv

LEMMA TeardownStreamsKeeps ==
  ASSUME SessionInv, TeardownStreams
  PROVE  SessionInv'
<1>1. /\ client.phase = "on" /\ Phone(client') /\ client'.phase = "torn"
      /\ client'.v = client.v /\ client'.fmt = client.fmt /\ client'.key = client.key
  BY SendsMoves DEF SessionInv, TeardownStreams
<1>2. Connection(conn') /\ ~conn'.active
  BY DEF SessionInv, TeardownStreams, Connection
<1>3. Receiver(rcv')
  <2>1. PICK q : q = StopReceiver(rcv)
    OBVIOUS
  <2>2. Receiver(q) /\ rcv' = [q EXCEPT !.playing = FALSE]
    BY <2>1, StopReceiverDoes DEF SessionInv, TeardownStreams
  <2> QED
    BY <2>2 DEF Receiver
<1> QED
  BY <1>1, <1>2, <1>3 DEF SessionInv

LEMMA TeardownKeeps ==
  ASSUME SessionInv, Teardown
  PROVE  SessionInv'
<1>1. /\ client.phase \in {"ready", "on", "paused", "torn"} /\ Phone(client') /\ client'.phase = "done"
      /\ client'.v = client.v /\ client'.fmt = client.fmt /\ client'.key = client.key
  BY SendsMoves DEF SessionInv, Teardown
<1>2. Connection(conn') /\ ~conn'.active
  BY DEF SessionInv, Teardown, Connection
<1>3. Receiver(rcv')
  BY StopReceiverDoes DEF SessionInv, Teardown
<1> QED
  BY <1>1, <1>2, <1>3 DEF SessionInv

LEMMA GoneKeeps ==
  ASSUME SessionInv, Gone
  PROVE  SessionInv'
<1>1. Phone(client') /\ client'.phase = "gone"
  BY DEF SessionInv, Gone, Phone
<1>2. Connection(conn') /\ ~conn'.active /\ ~conn'.paused /\ shown' = "none"
  BY DEF Gone, Connection, NoConn
<1>3. Receiver(rcv') /\ AllKeys(rcv', "none")
  BY StopReceiverDoes DEF SessionInv, Gone
<1> QED
  BY <1>1, <1>2, <1>3 DEF SessionInv

(* Whatever a session of either protocol sends and whichever step of a     *)
(* set-up fails, for every number of connections and requests: a stream    *)
(* that is set up and shown as playing runs, and is decoded and deciphered *)
(* with the format and the key of its own connection.  (rtsp_handlers.c.)  *)
THEOREM SessionIsHeard == SessionSpec => []ShownIsHeard
<1>1. SessionInit => SessionInv
  BY SessionStarts
<1>2. SessionInv /\ [SessionNext]_sessionVars => SessionInv'
  <2> SUFFICES ASSUME SessionInv, [SessionNext]_sessionVars PROVE SessionInv'
    OBVIOUS
  <2>1. CASE \/ \E f \in {"ALAC", "AAC"}, k \in {"none", "own"} : Connect(1, f, k)
             \/ \E f \in {"ALAC", "AAC"} : Connect(2, f, "own")
    BY <2>1, ConnectKeeps
  <2>2. CASE Options \/ Announce \/ SetupV1Fails \/ Pair \/ Pause \/ Flush \/ FlushLater
    BY <2>2, OptionsKeeps, AnnounceKeeps, SetupV1FailsKeeps, PairKeeps, PauseKeeps, FlushKeeps
  <2>3. CASE TeardownStreams \/ Teardown \/ Gone
    BY <2>3, TeardownStreamsKeeps, TeardownKeeps, GoneKeeps
  <2>4. CASE \E a \in BOOLEAN, b \in BOOLEAN : SetupV1(a, b) \/ SetRate(a, b)
    BY <2>4, SetupV1Keeps, SetRateKeeps
  <2>5. CASE \E ok \in BOOLEAN : SetupSession(ok) \/ Record(ok)
    BY <2>5, SetupSessionKeeps, RecordKeeps
  <2>6. CASE \E t \in {Realtime, Buffered}, ok \in BOOLEAN, c \in BOOLEAN : SetupStreams(t, ok, c)
    BY <2>6, SetupStreamsKeeps
  <2>7. CASE UNCHANGED sessionVars
    BY <2>7 DEF sessionVars, SessionInv
  <2> QED
    BY <2>1, <2>2, <2>3, <2>4, <2>5, <2>6, <2>7 DEF SessionNext
<1>3. SessionInv => ShownIsHeard
  BY DEF SessionInv, ShownIsHeard, Decoded
<1> QED
  BY <1>1, <1>2, <1>3, PTL DEF SessionSpec

-----------------------------------------------------------------------------
(* The lists of stores a task may have left, by what it has stored before:  *)
(* nothing; its Q15 copy; that and the last value set; and the DAC's.       *)
Applies == {<<"q15", "last", "check", "saved">>, <<"q15", "last", "check", "saved", "publish">>,
            <<"q15", "last", "check", "saved", "key">>}
Lasts == {<<"last", "check", "saved">>, <<"last", "check", "saved", "publish">>,
          <<"last", "check", "saved", "key">>}
Checks == {<<"check", "saved">>, <<"check", "saved", "publish">>, <<"check", "saved", "key">>,
           <<"check", "saved", "flag">>}
Saves == {<<"saved">>, <<"saved", "publish">>, <<"saved", "key">>, <<"saved", "flag">>}
Ends == {<<>>, <<"publish">>, <<"key">>, <<"flag">>}
(* A write without a session, after its first store.                        *)
AloneNext == <<"q15", "check", "saved", "flag">>
(* What needs the next client's value to be the one in force.               *)
ToldStages == {<<"taken", "pending">>, <<"pending">>, <<"flag">>}
(* Those that leave the copies alone.                                       *)
Calm == {<<>>, <<"take">>, <<"publish">>, <<"key">>, <<"read", "force">>, <<"force">>,
         <<"restore", "unmuted">>, <<"unmuted">>, <<"pre", "silence", "muted">>,
         <<"silence", "muted">>, <<"muted">>}
QuietStages == {"publish", "key", "force", "restore", "unmuted", "pre", "silence", "muted"}
Refresh == <<"read", "q15">>
Refreshed == <<"q15">>

(* A task with the stores s of the value v left to do, where the copies are *)
(* q (Q15), l (last value set), y (synced) and d (saved).                   *)
Stage(s, v, q, l, y, d) ==
    \/ s \in Calm /\ q = Q15Of(d) /\ (y \/ l = d)
    \/ s \in ToldStages /\ q = Q15Of(d) /\ l = d
    \/ s \in Applies
    \/ s = Alone
    \/ s = AloneNext /\ l = v
    \/ s \in Lasts /\ q = Q15Of(v)
    \/ s \in Checks /\ q = Q15Of(v) /\ l = v
    \/ s \in Saves /\ q = Q15Of(v) /\ l = v
    \/ s = Refresh /\ (y \/ l = d)
    \/ s = Refreshed /\ v = d /\ (y \/ l = d)

LEMMA AppliesMove ==
  ASSUME NEW s \in Applies
  PROVE  s # <<>> /\ Head(s) = "q15" /\ Tail(s) \in Lasts
<1>1. CASE s = <<"q15", "last", "check", "saved">>
  BY <1>1 DEF Lasts
<1>2. CASE s = <<"q15", "last", "check", "saved", "publish">>
  BY <1>2 DEF Lasts
<1>3. CASE s = <<"q15", "last", "check", "saved", "key">>
  BY <1>3 DEF Lasts
<1> QED
  BY <1>1, <1>2, <1>3 DEF Applies

LEMMA LastsMove ==
  ASSUME NEW s \in Lasts
  PROVE  s # <<>> /\ Head(s) = "last" /\ Tail(s) \in Checks
<1>1. CASE s = <<"last", "check", "saved">>
  BY <1>1 DEF Checks
<1>2. CASE s = <<"last", "check", "saved", "publish">>
  BY <1>2 DEF Checks
<1>3. CASE s = <<"last", "check", "saved", "key">>
  BY <1>3 DEF Checks
<1> QED
  BY <1>1, <1>2, <1>3 DEF Lasts

LEMMA ChecksMove ==
  ASSUME NEW s \in Checks
  PROVE  s # <<>> /\ Head(s) = "check" /\ Tail(s) \in Saves /\ Tail(Tail(s)) \in Ends
<1>1. CASE s = <<"check", "saved">>
  BY <1>1 DEF Saves, Ends
<1>2. CASE s = <<"check", "saved", "publish">>
  BY <1>2 DEF Saves, Ends
<1>3. CASE s = <<"check", "saved", "key">>
  BY <1>3 DEF Saves, Ends
<1>4. CASE s = <<"check", "saved", "flag">>
  BY <1>4 DEF Saves, Ends
<1> QED
  BY <1>1, <1>2, <1>3, <1>4 DEF Checks

LEMMA SavesMove ==
  ASSUME NEW s \in Saves
  PROVE  s # <<>> /\ Head(s) = "saved" /\ Tail(s) \in Ends
<1>1. CASE s = <<"saved">>
  BY <1>1 DEF Ends
<1>2. CASE s = <<"saved", "publish">>
  BY <1>2 DEF Ends
<1>3. CASE s = <<"saved", "key">>
  BY <1>3 DEF Ends
<1>4. CASE s = <<"saved", "flag">>
  BY <1>4 DEF Ends
<1> QED
  BY <1>1, <1>2, <1>3, <1>4 DEF Saves

LEMMA CalmMoves ==
  ASSUME NEW s \in Calm
  PROVE  s = <<>> \/ (s # <<>> /\ Head(s) \in QuietStages \cup {"take", "read"} /\ Tail(s) \in Calm)
<1>1. CASE s = <<>>
  BY <1>1 DEF Calm, QuietStages
<1>2. CASE s = <<"take">>
  BY <1>2 DEF Calm, QuietStages
<1>3. CASE s = <<"publish">>
  BY <1>3 DEF Calm, QuietStages
<1>4. CASE s = <<"key">>
  BY <1>4 DEF Calm, QuietStages
<1>5. CASE s = <<"read", "force">>
  BY <1>5 DEF Calm, QuietStages
<1>6. CASE s = <<"force">>
  BY <1>6 DEF Calm, QuietStages
<1>7. CASE s = <<"restore", "unmuted">>
  BY <1>7 DEF Calm, QuietStages
<1>8. CASE s = <<"unmuted">>
  BY <1>8 DEF Calm, QuietStages
<1>9. CASE s = <<"pre", "silence", "muted">>
  BY <1>9 DEF Calm, QuietStages
<1>10. CASE s = <<"silence", "muted">>
  BY <1>10 DEF Calm, QuietStages
<1>11. CASE s = <<"muted">>
  BY <1>11 DEF Calm, QuietStages
<1> QED
  BY <1>1, <1>2, <1>3, <1>4, <1>5, <1>6, <1>7, <1>8, <1>9, <1>10, <1>11 DEF Calm

LEMMA ToldMoves ==
  ASSUME NEW s \in ToldStages
  PROVE  /\ s # <<>> /\ Head(s) \in {"taken", "pending", "flag"}
         /\ Head(s) = "taken" => Tail(s) \in ToldStages
         /\ Head(s) = "flag" => Tail(s) = <<>>
<1>1. CASE s = <<"taken", "pending">>
  BY <1>1 DEF ToldStages
<1>2. CASE s = <<"pending">>
  BY <1>2 DEF ToldStages
<1>3. CASE s = <<"flag">>
  BY <1>3 DEF ToldStages
<1> QED
  BY <1>1, <1>2, <1>3 DEF ToldStages

LEMMA SingleMoves ==
  /\ Alone # <<>> /\ Head(Alone) = "last" /\ Tail(Alone) = AloneNext
  /\ AloneNext # <<>> /\ Head(AloneNext) = "q15" /\ Tail(AloneNext) \in Checks
  /\ Refresh # <<>> /\ Head(Refresh) = "read" /\ Tail(Refresh) = Refreshed
  /\ Refreshed # <<>> /\ Head(Refreshed) = "q15" /\ Tail(Refreshed) = <<>>
<1>1. Alone # <<>> /\ Head(Alone) = "last" /\ Tail(Alone) = AloneNext
  BY DEF Alone, AloneNext
<1>2. AloneNext # <<>> /\ Head(AloneNext) = "q15" /\ Tail(AloneNext) \in Checks
  BY DEF AloneNext, Checks
<1>3. Refresh # <<>> /\ Head(Refresh) = "read" /\ Tail(Refresh) = Refreshed
  BY DEF Refresh, Refreshed
<1>4. Refreshed # <<>> /\ Head(Refreshed) = "q15" /\ Tail(Refreshed) = <<>>
  BY DEF Refreshed
<1> QED
  BY <1>1, <1>2, <1>3, <1>4

LEMMA EndsSplit ==
  /\ \A s \in Ends : s \in Calm \/ s \in ToldStages
  /\ <<>> \in Calm /\ <<"publish">> \in Calm /\ <<"take">> \in Calm
  /\ <<"taken", "pending">> \in ToldStages
BY DEF Ends, Calm, ToldStages

(* The copies agree: what holds at rest.                                    *)
LEMMA StageAtRest ==
  ASSUME NEW v, NEW q, NEW l, NEW y, NEW d, Stage(<<>>, v, q, l, y, d)
  PROVE  q = Q15Of(d) /\ (y \/ l = d)
<1>1. <<>> \notin ToldStages
  BY ToldMoves
<1>2. <<>> \notin Applies
  BY AppliesMove
<1>3. <<>> \notin Lasts
  BY LastsMove
<1>4. <<>> \notin Checks
  BY ChecksMove
<1>5. <<>> \notin Saves
  BY SavesMove
<1> QED
  BY <1>1, <1>2, <1>3, <1>4, <1>5, SingleMoves DEF Stage

(* Each store brings its task to the next stage.                            *)
LEMMA Q15Moves ==
  ASSUME NEW s, NEW v, NEW q, NEW l, NEW y, NEW d,
         Stage(s, v, q, l, y, d), s # <<>>, Head(s) = "q15"
  PROVE  Stage(Tail(s), v, Q15Of(v), l, y, d)
<1>1. CASE s \in Calm /\ q = Q15Of(d) /\ (y \/ l = d)
  BY <1>1, CalmMoves DEF QuietStages
<1>2. CASE s \in ToldStages /\ q = Q15Of(d) /\ l = d
  BY <1>2, ToldMoves DEF QuietStages
<1>3. CASE s \in Applies
  BY <1>3, AppliesMove DEF Stage
<1>4. CASE s = Alone
  BY <1>4, SingleMoves DEF QuietStages
<1>5. CASE s = AloneNext /\ l = v
  BY <1>5, SingleMoves DEF Stage
<1>6. CASE s \in Lasts /\ q = Q15Of(v)
  BY <1>6, LastsMove DEF QuietStages
<1>7. CASE s \in Checks /\ q = Q15Of(v) /\ l = v
  BY <1>7, ChecksMove DEF QuietStages
<1>8. CASE s \in Saves /\ q = Q15Of(v) /\ l = v
  BY <1>8, SavesMove DEF QuietStages
<1>9. CASE s = Refresh /\ (y \/ l = d)
  BY <1>9, SingleMoves DEF QuietStages
<1>10. CASE s = Refreshed /\ v = d /\ (y \/ l = d)
  BY <1>10, SingleMoves, EndsSplit DEF Stage
<1> QED
  BY <1>1, <1>2, <1>3, <1>4, <1>5, <1>6, <1>7, <1>8, <1>9, <1>10 DEF Stage

LEMMA LastMoves ==
  ASSUME NEW s, NEW v, NEW q, NEW l, NEW y, NEW d,
         Stage(s, v, q, l, y, d), s # <<>>, Head(s) = "last"
  PROVE  Stage(Tail(s), v, q, v, y, d)
<1>1. CASE s \in Calm /\ q = Q15Of(d) /\ (y \/ l = d)
  BY <1>1, CalmMoves DEF QuietStages
<1>2. CASE s \in ToldStages /\ q = Q15Of(d) /\ l = d
  BY <1>2, ToldMoves DEF QuietStages
<1>3. CASE s \in Applies
  BY <1>3, AppliesMove DEF QuietStages
<1>4. CASE s = Alone
  BY <1>4, SingleMoves DEF Stage
<1>5. CASE s = AloneNext /\ l = v
  BY <1>5, SingleMoves DEF QuietStages
<1>6. CASE s \in Lasts /\ q = Q15Of(v)
  BY <1>6, LastsMove DEF Stage
<1>7. CASE s \in Checks /\ q = Q15Of(v) /\ l = v
  BY <1>7, ChecksMove DEF QuietStages
<1>8. CASE s \in Saves /\ q = Q15Of(v) /\ l = v
  BY <1>8, SavesMove DEF QuietStages
<1>9. CASE s = Refresh /\ (y \/ l = d)
  BY <1>9, SingleMoves DEF QuietStages
<1>10. CASE s = Refreshed /\ v = d /\ (y \/ l = d)
  BY <1>10, SingleMoves DEF QuietStages
<1> QED
  BY <1>1, <1>2, <1>3, <1>4, <1>5, <1>6, <1>7, <1>8, <1>9, <1>10 DEF Stage

LEMMA CheckMoves ==
  ASSUME NEW s, NEW v, NEW q, NEW l, NEW y, NEW d,
         Stage(s, v, q, l, y, d), s # <<>>, Head(s) = "check"
  PROVE  Stage(Tail(s), v, q, l, y, d) /\ (d = v => Stage(Tail(Tail(s)), v, q, l, y, d))
<1>1. CASE s \in Calm /\ q = Q15Of(d) /\ (y \/ l = d)
  BY <1>1, CalmMoves DEF QuietStages
<1>2. CASE s \in ToldStages /\ q = Q15Of(d) /\ l = d
  BY <1>2, ToldMoves DEF QuietStages
<1>3. CASE s \in Applies
  BY <1>3, AppliesMove DEF QuietStages
<1>4. CASE s = Alone
  BY <1>4, SingleMoves DEF QuietStages
<1>5. CASE s = AloneNext /\ l = v
  BY <1>5, SingleMoves DEF QuietStages
<1>6. CASE s \in Lasts /\ q = Q15Of(v)
  BY <1>6, LastsMove DEF QuietStages
<1>7. CASE s \in Checks /\ q = Q15Of(v) /\ l = v
  BY <1>7, ChecksMove, EndsSplit DEF Stage
<1>8. CASE s \in Saves /\ q = Q15Of(v) /\ l = v
  BY <1>8, SavesMove DEF QuietStages
<1>9. CASE s = Refresh /\ (y \/ l = d)
  BY <1>9, SingleMoves DEF QuietStages
<1>10. CASE s = Refreshed /\ v = d /\ (y \/ l = d)
  BY <1>10, SingleMoves DEF QuietStages
<1> QED
  BY <1>1, <1>2, <1>3, <1>4, <1>5, <1>6, <1>7, <1>8, <1>9, <1>10 DEF Stage

LEMMA SavedMoves ==
  ASSUME NEW s, NEW v, NEW q, NEW l, NEW y, NEW d,
         Stage(s, v, q, l, y, d), s # <<>>, Head(s) = "saved"
  PROVE  Stage(Tail(s), v, q, l, y, v)
<1>1. CASE s \in Calm /\ q = Q15Of(d) /\ (y \/ l = d)
  BY <1>1, CalmMoves DEF QuietStages
<1>2. CASE s \in ToldStages /\ q = Q15Of(d) /\ l = d
  BY <1>2, ToldMoves DEF QuietStages
<1>3. CASE s \in Applies
  BY <1>3, AppliesMove DEF QuietStages
<1>4. CASE s = Alone
  BY <1>4, SingleMoves DEF QuietStages
<1>5. CASE s = AloneNext /\ l = v
  BY <1>5, SingleMoves DEF QuietStages
<1>6. CASE s \in Lasts /\ q = Q15Of(v)
  BY <1>6, LastsMove DEF QuietStages
<1>7. CASE s \in Checks /\ q = Q15Of(v) /\ l = v
  BY <1>7, ChecksMove DEF QuietStages
<1>8. CASE s \in Saves /\ q = Q15Of(v) /\ l = v
  BY <1>8, SavesMove, EndsSplit DEF Stage
<1>9. CASE s = Refresh /\ (y \/ l = d)
  BY <1>9, SingleMoves DEF QuietStages
<1>10. CASE s = Refreshed /\ v = d /\ (y \/ l = d)
  BY <1>10, SingleMoves DEF QuietStages
<1> QED
  BY <1>1, <1>2, <1>3, <1>4, <1>5, <1>6, <1>7, <1>8, <1>9, <1>10 DEF Stage

LEMMA FlagMoves ==
  ASSUME NEW s, NEW v, NEW q, NEW l, NEW y, NEW d,
         Stage(s, v, q, l, y, d), s # <<>>, Head(s) = "flag"
  PROVE  Stage(Tail(s), v, q, l, FALSE, d)
<1>1. CASE s \in Calm /\ q = Q15Of(d) /\ (y \/ l = d)
  BY <1>1, CalmMoves DEF QuietStages
<1>2. CASE s \in ToldStages /\ q = Q15Of(d) /\ l = d
  BY <1>2, ToldMoves, EndsSplit DEF Stage
<1>3. CASE s \in Applies
  BY <1>3, AppliesMove DEF QuietStages
<1>4. CASE s = Alone
  BY <1>4, SingleMoves DEF QuietStages
<1>5. CASE s = AloneNext /\ l = v
  BY <1>5, SingleMoves DEF QuietStages
<1>6. CASE s \in Lasts /\ q = Q15Of(v)
  BY <1>6, LastsMove DEF QuietStages
<1>7. CASE s \in Checks /\ q = Q15Of(v) /\ l = v
  BY <1>7, ChecksMove DEF QuietStages
<1>8. CASE s \in Saves /\ q = Q15Of(v) /\ l = v
  BY <1>8, SavesMove DEF QuietStages
<1>9. CASE s = Refresh /\ (y \/ l = d)
  BY <1>9, SingleMoves DEF QuietStages
<1>10. CASE s = Refreshed /\ v = d /\ (y \/ l = d)
  BY <1>10, SingleMoves DEF QuietStages
<1> QED
  BY <1>1, <1>2, <1>3, <1>4, <1>5, <1>6, <1>7, <1>8, <1>9, <1>10 DEF Stage

LEMMA TakenMoves ==
  ASSUME NEW s, NEW v, NEW q, NEW l, NEW y, NEW d,
         Stage(s, v, q, l, y, d), s # <<>>, Head(s) = "taken"
  PROVE  Stage(Tail(s), v, q, l, TRUE, d)
<1>1. CASE s \in Calm /\ q = Q15Of(d) /\ (y \/ l = d)
  BY <1>1, CalmMoves DEF QuietStages
<1>2. CASE s \in ToldStages /\ q = Q15Of(d) /\ l = d
  BY <1>2, ToldMoves DEF Stage
<1>3. CASE s \in Applies
  BY <1>3, AppliesMove DEF QuietStages
<1>4. CASE s = Alone
  BY <1>4, SingleMoves DEF QuietStages
<1>5. CASE s = AloneNext /\ l = v
  BY <1>5, SingleMoves DEF QuietStages
<1>6. CASE s \in Lasts /\ q = Q15Of(v)
  BY <1>6, LastsMove DEF QuietStages
<1>7. CASE s \in Checks /\ q = Q15Of(v) /\ l = v
  BY <1>7, ChecksMove DEF QuietStages
<1>8. CASE s \in Saves /\ q = Q15Of(v) /\ l = v
  BY <1>8, SavesMove DEF QuietStages
<1>9. CASE s = Refresh /\ (y \/ l = d)
  BY <1>9, SingleMoves DEF QuietStages
<1>10. CASE s = Refreshed /\ v = d /\ (y \/ l = d)
  BY <1>10, SingleMoves DEF QuietStages
<1> QED
  BY <1>1, <1>2, <1>3, <1>4, <1>5, <1>6, <1>7, <1>8, <1>9, <1>10 DEF Stage

LEMMA ReadMoves ==
  ASSUME NEW s, NEW v, NEW q, NEW l, NEW y, NEW d,
         Stage(s, v, q, l, y, d), s # <<>>, Head(s) = "read"
  PROVE  Stage(Tail(s), d, q, l, y, d)
<1>1. CASE s \in Calm /\ q = Q15Of(d) /\ (y \/ l = d)
  BY <1>1, CalmMoves DEF Stage
<1>2. CASE s \in ToldStages /\ q = Q15Of(d) /\ l = d
  BY <1>2, ToldMoves DEF QuietStages
<1>3. CASE s \in Applies
  BY <1>3, AppliesMove DEF QuietStages
<1>4. CASE s = Alone
  BY <1>4, SingleMoves DEF QuietStages
<1>5. CASE s = AloneNext /\ l = v
  BY <1>5, SingleMoves DEF QuietStages
<1>6. CASE s \in Lasts /\ q = Q15Of(v)
  BY <1>6, LastsMove DEF QuietStages
<1>7. CASE s \in Checks /\ q = Q15Of(v) /\ l = v
  BY <1>7, ChecksMove DEF QuietStages
<1>8. CASE s \in Saves /\ q = Q15Of(v) /\ l = v
  BY <1>8, SavesMove DEF QuietStages
<1>9. CASE s = Refresh /\ (y \/ l = d)
  BY <1>9, SingleMoves DEF Stage
<1>10. CASE s = Refreshed /\ v = d /\ (y \/ l = d)
  BY <1>10, SingleMoves DEF QuietStages
<1> QED
  BY <1>1, <1>2, <1>3, <1>4, <1>5, <1>6, <1>7, <1>8, <1>9, <1>10 DEF Stage

LEMMA PendingMoves ==
  ASSUME NEW s, NEW v, NEW q, NEW l, NEW y, NEW d,
         Stage(s, v, q, l, y, d), s # <<>>, Head(s) = "pending"
  PROVE  q = Q15Of(d) /\ l = d
<1>1. CASE s \in Calm /\ q = Q15Of(d) /\ (y \/ l = d)
  BY <1>1, CalmMoves DEF QuietStages
<1>2. CASE s \in ToldStages /\ q = Q15Of(d) /\ l = d
  BY <1>2, ToldMoves DEF Stage
<1>3. CASE s \in Applies
  BY <1>3, AppliesMove DEF QuietStages
<1>4. CASE s = Alone
  BY <1>4, SingleMoves DEF QuietStages
<1>5. CASE s = AloneNext /\ l = v
  BY <1>5, SingleMoves DEF QuietStages
<1>6. CASE s \in Lasts /\ q = Q15Of(v)
  BY <1>6, LastsMove DEF QuietStages
<1>7. CASE s \in Checks /\ q = Q15Of(v) /\ l = v
  BY <1>7, ChecksMove DEF QuietStages
<1>8. CASE s \in Saves /\ q = Q15Of(v) /\ l = v
  BY <1>8, SavesMove DEF QuietStages
<1>9. CASE s = Refresh /\ (y \/ l = d)
  BY <1>9, SingleMoves DEF QuietStages
<1>10. CASE s = Refreshed /\ v = d /\ (y \/ l = d)
  BY <1>10, SingleMoves DEF QuietStages
<1> QED
  BY <1>1, <1>2, <1>3, <1>4, <1>5, <1>6, <1>7, <1>8, <1>9, <1>10 DEF Stage

LEMMA TakeMoves ==
  ASSUME NEW s, NEW v, NEW q, NEW l, NEW y, NEW d,
         Stage(s, v, q, l, y, d), s # <<>>, Head(s) = "take"
  PROVE  (y /\ Stage(<<"publish">>, 0, q, l, y, d)) \/ (~y /\ Stage(<<"taken", "pending">>, 0, q, l, y, d))
<1>1. CASE s \in Calm /\ q = Q15Of(d) /\ (y \/ l = d)
  BY <1>1, CalmMoves, EndsSplit DEF Stage
<1>2. CASE s \in ToldStages /\ q = Q15Of(d) /\ l = d
  BY <1>2, ToldMoves DEF QuietStages
<1>3. CASE s \in Applies
  BY <1>3, AppliesMove DEF QuietStages
<1>4. CASE s = Alone
  BY <1>4, SingleMoves DEF QuietStages
<1>5. CASE s = AloneNext /\ l = v
  BY <1>5, SingleMoves DEF QuietStages
<1>6. CASE s \in Lasts /\ q = Q15Of(v)
  BY <1>6, LastsMove DEF QuietStages
<1>7. CASE s \in Checks /\ q = Q15Of(v) /\ l = v
  BY <1>7, ChecksMove DEF QuietStages
<1>8. CASE s \in Saves /\ q = Q15Of(v) /\ l = v
  BY <1>8, SavesMove DEF QuietStages
<1>9. CASE s = Refresh /\ (y \/ l = d)
  BY <1>9, SingleMoves DEF QuietStages
<1>10. CASE s = Refreshed /\ v = d /\ (y \/ l = d)
  BY <1>10, SingleMoves DEF QuietStages
<1> QED
  BY <1>1, <1>2, <1>3, <1>4, <1>5, <1>6, <1>7, <1>8, <1>9, <1>10 DEF Stage

LEMMA QuietMoves ==
  ASSUME NEW s, NEW v, NEW q, NEW l, NEW y, NEW d,
         Stage(s, v, q, l, y, d), s # <<>>, Head(s) \in QuietStages, NEW w
  PROVE  Stage(Tail(s), w, q, l, y, d)
<1>1. CASE s \in Calm /\ q = Q15Of(d) /\ (y \/ l = d)
  BY <1>1, CalmMoves DEF Stage
<1>2. CASE s \in ToldStages /\ q = Q15Of(d) /\ l = d
  BY <1>2, ToldMoves DEF QuietStages
<1>3. CASE s \in Applies
  BY <1>3, AppliesMove DEF QuietStages
<1>4. CASE s = Alone
  BY <1>4, SingleMoves DEF QuietStages
<1>5. CASE s = AloneNext /\ l = v
  BY <1>5, SingleMoves DEF QuietStages
<1>6. CASE s \in Lasts /\ q = Q15Of(v)
  BY <1>6, LastsMove DEF QuietStages
<1>7. CASE s \in Checks /\ q = Q15Of(v) /\ l = v
  BY <1>7, ChecksMove DEF QuietStages
<1>8. CASE s \in Saves /\ q = Q15Of(v) /\ l = v
  BY <1>8, SavesMove DEF QuietStages
<1>9. CASE s = Refresh /\ (y \/ l = d)
  BY <1>9, SingleMoves DEF QuietStages
<1>10. CASE s = Refreshed /\ v = d /\ (y \/ l = d)
  BY <1>10, SingleMoves DEF QuietStages
<1> QED
  BY <1>1, <1>2, <1>3, <1>4, <1>5, <1>6, <1>7, <1>8, <1>9, <1>10 DEF Stage

LEMMA OneMore ==
  ASSUME NEW x
  PROVE  Apply \o <<x>> = <<"q15", "last", "check", "saved", x>>
<1>1. PICK s : s = Apply
  OBVIOUS
<1>2. PICK r : r = <<x>>
  OBVIOUS
<1>3. PICK u : u = <<"q15", "last", "check", "saved", x>>
  OBVIOUS
<1>4. PICK A : A = {"q15", "last", "check", "saved", x}
  OBVIOUS
<1>5. s \in Seq(A) /\ Len(s) = 4
  BY <1>1, <1>4 DEF Apply
<1>6. r \in Seq(A) /\ Len(r) = 1
  BY <1>2, <1>4
<1>7. u \in Seq(A) /\ Len(u) = 5
  BY <1>3, <1>4
<1>8. s \o r \in Seq(A) /\ Len(s \o r) = Len(s) + Len(r)
      /\ \A i \in 1 .. Len(s) + Len(r) : (s \o r)[i] = IF i <= Len(s) THEN s[i] ELSE r[i - Len(s)]
  BY <1>5, <1>6, ConcatProperties
<1>9. Len(s \o r) = 5
  BY <1>5, <1>6, <1>8
<1>10. s[1] = u[1] /\ s[2] = u[2] /\ s[3] = u[3] /\ s[4] = u[4] /\ r[1] = u[5]
  BY <1>1, <1>2, <1>3 DEF Apply
<1>11. \A i \in 1 .. 5 : (s \o r)[i] = IF i <= 4 THEN s[i] ELSE r[i - 4]
  BY <1>5, <1>6, <1>8
<1>12. \A i \in 1 .. 5 : (s \o r)[i] = u[i]
  <2> TAKE i \in 1 .. 5
  <2>1. PICK w : w = s \o r
    OBVIOUS
  <2>2. \A j \in 1 .. 5 : w[j] = IF j <= 4 THEN s[j] ELSE r[j - 4]
    BY <2>1, <1>11
  <2>3. w[1] = s[1]
    BY <2>2
  <2>4. w[2] = s[2]
    BY <2>2
  <2>5. w[3] = s[3]
    BY <2>2
  <2>6. w[4] = s[4]
    BY <2>2
  <2>7. w[5] = r[1]
    <3>1. w[5] = r[5 - 4]
      BY <2>2
    <3> QED
      BY <3>1
  <2>8. i = 1 \/ i = 2 \/ i = 3 \/ i = 4 \/ i = 5
    OBVIOUS
  <2> QED
    BY <2>1, <2>3, <2>4, <2>5, <2>6, <2>7, <2>8, <1>10
<1>13. s \o r = u
  BY <1>7, <1>8, <1>9, <1>12, SeqEqual
<1> QED
  BY <1>1, <1>2, <1>3, <1>13

LEMMA Starts ==
  /\ Apply \in Applies /\ Apply \o <<"publish">> \in Applies
  /\ Apply \o <<"key">> \in Applies /\ <<>> \o <<"key">> \in Calm
  /\ {<<>>, <<"take">>, <<"read", "force">>, <<"restore", "unmuted">>, <<"pre", "silence", "muted">>} \subseteq Calm
<1>1. Apply \in Applies
  BY DEF Apply, Applies
<1>2. Apply \o <<"publish">> \in Applies /\ Apply \o <<"key">> \in Applies
  BY OneMore DEF Applies
<1>3. <<>> \o <<"key">> = <<"key">>
  <2>1. PICK r : r = <<"key">>
    OBVIOUS
  <2>2. r \in Seq({"key"})
    BY <2>1
  <2>3. <<>> \o r = r
    BY <2>2, ConcatEmptySeq
  <2> QED
    BY <2>1, <2>3
<1>4. {<<>>, <<"take">>, <<"key">>, <<"read", "force">>, <<"restore", "unmuted">>, <<"pre", "silence", "muted">>} \subseteq Calm
  BY DEF Calm
<1> QED
  BY <1>1, <1>2, <1>3, <1>4

Agree == q15 = Q15Of(saved) /\ (synced \/ last = saved)
Alike(t) == Stage(job[t].todo, job[t].v, q15, last, synced, saved)
(* As long as no two writers overlapped, one task at most is at work, and   *)
(* the copies are as far apart as what it has left to store.                *)
VolInv ==
    /\ DOMAIN job = Tasks
    /\ ~crossed => \E t \in Tasks : (\A u \in Tasks \ {t} : Free(u)) /\ Alike(t)

LEMMA AtRest ==
  ASSUME VolInv, Rest, ~crossed
  PROVE  Agree
<1>1. PICK t \in Tasks : Alike(t)
  BY DEF VolInv
<1>2. job[t].todo = <<>>
  BY DEF Rest, Free
<1>3. PICK v : v = job[t].v
  OBVIOUS
<1>4. Stage(<<>>, v, q15, last, synced, saved)
  BY <1>1, <1>2, <1>3 DEF Alike
<1> QED
  BY <1>4, StageAtRest DEF Agree

(* A task begins from rest, or the writers overlap.                         *)
LEMMA Beginning ==
  ASSUME VolInv, NEW t \in Tasks, NEW x, NEW w, Begin(t, x, w), UNCHANGED heard,
         Agree => Stage(x, w, q15, last, synced, saved)
  PROVE  VolInv'
<1>1. job' = [job EXCEPT ![t] = [todo |-> x, v |-> w]]
  BY DEF Begin
<1>2. DOMAIN job' = Tasks
  BY <1>1 DEF VolInv
<1>3. ASSUME ~crossed'
      PROVE  (\A u \in Tasks \ {t} : Free(u)) /\ Agree
  <2>1. ~crossed /\ (\A u \in Tasks \ {t} : Free(u))
    BY <1>3 DEF Begin
  <2>2. Rest
    BY <2>1 DEF Begin, Rest
  <2> QED
    BY <2>1, <2>2, AtRest
<1>4. \A u \in Tasks \ {t} : job'[u] = job[u]
  BY <1>1 DEF VolInv
<1>5. job'[t] = [todo |-> x, v |-> w]
  BY <1>1 DEF VolInv
<1>6. q15' = q15 /\ last' = last /\ synced' = synced /\ saved' = saved
  BY DEF heard
<1>7. ASSUME ~crossed'
      PROVE  (\A u \in Tasks \ {t} : Free(u)') /\ Alike(t)'
  <2>1. job'[t].todo = x /\ job'[t].v = w
    BY <1>5
  <2>2. Stage(x, w, q15, last, synced, saved)
    BY <1>3, <1>7
  <2>3. Alike(t)'
    BY <2>1, <2>2, <1>6 DEF Alike
  <2> QED
    BY <2>3, <1>3, <1>4, <1>7 DEF Free
<1> QED
  BY <1>2, <1>7 DEF VolInv

(* A task at work is the one at work, or the writers have overlapped.       *)
LEMMA AtWork ==
  ASSUME VolInv, NEW t \in Tasks, NEW x, NEW w, ~Free(t), Then(t, x, w), crossed' = crossed,
         Alike(t) => Stage(x, w, q15', last', synced', saved')
  PROVE  VolInv'
<1>1. job' = [job EXCEPT ![t] = [todo |-> x, v |-> w]]
  BY DEF Then
<1>2. DOMAIN job' = Tasks
  BY <1>1 DEF VolInv
<1>3. \A u \in Tasks \ {t} : job'[u] = job[u]
  BY <1>1 DEF VolInv
<1>4. job'[t].todo = x /\ job'[t].v = w
  BY <1>1 DEF VolInv
<1>5. ASSUME ~crossed'
      PROVE  (\A u \in Tasks \ {t} : Free(u)') /\ Alike(t)'
  <2>1. PICK r \in Tasks : (\A u \in Tasks \ {r} : Free(u)) /\ Alike(r)
    BY <1>5 DEF VolInv
  <2>2. r = t
    BY <2>1
  <2>3. Alike(t)'
    BY <2>1, <2>2, <1>4 DEF Alike
  <2> QED
    BY <2>1, <2>2, <2>3, <1>3 DEF Free
<1> QED
  BY <1>2, <1>5 DEF VolInv

(* The same for a store that goes on with the next one.                     *)
LEMMA GoingOn ==
  ASSUME VolInv, NEW t \in Tasks, ~Free(t), After(t), crossed' = crossed,
         NEW s, NEW v, s = job[t].todo, v = job[t].v,
         (s # <<>> /\ Stage(s, v, q15, last, synced, saved)) => Stage(Tail(s), v, q15', last', synced', saved')
  PROVE  VolInv'
<1>1. s # <<>>
  BY DEF Free
<1>2. Then(t, Tail(s), v)
  BY DEF After, Left
<1>3. Alike(t) => Stage(Tail(s), v, q15', last', synced', saved')
  BY <1>1 DEF Alike
<1> QED
  BY <1>2, <1>3, AtWork

LEMMA Requesting ==
  ASSUME VolInv, Requests
  PROVE  VolInv'
<1>0. "client" \in Tasks /\ "web" \in Tasks /\ "button" \in Tasks /\ "server" \in Tasks
  BY DEF Tasks
<1>1. \A x \in Calm : \A w : Agree => Stage(x, w, q15, last, synced, saved)
  BY DEF Stage, Agree
<1>2. \A x \in Applies : \A w : Stage(x, w, q15, last, synced, saved)
  BY DEF Stage
<1>3. CASE PhoneConnects
  <2>1. Begin("client", <<"take">>, 0) /\ UNCHANGED heard
    BY <1>3 DEF PhoneConnects
  <2>2. Agree => Stage(<<"take">>, 0, q15, last, synced, saved)
    BY <1>1, Starts
  <2> QED
    BY <1>0, <2>1, <2>2, Beginning
<1>4. CASE PutDacBack
  <2>1. Begin("client", <<"read", "force">>, 0) /\ UNCHANGED heard
    BY <1>4 DEF PutDacBack
  <2>2. Agree => Stage(<<"read", "force">>, 0, q15, last, synced, saved)
    BY <1>1, Starts
  <2> QED
    BY <1>0, <2>1, <2>2, Beginning
<1>5. CASE Disconnect
  <2>1. UNCHANGED <<saved, q15, last, synced, job, crossed>>
    BY <1>5 DEF Disconnect
  <2> QED
    BY <2>1 DEF VolInv, Alike, Free
<1>6. CASE ToggleMute
  <2>1. PICK x : /\ x = <<"restore", "unmuted">> \/ x = <<"pre", "silence", "muted">>
                 /\ Begin("button", x, 0)
    BY <1>6 DEF ToggleMute
  <2>2. UNCHANGED heard
    BY <1>6 DEF ToggleMute
  <2>3. x \in Calm
    BY <2>1, Starts
  <2>4. Agree => Stage(x, 0, q15, last, synced, saved)
    BY <1>1, <2>3
  <2> QED
    BY <1>0, <2>1, <2>2, <2>4, Beginning
<1>7. CASE SetSource
  <2>1. UNCHANGED <<saved, q15, last, synced>> /\ Free("server")
    BY <1>7 DEF SetSource, heard
  <2>2. CASE UNCHANGED <<job, crossed>>
    BY <2>1, <2>2 DEF VolInv, Alike, Free
  <2>3. CASE /\ job' = [job EXCEPT !["server"] = [todo |-> <<"read", "q15">>, v |-> 0]]
             /\ crossed' = (crossed \/ ~Rest)
    <3>1. DOMAIN job' = Tasks /\ \A u \in Tasks \ {"server"} : job'[u] = job[u]
      BY <2>3 DEF VolInv
    <3>2. job'["server"] = [todo |-> Refresh, v |-> 0]
      BY <2>3, <1>0 DEF VolInv, Refresh
    <3>3. ASSUME ~crossed'
          PROVE  (\A u \in Tasks \ {"server"} : Free(u)') /\ Alike("server")'
      <4>1. Rest /\ ~crossed
        BY <2>3, <3>3
      <4>2. Agree
        BY <4>1, AtRest
      <4>3. job'["server"].todo = Refresh
        BY <3>2
      <4>4. Alike("server")'
        BY <4>2, <4>3, <2>1 DEF Alike, Stage, Agree
      <4> QED
        BY <4>1, <4>4, <3>1 DEF Rest, Free
    <3> QED
      BY <3>1, <3>3, <1>0 DEF VolInv
  <2> QED
    BY <2>2, <2>3, <1>7 DEF SetSource
<1>8. CASE \E p \in Levels : PhoneSets(p)
  <2>1. PICK p : Begin("client", Apply, p) /\ UNCHANGED heard
    BY <1>8 DEF PhoneSets
  <2>2. Stage(Apply, p, q15, last, synced, saved)
    BY <1>2, Starts
  <2> QED
    BY <1>0, <2>1, <2>2, Beginning
<1>9. CASE \E p \in Levels : WebSets(p)
  <2>1. PICK x, w : (x = Apply \/ x = Alone) /\ Begin("web", x, w) /\ UNCHANGED heard
    BY <1>9 DEF WebSets
  <2>2. x \in Applies \/ x = Alone
    BY <2>1, Starts
  <2>3. Stage(x, w, q15, last, synced, saved)
    BY <2>2 DEF Stage
  <2> QED
    BY <1>0, <2>1, <2>3, Beginning
<1>10. CASE \E delta \in {Step, -Step} : Key(delta)
  <2>1. PICK x, w : (x = Apply \/ x = <<>>) /\ Begin("button", x \o <<"key">>, w) /\ UNCHANGED heard
    BY <1>10 DEF Key
  <2>2. PICK y : y = x \o <<"key">>
    OBVIOUS
  <2>3. y \in Applies \/ y \in Calm
    BY <2>1, <2>2, Starts
  <2>4. Agree => Stage(y, w, q15, last, synced, saved)
    BY <1>1, <1>2, <2>3
  <2> QED
    BY <1>0, <2>1, <2>2, <2>4, Beginning
<1> QED
  BY <1>3, <1>4, <1>5, <1>6, <1>7, <1>8, <1>9, <1>10 DEF Requests

LEMMA Storing ==
  ASSUME VolInv, NEW t \in Tasks, Check(t) \/ Take(t) \/ Store(t), crossed' = crossed
  PROVE  VolInv'
<1>1. PICK s, v : s = job[t].todo /\ v = job[t].v
  OBVIOUS
<1>2. ~Free(t) /\ s # <<>>
  BY <1>1 DEF Check, Take, Store, Do, Free
<1>3. ASSUME Alike(t)
      PROVE  Stage(s, v, q15, last, synced, saved)
  BY <1>1, <1>3 DEF Alike
<1>4. CASE Check(t)
  <2>1. Head(s) = "check" /\ UNCHANGED <<q15, last, synced, saved>>
    BY <1>1, <1>4 DEF Check, Do
  <2>2. \/ Then(t, Tail(s), v)
        \/ saved = v /\ Then(t, Tail(Tail(s)), v)
    BY <1>1, <1>4 DEF Check, After, Left
  <2>3. CASE Then(t, Tail(s), v)
    <3>1. Alike(t) => Stage(Tail(s), v, q15', last', synced', saved')
      BY <1>2, <1>3, <2>1, CheckMoves
    <3> QED
      BY <1>2, <2>3, <3>1, AtWork
  <2>4. CASE saved = v /\ Then(t, Tail(Tail(s)), v)
    <3>1. Alike(t) => Stage(Tail(Tail(s)), v, q15', last', synced', saved')
      BY <1>2, <1>3, <2>1, <2>4, CheckMoves
    <3> QED
      BY <1>2, <2>4, <3>1, AtWork
  <2> QED
    BY <2>2, <2>3, <2>4
<1>5. CASE Take(t)
  <2>1. Head(s) = "take" /\ UNCHANGED <<q15, last, synced, saved>>
    BY <1>1, <1>5 DEF Take, Do, heard
  <2>2. Alike(t) => \/ synced /\ Stage(<<"publish">>, 0, q15, last, synced, saved)
                    \/ ~synced /\ Stage(<<"taken", "pending">>, 0, q15, last, synced, saved)
    BY <1>2, <1>3, <2>1, TakeMoves
  <2>3. CASE synced
    <3>1. Then(t, <<"publish">>, 0)
      BY <1>5, <2>3 DEF Take
    <3>2. Alike(t) => Stage(<<"publish">>, 0, q15', last', synced', saved')
      BY <2>1, <2>2, <2>3
    <3> QED
      BY <1>2, <3>1, <3>2, AtWork
  <2>4. CASE ~synced
    <3>1. Then(t, <<"taken", "pending">>, 0)
      BY <1>5, <2>4 DEF Take
    <3>2. Alike(t) => Stage(<<"taken", "pending">>, 0, q15', last', synced', saved')
      BY <2>1, <2>2, <2>4
    <3> QED
      BY <1>2, <3>1, <3>2, AtWork
  <2> QED
    BY <2>3, <2>4
<1>6. CASE Do(t, "read") /\ Then(t, Left(t), saved) /\ UNCHANGED heard
  <2>1. Head(s) = "read" /\ Then(t, Tail(s), saved) /\ UNCHANGED <<q15, last, synced, saved>>
    BY <1>1, <1>6 DEF Do, heard, Left
  <2>2. Alike(t) => Stage(Tail(s), saved, q15', last', synced', saved')
    BY <1>2, <1>3, <2>1, ReadMoves
  <2> QED
    BY <1>2, <2>1, <2>2, AtWork
<1>7. CASE Do(t, "pending") /\ Then(t, Apply \o <<"publish">>, last)
  <2>1. PICK x : x = Apply \o <<"publish">>
    OBVIOUS
  <2>2. x \in Applies
    BY <2>1, Starts
  <2>3. Stage(x, last, q15', last', synced', saved')
    BY <2>2 DEF Stage
  <2> QED
    BY <1>2, <1>7, <2>1, <2>3, AtWork
<1>8. CASE Do(t, "q15") /\ q15' = Q15Of(job[t].v) /\ After(t) /\ UNCHANGED <<saved, last, synced>>
  <2>1. Head(s) = "q15" /\ q15' = Q15Of(v)
    BY <1>1, <1>8 DEF Do
  <2>2. (s # <<>> /\ Stage(s, v, q15, last, synced, saved)) => Stage(Tail(s), v, q15', last', synced', saved')
    BY <1>8, <2>1, Q15Moves
  <2> QED
    BY <1>1, <1>2, <1>8, <2>2, GoingOn
<1>9. CASE Do(t, "last") /\ last' = job[t].v /\ After(t) /\ UNCHANGED <<saved, q15, synced>>
  <2>1. Head(s) = "last" /\ last' = v
    BY <1>1, <1>9 DEF Do
  <2>2. (s # <<>> /\ Stage(s, v, q15, last, synced, saved)) => Stage(Tail(s), v, q15', last', synced', saved')
    BY <1>9, <2>1, LastMoves
  <2> QED
    BY <1>1, <1>2, <1>9, <2>2, GoingOn
<1>10. CASE Do(t, "saved") /\ saved' = job[t].v /\ After(t) /\ UNCHANGED <<q15, last, synced>>
  <2>1. Head(s) = "saved" /\ saved' = v
    BY <1>1, <1>10 DEF Do
  <2>2. (s # <<>> /\ Stage(s, v, q15, last, synced, saved)) => Stage(Tail(s), v, q15', last', synced', saved')
    BY <1>10, <2>1, SavedMoves
  <2> QED
    BY <1>1, <1>2, <1>10, <2>2, GoingOn
<1>11. CASE Do(t, "flag") /\ synced' = FALSE /\ After(t) /\ UNCHANGED <<saved, q15, last>>
  <2>1. Head(s) = "flag"
    BY <1>1, <1>11 DEF Do
  <2>2. (s # <<>> /\ Stage(s, v, q15, last, synced, saved)) => Stage(Tail(s), v, q15', last', synced', saved')
    BY <1>11, <2>1, FlagMoves
  <2> QED
    BY <1>1, <1>2, <1>11, <2>2, GoingOn
<1>12. CASE Do(t, "taken") /\ synced' = TRUE /\ After(t) /\ UNCHANGED <<saved, q15, last>>
  <2>1. Head(s) = "taken"
    BY <1>1, <1>12 DEF Do
  <2>2. (s # <<>> /\ Stage(s, v, q15, last, synced, saved)) => Stage(Tail(s), v, q15', last', synced', saved')
    BY <1>12, <2>1, TakenMoves
  <2> QED
    BY <1>1, <1>2, <1>12, <2>2, GoingOn
<1>13. CASE (Do(t, "publish") \/ Do(t, "force")) /\ After(t) /\ UNCHANGED <<saved, q15, last, synced>>
  <2>1. Head(s) \in QuietStages
    BY <1>1, <1>13 DEF Do, QuietStages
  <2>2. (s # <<>> /\ Stage(s, v, q15, last, synced, saved)) => Stage(Tail(s), v, q15', last', synced', saved')
    BY <1>13, <2>1, QuietMoves
  <2> QED
    BY <1>1, <1>2, <1>13, <2>2, GoingOn
<1> QED
  <2>1. Store(t) =>
          \/ Do(t, "read") /\ Then(t, Left(t), saved) /\ UNCHANGED heard
          \/ Do(t, "pending") /\ Then(t, Apply \o <<"publish">>, last)
          \/ Do(t, "q15") /\ q15' = Q15Of(job[t].v) /\ After(t) /\ UNCHANGED <<saved, last, synced>>
          \/ Do(t, "last") /\ last' = job[t].v /\ After(t) /\ UNCHANGED <<saved, q15, synced>>
          \/ Do(t, "saved") /\ saved' = job[t].v /\ After(t) /\ UNCHANGED <<q15, last, synced>>
          \/ Do(t, "flag") /\ synced' = FALSE /\ After(t) /\ UNCHANGED <<saved, q15, last>>
          \/ Do(t, "taken") /\ synced' = TRUE /\ After(t) /\ UNCHANGED <<saved, q15, last>>
          \/ (Do(t, "publish") \/ Do(t, "force")) /\ After(t) /\ UNCHANGED <<saved, q15, last, synced>>
    BY DEF Store
  <2> QED
    BY <2>1, <1>4, <1>5, <1>6, <1>7, <1>8, <1>9, <1>10, <1>11, <1>12, <1>13

LEMMA LocalStoring ==
  ASSUME VolInv, LocalStore, crossed' = crossed
  PROVE  VolInv'
<1>1. PICK s, v : s = job["button"].todo /\ v = job["button"].v
  OBVIOUS
<1>2. "button" \in Tasks /\ ~Free("button") /\ After("button") /\ UNCHANGED <<saved, q15, last, synced>>
  BY DEF LocalStore, Tasks
<1>3. Head(s) \in QuietStages
  BY <1>1 DEF LocalStore, Do, QuietStages
<1>4. (s # <<>> /\ Stage(s, v, q15, last, synced, saved)) => Stage(Tail(s), v, q15', last', synced', saved')
  BY <1>2, <1>3, QuietMoves
<1> QED
  BY <1>1, <1>2, <1>4, GoingOn

LEMMA VolumeStarts == VolumeInit => VolInv
<1> SUFFICES ASSUME VolumeInit
             PROVE  VolInv
  OBVIOUS
<1>1. job = [t \in Tasks |-> IF t = "server" THEN [todo |-> <<"read", "q15">>, v |-> 0] ELSE NoJob]
  BY DEF VolumeInit
<1>2. "server" \in Tasks
  BY DEF Tasks
<1>3. job["server"].todo = Refresh
  BY <1>1, <1>2 DEF Refresh
<1>4. \A u \in Tasks \ {"server"} : Free(u)
  BY <1>1 DEF Free, NoJob
<1>5. Alike("server")
  BY <1>3 DEF Alike, Stage, VolumeInit
<1> QED
  BY <1>1, <1>2, <1>4, <1>5 DEF VolInv

LEMMA VolumeMoves == VolInv /\ [VolumeNext]_volumeVars => VolInv'
<1> SUFFICES ASSUME VolInv, [VolumeNext]_volumeVars
             PROVE  VolInv'
  OBVIOUS
<1>1. CASE Requests
  BY <1>1, Requesting
<1>2. CASE Working
  BY <1>2, Storing, LocalStoring DEF Working
<1>3. CASE UNCHANGED volumeVars
  BY <1>3 DEF volumeVars, heard, local, VolInv, Alike, Free
<1> QED
  BY <1>1, <1>2, <1>3 DEF VolumeNext

(* The settings, the audio path and the value the next client is told are   *)
(* one volume whenever every writer is done and no two of them overlapped.  *)
THEOREM CopiesAgreeAtRest == VolumeSpec => []CachesAgree
<1>1. VolInv => CachesAgree
  BY AtRest DEF CachesAgree, Agree
<1> QED
  BY <1>1, VolumeStarts, VolumeMoves, PTL DEF VolumeSpec

-----------------------------------------------------------------------------
(* The TAS57xx chips (SqueezeAmp): what the operation inside the lock has   *)
(* yet to do is excused, the mixers of a changed source and the flows of    *)
(* clocks that have just come up; besides, a mixer that runs is known, and  *)
(* flows said to be resident are, unless a download failed.                 *)
Inside(op) == busy # <<>> /\ busy[1] = op
TasTypes ==
  /\ power \in {"off", "standby", "on"}
  /\ running \in BOOLEAN /\ resident \in BOOLEAN /\ failed \in BOOLEAN
  /\ \/ busy \in {<<>>, <<"standby">>, <<"on">>, <<"off">>, <<"i2s">>}
     \/ \E s : busy = <<"input", s>>
  /\ hasMix \in [DacChips -> BOOLEAN] /\ file \in [DacChips -> Flows]
  /\ DOMAIN tas = DacChips
  /\ \A c \in DacChips :
       /\ tas[c] = [run |-> tas[c].run, muted |-> tas[c].muted, analog |-> tas[c].analog,
                    flow |-> tas[c].flow, vol |-> tas[c].vol, mix |-> tas[c].mix]
       /\ tas[c].muted \in BOOLEAN /\ tas[c].flow \in BOOLEAN
Told(c) == tas[c].muted = (power # "on") /\ tas[c].vol = Level(c, lastDb, offset)
MixTold(c) == tas[c].flow /\ file[c] = "mixer" => hasMix[c] /\ (Inside("input") \/ tas[c].mix = src)
FlowRuns(c) == running /\ power # "off" /\ file[c] # "none" /\ ~failed => Inside("i2s") \/ tas[c].flow
FlowStays(c) == resident /\ ~failed /\ file[c] # "none" => tas[c].flow
SqueezeInv ==
  /\ TasTypes
  /\ resident => power # "off"
  /\ \A c \in DacChips : Told(c) /\ MixTold(c) /\ FlowRuns(c) /\ FlowStays(c)

LEMMA SqueezeStarts == SqueezeInit => SqueezeInv
<1> SUFFICES ASSUME SqueezeInit
             PROVE  SqueezeInv
  OBVIOUS
<1>1. \A c \in DacChips : tas[c] = [run |-> "down", muted |-> TRUE, analog |-> FALSE, flow |-> FALSE,
                                    vol |-> Level(c, lastDb, offset), mix |-> "reset"]
  BY DEF SqueezeInit, Blank
<1>2. TasTypes
  BY <1>1 DEF SqueezeInit, TasTypes
<1>3. \A c \in DacChips : Told(c)
  BY <1>1 DEF SqueezeInit, Told
<1>4. \A c \in DacChips : MixTold(c) /\ FlowRuns(c) /\ FlowStays(c)
  BY <1>1 DEF SqueezeInit, MixTold, FlowRuns, FlowStays
<1>5. ~resident
  BY DEF SqueezeInit
<1> QED
  BY <1>2, <1>3, <1>4, <1>5 DEF SqueezeInv

(* The speakers change nothing else.                                        *)
LEMMA SpeakersOnly ==
  ASSUME SqueezeInv, tas' = tas \/ \E on : tas' = Enabled(tas, on),
         UNCHANGED <<file, hasMix, power, running, resident, lastDb, offset, src, busy, failed>>
  PROVE  SqueezeInv'
<1>1. DOMAIN tas' = DacChips
  BY DEF Enabled, SqueezeInv, TasTypes
<1>2. \A c \in DacChips : \E a : tas'[c] = [tas[c] EXCEPT !.analog = a] \/ tas'[c] = tas[c]
  BY DEF Enabled
<1>3. \A c \in DacChips :
        /\ tas'[c] = [run |-> tas'[c].run, muted |-> tas'[c].muted, analog |-> tas'[c].analog,
                      flow |-> tas'[c].flow, vol |-> tas'[c].vol, mix |-> tas'[c].mix]
        /\ tas'[c].muted = tas[c].muted /\ tas'[c].flow = tas[c].flow
        /\ tas'[c].vol = tas[c].vol /\ tas'[c].mix = tas[c].mix
  BY <1>2 DEF SqueezeInv, TasTypes
<1>4. TasTypes'
  BY <1>1, <1>3 DEF SqueezeInv, TasTypes
<1> QED
  BY <1>3, <1>4 DEF SqueezeInv, Told, MixTold, FlowRuns, FlowStays, Inside

LEMMA Ordered ==
  ASSUME SqueezeInv, NEW l, NEW o, SetDacVolume(l, o)
  PROVE  SqueezeInv'
<1>1. \A c \in DacChips : tas'[c] = [tas[c] EXCEPT !.vol = Level(c, l, o)]
  BY DEF SetDacVolume
<1>2. \A c \in DacChips :
        /\ tas'[c] = [run |-> tas'[c].run, muted |-> tas'[c].muted, analog |-> tas'[c].analog,
                      flow |-> tas'[c].flow, vol |-> tas'[c].vol, mix |-> tas'[c].mix]
        /\ tas'[c].muted = tas[c].muted /\ tas'[c].flow = tas[c].flow
        /\ tas'[c].vol = Level(c, l, o) /\ tas'[c].mix = tas[c].mix
  BY <1>1 DEF SqueezeInv, TasTypes
<1>3. TasTypes'
  BY <1>2 DEF SetDacVolume, SqueezeInv, TasTypes
<1>4. \A c \in DacChips : Told(c)'
  BY <1>2 DEF SetDacVolume, SqueezeInv, Told
<1>5. busy' = busy /\ UNCHANGED <<file, hasMix, power, running, resident, src, failed>>
  BY DEF SetDacVolume
<1>6. \A c \in DacChips : MixTold(c)'
  BY <1>2, <1>5 DEF SqueezeInv, MixTold, Inside
<1>7. \A c \in DacChips : FlowRuns(c)' /\ FlowStays(c)'
  BY <1>2, <1>5 DEF SqueezeInv, FlowRuns, FlowStays, Inside
<1> QED
  BY <1>3, <1>4, <1>5, <1>6, <1>7 DEF SqueezeInv

LEMMA Entered ==
  ASSUME SqueezeInv, NEW op, Enter(op),
         op \in {<<"standby">>, <<"on">>, <<"off">>, <<"i2s">>} \/ \E s : op = <<"input", s>>
  PROVE  SqueezeInv'
<1>1. tas' = tas \/ tas' = Enabled(tas, FALSE)
  BY DEF Enter
<1>2. DOMAIN tas' = DacChips
  BY <1>1 DEF Enabled, SqueezeInv, TasTypes
<1>3. \A c \in DacChips :
        /\ tas'[c] = [run |-> tas'[c].run, muted |-> tas'[c].muted, analog |-> tas'[c].analog,
                      flow |-> tas'[c].flow, vol |-> tas'[c].vol, mix |-> tas'[c].mix]
        /\ tas'[c].muted = tas[c].muted /\ tas'[c].flow = tas[c].flow
        /\ tas'[c].vol = tas[c].vol /\ tas'[c].mix = tas[c].mix
  BY <1>1 DEF Enabled, SqueezeInv, TasTypes
<1>4. /\ busy = <<>> /\ busy' = op /\ running' = (running \/ op[1] = "i2s")
      /\ src' = IF op[1] = "input" THEN op[2] ELSE src
      /\ UNCHANGED <<file, hasMix, power, resident, lastDb, offset, failed>>
  BY DEF Enter
<1>5. busy' # <<>>
  BY <1>4
<1>6. running' \in BOOLEAN
  BY <1>4 DEF SqueezeInv, TasTypes
<1>7. TasTypes'
  BY <1>2, <1>3, <1>4, <1>6 DEF SqueezeInv, TasTypes
<1>8. \A c \in DacChips : Told(c)' /\ FlowStays(c)'
  BY <1>3, <1>4 DEF SqueezeInv, Told, FlowStays
<1>9. \A c \in DacChips : MixTold(c)'
  BY <1>3, <1>4, <1>5 DEF SqueezeInv, MixTold, Inside
<1>10. \A c \in DacChips : FlowRuns(c)'
  BY <1>3, <1>4, <1>5 DEF SqueezeInv, FlowRuns, Inside
<1> QED
  BY <1>4, <1>7, <1>8, <1>9, <1>10 DEF SqueezeInv

(* What tas57xx_restore_config makes of a chip, and of the flags.           *)
LEMMA Restores ==
  ASSUME SqueezeInv, Needed, NEW ok \in [DacChips -> BOOLEAN]
  PROVE  /\ ~resident
         /\ DOMAIN ProgramDevice(tas, ok) = DacChips /\ Mixes(ok) \in [DacChips -> BOOLEAN]
         /\ \A c \in DacChips :
              LET t == ProgramDevice(tas, ok)[c] IN
              /\ t = [run |-> t.run, muted |-> t.muted, analog |-> t.analog, flow |-> t.flow, vol |-> t.vol, mix |-> t.mix]
              /\ t.muted = TRUE /\ t.vol = Level(c, lastDb, offset)
              /\ t.flow = (IF file[c] # "none" /\ running THEN ok[c] ELSE tas[c].flow)
              /\ t.mix = (IF c \notin Loads(ok) THEN tas[c].mix ELSE IF file[c] = "mixer" THEN src ELSE "flow")
<1>1. ~resident
  BY DEF Needed, SqueezeInv
<1>2. DOMAIN ProgramDevice(tas, ok) = DacChips
  BY DEF ProgramDevice
<1>3. Mixes(ok) \in [DacChips -> BOOLEAN]
  BY DEF Mixes, SqueezeInv, TasTypes
<1>4. ASSUME NEW c \in DacChips, NEW t, t = ProgramDevice(tas, ok)[c]
      PROVE  /\ t = [run |-> t.run, muted |-> t.muted, analog |-> t.analog, flow |-> t.flow, vol |-> t.vol, mix |-> t.mix]
             /\ t.muted = TRUE /\ t.vol = Level(c, lastDb, offset)
             /\ t.flow = (IF file[c] # "none" /\ running THEN ok[c] ELSE tas[c].flow)
             /\ t.mix = (IF c \notin Loads(ok) THEN tas[c].mix ELSE IF file[c] = "mixer" THEN src ELSE "flow")
  <2>1. tas[c] = [run |-> tas[c].run, muted |-> tas[c].muted, analog |-> tas[c].analog,
                  flow |-> tas[c].flow, vol |-> tas[c].vol, mix |-> tas[c].mix]
    BY DEF SqueezeInv, TasTypes
  <2>2. PICK v, f, m : /\ v = Level(c, lastDb, offset)
                       /\ f = (IF file[c] # "none" /\ running THEN ok[c] ELSE tas[c].flow)
                       /\ m = (IF c \notin Loads(ok) THEN tas[c].mix ELSE IF file[c] = "mixer" THEN src ELSE "flow")
    OBVIOUS
  <2>3. t = [tas[c] EXCEPT !.run = "standby", !.muted = TRUE, !.vol = v, !.flow = f, !.mix = m]
    BY <1>4, <2>2 DEF ProgramDevice
  <2> QED
    BY <2>1, <2>2, <2>3
<1> QED
  BY <1>1, <1>2, <1>3, <1>4

(* What the chips are once they have been programmed, or not.               *)
Shaped(p) ==
  /\ DOMAIN p.tas = DacChips /\ p.hasMix \in [DacChips -> BOOLEAN]
  /\ p.resident \in BOOLEAN /\ p.failed \in BOOLEAN /\ (failed => p.failed)
  /\ \A c \in DacChips :
       /\ p.tas[c] = [run |-> p.tas[c].run, muted |-> p.tas[c].muted, analog |-> p.tas[c].analog,
                      flow |-> p.tas[c].flow, vol |-> p.tas[c].vol, mix |-> p.tas[c].mix]
       /\ p.tas[c].muted \in BOOLEAN /\ p.tas[c].flow \in BOOLEAN
       /\ p.tas[c].vol = Level(c, lastDb, offset)
       /\ (Needed => p.tas[c].muted = TRUE)
MixesAsTold(p) == \A c \in DacChips : p.tas[c].flow /\ file[c] = "mixer" => p.hasMix[c] /\ p.tas[c].mix = src
FlowsResident(p) == \A c \in DacChips : p.resident /\ ~p.failed /\ file[c] # "none" => p.tas[c].flow
FlowsLoaded(p) == \A c \in DacChips : Needed /\ running /\ ~p.failed /\ file[c] # "none" => p.tas[c].flow
AsBefore(p) == ~Needed => p.tas = tas /\ p.resident = resident /\ p.failed = failed

LEMMA Programmes ==
  ASSUME SqueezeInv, NEW ok \in [DacChips -> BOOLEAN], NEW p, p = Programmed(Needed, ok), ~Inside("input")
  PROVE  Shaped(p) /\ MixesAsTold(p) /\ FlowsResident(p) /\ FlowsLoaded(p) /\ AsBefore(p)
<1>1. CASE ~Needed
  <2>1. p.tas = tas /\ p.hasMix = hasMix /\ p.resident = resident /\ p.failed = failed
    BY <1>1 DEF Programmed
  <2> QED
    BY <1>1, <2>1 DEF SqueezeInv, TasTypes, Told, MixTold, FlowStays,
                      Shaped, MixesAsTold, FlowsResident, FlowsLoaded, AsBefore
<1>2. CASE Needed
  <2>1. PICK t : t = ProgramDevice(tas, ok)
    OBVIOUS
  <2>2. PICK h : h = Mixes(ok)
    OBVIOUS
  <2>3. PICK r \in BOOLEAN, f \in BOOLEAN :
          /\ r = (resident \/ Loads(ok) # {})
          /\ f = (failed \/ (running /\ \E c \in DacChips : file[c] # "none" /\ ~ok[c]))
    OBVIOUS
  <2>4. p.tas = t /\ p.hasMix = h /\ p.resident = r /\ p.failed = f
    BY <1>2, <2>1, <2>2, <2>3 DEF Programmed
  <2>5. ~resident /\ DOMAIN t = DacChips /\ h \in [DacChips -> BOOLEAN]
    BY <1>2, <2>1, <2>2, Restores
  <2>6. \A c \in DacChips :
          /\ t[c] = [run |-> t[c].run, muted |-> t[c].muted, analog |-> t[c].analog,
                     flow |-> t[c].flow, vol |-> t[c].vol, mix |-> t[c].mix]
          /\ t[c].muted = TRUE /\ t[c].vol = Level(c, lastDb, offset)
          /\ t[c].flow = (IF file[c] # "none" /\ running THEN ok[c] ELSE tas[c].flow)
          /\ t[c].mix = (IF c \notin Loads(ok) THEN tas[c].mix ELSE IF file[c] = "mixer" THEN src ELSE "flow")
    BY <1>2, <2>1, Restores
  <2>7. r => running
    BY <2>3, <2>5 DEF Loads
  <2>8. ASSUME NEW c \in DacChips
        PROVE  /\ t[c].flow \in BOOLEAN
               /\ t[c].flow /\ file[c] = "mixer" => h[c] /\ t[c].mix = src
               /\ running /\ ~f /\ file[c] # "none" => t[c].flow
    <3>1. tas[c].flow \in BOOLEAN /\ ok[c] \in BOOLEAN
      BY DEF SqueezeInv, TasTypes
    <3>2. t[c].flow = (IF file[c] # "none" /\ running THEN ok[c] ELSE tas[c].flow)
      BY <2>6
    <3>3. t[c].flow \in BOOLEAN
      BY <3>1, <3>2
    <3>4. c \in Loads(ok) <=> file[c] # "none" /\ running /\ ok[c]
      BY DEF Loads
    <3>5. h[c] = IF c \in Loads(ok) THEN file[c] = "mixer" ELSE hasMix[c]
      BY <2>2 DEF Mixes
    <3>6. tas[c].flow /\ file[c] = "mixer" => hasMix[c] /\ tas[c].mix = src
      BY DEF SqueezeInv, MixTold
    <3>7. t[c].flow /\ file[c] = "mixer" => h[c] /\ t[c].mix = src
      BY <2>6, <3>1, <3>2, <3>4, <3>5, <3>6
    <3>8. running /\ ~f /\ file[c] # "none" => t[c].flow
      BY <2>3, <3>1, <3>2
    <3> QED
      BY <3>3, <3>7, <3>8
  <2>9. /\ DOMAIN p.tas = DacChips /\ p.hasMix \in [DacChips -> BOOLEAN]
        /\ p.resident \in BOOLEAN /\ p.failed \in BOOLEAN /\ (failed => p.failed)
    BY <2>3, <2>4, <2>5
  <2>10. ASSUME NEW c \in DacChips
         PROVE  /\ p.tas[c] = [run |-> p.tas[c].run, muted |-> p.tas[c].muted, analog |-> p.tas[c].analog,
                               flow |-> p.tas[c].flow, vol |-> p.tas[c].vol, mix |-> p.tas[c].mix]
                /\ p.tas[c].muted = TRUE /\ p.tas[c].vol = Level(c, lastDb, offset)
    BY <2>4, <2>6
  <2>11. ASSUME NEW c \in DacChips
         PROVE  /\ p.tas[c].flow \in BOOLEAN
                /\ (p.tas[c].flow /\ file[c] = "mixer" => p.hasMix[c] /\ p.tas[c].mix = src)
                /\ (running /\ ~p.failed /\ file[c] # "none" => p.tas[c].flow)
                /\ (p.resident => running)
    BY <2>4, <2>7, <2>8
  <2>12. Shaped(p)
    BY <1>2, <2>9, <2>10, <2>11 DEF Shaped
  <2> QED
    BY <1>2, <2>11, <2>12 DEF MixesAsTold, FlowsResident, FlowsLoaded, AsBefore
<1> QED
  BY <1>1, <1>2

LEMMA StaysInside ==
  ASSUME SqueezeInv, NEW ok \in [DacChips -> BOOLEAN], Leave(ok)
  PROVE  SqueezeInv'
<1>1. PICK p : p = Programmed(Needed, ok)
  OBVIOUS
<1>2. /\ busy # <<>> /\ busy[1] \in {"standby", "on", "i2s"} /\ busy' = <<>>
      /\ hasMix' = p.hasMix /\ resident' = p.resident /\ failed' = p.failed
      /\ power' = IF busy[1] = "i2s" THEN power ELSE busy[1]
      /\ UNCHANGED <<file, running, lastDb, offset, src>>
  BY <1>1 DEF Leave
<1>3. ~Inside("input")
  BY <1>2 DEF Inside
<1>4. busy \in {<<"standby">>, <<"on">>, <<"i2s">>}
  BY <1>2 DEF SqueezeInv, TasTypes
<1>5. Shaped(p) /\ MixesAsTold(p) /\ FlowsResident(p) /\ FlowsLoaded(p) /\ AsBefore(p)
  BY <1>1, <1>3, Programmes
<1>6. ~Needed => p.tas = tas /\ p.resident = resident /\ p.failed = failed
  BY <1>5 DEF AsBefore
<1>7. \A c \in DacChips :
        /\ p.tas[c] = [run |-> p.tas[c].run, muted |-> p.tas[c].muted, analog |-> p.tas[c].analog,
                       flow |-> p.tas[c].flow, vol |-> p.tas[c].vol, mix |-> p.tas[c].mix]
        /\ p.tas[c].muted \in BOOLEAN /\ p.tas[c].flow \in BOOLEAN
        /\ p.tas[c].vol = Level(c, lastDb, offset)
        /\ (Needed => p.tas[c].muted = TRUE)
  BY <1>5 DEF Shaped
<1>8. \A c \in DacChips :
        /\ (p.tas[c].flow /\ file[c] = "mixer" => p.hasMix[c] /\ p.tas[c].mix = src)
        /\ (p.resident /\ ~p.failed /\ file[c] # "none" => p.tas[c].flow)
        /\ (Needed /\ running /\ ~p.failed /\ file[c] # "none" => p.tas[c].flow)
  BY <1>5 DEF MixesAsTold, FlowsResident, FlowsLoaded
<1>9. /\ busy = <<"standby">> => tas' = Sent(p.tas, "standby", TRUE)
      /\ busy = <<"on">> \/ (busy = <<"i2s">> /\ Needed /\ power = "on")
           => tas' = Enabled(Sent(p.tas, "active", FALSE), TRUE)
      /\ busy = <<"i2s">> /\ ~(Needed /\ power = "on") => tas' = p.tas
  <2>1. <<"standby">> # <<"on">> /\ <<"standby">> # <<"i2s">> /\ <<"i2s">> # <<"on">>
    OBVIOUS
  <2>2. CASE busy = <<"standby">>
    <3>1. ~(Needed /\ power = "on")
      BY <2>1, <2>2 DEF Needed
    <3> QED
      BY <1>1, <2>1, <2>2, <3>1 DEF Leave
  <2>3. CASE busy = <<"on">>
    BY <1>1, <2>1, <2>3 DEF Leave
  <2>4. CASE busy = <<"i2s">> /\ Needed /\ power = "on"
    BY <1>1, <2>1, <2>4 DEF Leave
  <2>5. CASE busy = <<"i2s">> /\ ~(Needed /\ power = "on")
    BY <1>1, <2>1, <2>5 DEF Leave
  <2> QED
    BY <1>4, <2>1, <2>2, <2>3, <2>4, <2>5
<1>9a. ASSUME NEW c \in DacChips
       PROVE  /\ busy = <<"standby">> => tas'[c] = [p.tas[c] EXCEPT !.run = "standby", !.muted = TRUE]
              /\ busy = <<"on">> \/ (busy = <<"i2s">> /\ Needed /\ power = "on")
                   => tas'[c] = [[p.tas[c] EXCEPT !.run = "active", !.muted = FALSE] EXCEPT !.analog = TRUE]
              /\ busy = <<"i2s">> /\ ~(Needed /\ power = "on") => tas'[c] = p.tas[c]
  BY <1>9 DEF Sent, Enabled
<1>10. DOMAIN tas' = DacChips
  BY <1>4, <1>5, <1>9 DEF Sent, Enabled, Shaped
<1>11. \A c \in DacChips :
         /\ tas'[c] = [run |-> tas'[c].run, muted |-> tas'[c].muted, analog |-> tas'[c].analog,
                       flow |-> tas'[c].flow, vol |-> tas'[c].vol, mix |-> tas'[c].mix]
         /\ tas'[c].flow = p.tas[c].flow /\ tas'[c].vol = p.tas[c].vol /\ tas'[c].mix = p.tas[c].mix
         /\ tas'[c].muted \in BOOLEAN
  <2> TAKE c \in DacChips
  <2>1. \/ tas'[c] = [p.tas[c] EXCEPT !.run = "standby", !.muted = TRUE]
        \/ tas'[c] = [[p.tas[c] EXCEPT !.run = "active", !.muted = FALSE] EXCEPT !.analog = TRUE]
        \/ tas'[c] = p.tas[c]
    BY <1>4, <1>9a
  <2>2. /\ p.tas[c] = [run |-> p.tas[c].run, muted |-> p.tas[c].muted, analog |-> p.tas[c].analog,
                       flow |-> p.tas[c].flow, vol |-> p.tas[c].vol, mix |-> p.tas[c].mix]
        /\ p.tas[c].muted \in BOOLEAN
    BY <1>7
  <2>3. CASE tas'[c] = [p.tas[c] EXCEPT !.run = "standby", !.muted = TRUE]
    BY <2>2, <2>3
  <2>4. CASE tas'[c] = [[p.tas[c] EXCEPT !.run = "active", !.muted = FALSE] EXCEPT !.analog = TRUE]
    BY <2>2, <2>4
  <2>5. CASE tas'[c] = p.tas[c]
    BY <2>2, <2>5
  <2> QED
    BY <2>1, <2>3, <2>4, <2>5
<1>12. \A c \in DacChips : tas'[c].muted = (power' # "on")
  <2>1. CASE busy = <<"standby">>
    BY <1>2, <1>7, <1>9a, <2>1
  <2>2. CASE busy = <<"on">>
    BY <1>2, <1>7, <1>9a, <2>2
  <2>3. CASE busy = <<"i2s">> /\ Needed /\ power = "on"
    BY <1>2, <1>7, <1>9a, <2>3
  <2>4. CASE busy = <<"i2s">> /\ Needed /\ power # "on"
    BY <1>2, <1>7, <1>9a, <2>4
  <2>5. CASE busy = <<"i2s">> /\ ~Needed
    <3>1. \A c \in DacChips : tas'[c] = tas[c]
      BY <1>6, <1>9a, <2>5
    <3>2. power' = power
      BY <1>2, <2>5
    <3> QED
      BY <3>1, <3>2 DEF SqueezeInv, Told
  <2> QED
    BY <1>4, <2>1, <2>2, <2>3, <2>4, <2>5
<1>13. power' \in {"off", "standby", "on"}
  BY <1>2, <1>4 DEF SqueezeInv, TasTypes
<1>14. TasTypes'
  BY <1>2, <1>5, <1>7, <1>10, <1>11, <1>13 DEF SqueezeInv, TasTypes, Shaped
<1>15. resident' => power' # "off"
  <2>1. CASE busy = <<"i2s">> /\ power = "off"
    BY <1>2, <1>6, <2>1 DEF Needed, SqueezeInv
  <2>2. CASE ~(busy = <<"i2s">> /\ power = "off")
    BY <1>2, <1>4, <2>2
  <2> QED
    BY <2>1, <2>2
<1>16. \A c \in DacChips : Told(c)' /\ MixTold(c)' /\ FlowStays(c)'
  <2>1. \A c \in DacChips : Told(c)'
    BY <1>2, <1>7, <1>8, <1>11, <1>12 DEF Told
  <2>2. \A c \in DacChips : MixTold(c)'
    BY <1>2, <1>7, <1>8, <1>11, <1>12 DEF MixTold
  <2>3. \A c \in DacChips : FlowStays(c)'
    BY <1>2, <1>7, <1>8, <1>11, <1>12 DEF FlowStays
  <2> QED
    BY <2>1, <2>2, <2>3
<1>17. ASSUME NEW c \in DacChips
       PROVE  FlowRuns(c)'
  <2>1. CASE Needed
    BY <1>2, <1>8, <1>11, <2>1 DEF FlowRuns
  <2>2. CASE resident /\ ~Needed
    BY <1>2, <1>6, <1>8, <1>11, <2>2 DEF FlowRuns
  <2>3. CASE busy = <<"i2s">> /\ power = "off"
    BY <1>2, <2>3 DEF FlowRuns
  <2>4. CASE ~Needed /\ ~resident /\ ~(busy = <<"i2s">> /\ power = "off")
    <3>1. (busy = <<"standby">> /\ power # "off") \/ (busy = <<"on">> /\ power = "on")
      BY <1>4, <2>4 DEF Needed
    <3>2. FlowRuns(c) /\ ~Inside("i2s")
      BY <3>1 DEF SqueezeInv, Inside
    <3> QED
      BY <1>2, <1>6, <1>11, <2>4, <3>1, <3>2 DEF FlowRuns
  <2> QED
    BY <2>1, <2>2, <2>3, <2>4
<1> QED
  BY <1>14, <1>15, <1>16, <1>17 DEF SqueezeInv

LEMMA PoweredDown ==
  ASSUME SqueezeInv, PowerOff
  PROVE  SqueezeInv'
<1>1. /\ busy' = <<>> /\ power' = "off" /\ resident' = FALSE /\ failed' = FALSE
      /\ hasMix' = [c \in DacChips |-> FALSE]
      /\ DOMAIN tas' = DacChips
      /\ UNCHANGED <<file, running, lastDb, offset, src>>
  BY DEF PowerOff
<1>2. \A c \in DacChips :
        tas'[c] = [run |-> "down", muted |-> TRUE, analog |-> tas[c].analog, flow |-> FALSE,
                      vol |-> tas[c].vol, mix |-> "reset"]
  <2> TAKE c \in DacChips
  <2>1. tas'[c] = [tas[c] EXCEPT !.run = "down", !.muted = TRUE, !.flow = FALSE, !.mix = "reset"]
    BY DEF PowerOff
  <2> QED
    BY <2>1 DEF SqueezeInv, TasTypes
<1>3. \A c \in DacChips :
        /\ tas'[c] = [run |-> tas'[c].run, muted |-> tas'[c].muted, analog |-> tas'[c].analog,
                      flow |-> tas'[c].flow, vol |-> tas'[c].vol, mix |-> tas'[c].mix]
        /\ tas'[c].muted = TRUE /\ tas'[c].flow = FALSE /\ tas'[c].vol = tas[c].vol
  <2> TAKE c \in DacChips
  <2>1. PICK a, v : tas'[c] = [run |-> "down", muted |-> TRUE, analog |-> a, flow |-> FALSE, vol |-> v, mix |-> "reset"]
                    /\ v = tas[c].vol
    BY <1>2
  <2> QED
    BY <2>1
<1>4. TasTypes'
  BY <1>1, <1>3 DEF SqueezeInv, TasTypes
<1>5. \A c \in DacChips : Told(c)' /\ MixTold(c)' /\ FlowRuns(c)' /\ FlowStays(c)'
  BY <1>1, <1>3 DEF SqueezeInv, Told, MixTold, FlowRuns, FlowStays
<1> QED
  BY <1>1, <1>4, <1>5 DEF SqueezeInv

LEMMA Mixed ==
  ASSUME SqueezeInv, WriteMix
  PROVE  SqueezeInv'
<1>1. /\ busy' = <<>> /\ DOMAIN tas' = DacChips /\ Inside("input") /\ ~Inside("i2s")
      /\ UNCHANGED <<file, hasMix, power, running, resident, lastDb, offset, src, failed>>
  BY DEF WriteMix, Inside
<1>2. ASSUME NEW c \in DacChips
      PROVE  /\ tas'[c] = [run |-> tas'[c].run, muted |-> tas'[c].muted, analog |-> tas'[c].analog,
                           flow |-> tas'[c].flow, vol |-> tas'[c].vol, mix |-> tas'[c].mix]
             /\ tas'[c].muted = tas[c].muted /\ tas'[c].flow = tas[c].flow /\ tas'[c].vol = tas[c].vol
             /\ tas'[c].mix = IF hasMix[c] THEN src ELSE tas[c].mix
  <2>1. PICK m : m = IF hasMix[c] THEN src ELSE tas[c].mix
    OBVIOUS
  <2>2. tas'[c] = [tas[c] EXCEPT !.mix = m]
    BY <2>1 DEF WriteMix
  <2> QED
    BY <2>1, <2>2 DEF SqueezeInv, TasTypes
<1>3. TasTypes'
  BY <1>1, <1>2 DEF SqueezeInv, TasTypes
<1> QED
  BY <1>1, <1>2, <1>3 DEF SqueezeInv, Told, MixTold, FlowRuns, FlowStays

LEMMA SqueezeMoves == SqueezeInv /\ [SqueezeNext]_squeezeVars => SqueezeInv'
<1> SUFFICES ASSUME SqueezeInv, [SqueezeNext]_squeezeVars
             PROVE  SqueezeInv'
  OBVIOUS
<1>1. ASSUME NEW l \in DacVolumes, NEW o \in Trims, SetDacVolume(l, o)
      PROVE  SqueezeInv'
  BY <1>1, Ordered
<1>2. ASSUME NEW op \in {<<"standby">>, <<"on">>, <<"off">>, <<"i2s">>} \cup {<<"input", s>> : s \in Sources}, Enter(op)
      PROVE  SqueezeInv'
  BY <1>2, Entered
<1>3. ASSUME NEW ok \in [DacChips -> BOOLEAN], Leave(ok)
      PROVE  SqueezeInv'
  BY <1>3, StaysInside
<1>4. CASE PowerOff
  BY <1>4, PoweredDown
<1>5. CASE WriteMix
  BY <1>5, Mixed
<1>6. CASE FaultEdge \/ JackEdge \/ Wake \/ UNCHANGED squeezeVars
  BY <1>6, SpeakersOnly DEF FaultEdge, JackEdge, Wake, squeezeVars, dacVars
<1>7. CASE Board
  <2>1. UNCHANGED <<file, hasMix, power, running, resident, lastDb, offset, src, busy, failed>>
    BY <1>7 DEF Board, DoFault, DoClear, DoJack, Still
  <2>2. tas' = tas \/ \E on : tas' = Enabled(tas, on)
    BY <1>7 DEF Board, DoFault, DoClear, DoJack, Speaker
  <2> QED
    BY <2>1, <2>2, SpeakersOnly
<1> QED
  BY <1>1, <1>2, <1>3, <1>4, <1>5, <1>6, <1>7 DEF SqueezeNext

LEMMA ChipsToldAtRest == SqueezeInv => ChipsAsTold
BY DEF SqueezeInv, ChipsAsTold, Told, MixTold, FlowRuns, Inside

-----------------------------------------------------------------------------
(* The TAS58xx chips (Amplifier).  A playing chip runs what the driver says *)
(* (Runs); the driver says what is saved, or a save of it is still to come  *)
(* in the request (AsSaved); the saved curve is in force, or the event task *)
(* or the request is about to apply it (CurveSaved, CurveInForce).          *)
IsDriver(dv) == dv = [off |-> dv.off, subXo |-> dv.subXo, subEq |-> dv.subEq, dual |-> dv.dual, baXo |-> dv.baXo,
                      baSwap |-> dv.baSwap, baEq |-> dv.baEq, eq |-> dv.eq, vol |-> dv.vol, active |-> dv.active]
IsFlash(n) == n = [off |-> n.off, subXo |-> n.subXo, subEq |-> n.subEq, dual |-> n.dual, baXo |-> n.baXo,
                   baSwap |-> n.baSwap, baEq |-> n.baEq, eq |-> n.eq]
IsChip(c) == /\ c = [power |-> c.power, custom |-> c.custom, dspw |-> c.dspw, left |-> c.left, right |-> c.right,
                     mix |-> c.mix, bridge |-> c.bridge, vol |-> c.vol, regs |-> c.regs]
             /\ c.custom \in BOOLEAN /\ c.bridge \in BOOLEAN
Chain(dv, d) == IF Pbtl(dv, d) THEN SubChain(dv) ELSE SatChain(dv)
Runs(dv, c, d) ==
  c.power = "play" =>
    /\ c.left = Chain(dv, d) /\ c.right = Chain(dv, d) /\ c.vol = VolReg(dv, d)
    /\ Pbtl(dv, d) => c.bridge /\ c.custom /\ c.mix = "mono"
ChipsRun(dv, cs) ==
  /\ DOMAIN cs = Chips
  /\ \A d \in Chips : IsChip(cs[d]) /\ (dv.active = "sub" => Runs(dv, cs[d], d))

(* What is left of a request: a setter is followed by the saves of what it  *)
(* sets, the curve is saved first.                                          *)
IsSet(s, k) == s.do = "set" /\ s.key = k
IsSave(s, k) == s.do = "save" /\ s.key = k
Later(q, i, k) == \E j \in 1 .. Len(q) : j > i /\ IsSave(q[j], k)
InHandlersOrder(q) ==
  \A i \in 1 .. Len(q) :
    /\ IsSet(q[i], "off") => Later(q, i, "off")
    /\ IsSet(q[i], "subXo") => Later(q, i, "subXo") /\ Later(q, i, "subEq")
    /\ IsSet(q[i], "subLow") \/ IsSet(q[i], "subHigh") => Later(q, i, "subEq")
    /\ IsSave(q[i], "eq") => i = 1 /\ Len(q) = 2 /\ IsSet(q[2], "eq") /\ q[2].val = q[1].val
    /\ IsSet(q[i], "eq") => i = 1 \/ (i = 2 /\ IsSave(q[1], "eq"))
    /\ IsSave(q[i], "eq") \/ IsSet(q[i], "eq") => q[i].val # -1
NoCurve(q) == \A i \in 1 .. Len(q) : q[i].key # "eq"

AmpTypes ==
  /\ IsDriver(drv) /\ IsFlash(nv) /\ lost \in BOOLEAN
  /\ rt \in {NoRestore, [at |-> "read", g |-> 0]} \/ rt = [at |-> "apply", g |-> rt.g]
  /\ \E S : http \in Seq(S)
AsSaved ==
  /\ drv.off = nv.off \/ Later(http, 0, "off")
  /\ drv.subXo = nv.subXo \/ Later(http, 0, "subXo")
  /\ drv.subEq = nv.subEq \/ Later(http, 0, "subEq")
CurveInForce ==
  rt = NoRestore /\ NoCurve(http) /\ (\E d \in Chips : chip[d].power = "play") =>
    drv.eq = IF nv.eq = -1 THEN 0 ELSE nv.eq
CurveSaved ==
  /\ nv.eq = -1 => drv.eq = 0
  /\ rt.at = "apply" => rt.g = nv.eq /\ nv.eq # -1
  /\ http # <<>> /\ IsSet(http[1], "eq") => http[1].val = nv.eq
AmpInv ==
  /\ AmpTypes /\ InHandlersOrder(http) /\ ChipsRun(drv, chip)
  /\ ~lost => AsSaved /\ CurveSaved /\ CurveInForce

LEMMA Customized ==
  ASSUME NEW c, IsChip(c), NEW x, x = Custom(c)
  PROVE
         /\ IsChip(x) /\ x.custom = TRUE /\ x.power = c.power /\ x.bridge = c.bridge /\ x.vol = c.vol
         /\ c.custom => x.mix = c.mix
BY DEF IsChip, Custom, SignalPathDefaults

(* x is c with both channels programmed.                                    *)
Reprogrammed(x, c, l, r) ==
  /\ IsChip(x) /\ x.custom = TRUE /\ x.power = c.power /\ x.bridge = c.bridge /\ x.vol = c.vol
  /\ x.left = l /\ x.right = r
  /\ c.custom => x.mix = c.mix

LEMMA ChainProgrammed ==
  ASSUME NEW c, IsChip(c), NEW l, NEW r, NEW x, x = Program(c, l, r)
  PROVE  Reprogrammed(x, c, l, r)
<1>1. PICK y : y = Custom(c)
  OBVIOUS
<1>2. IsChip(y) /\ y.custom = TRUE /\ y.power = c.power /\ y.bridge = c.bridge /\ y.vol = c.vol
  BY <1>1, Customized
<1>3. c.custom => y.mix = c.mix
  BY <1>1, Customized
<1>4. x = [y EXCEPT !.left = l, !.right = r]
  BY <1>1 DEF Program
<1>6. /\ IsChip(x) /\ x.custom = y.custom /\ x.power = y.power /\ x.bridge = y.bridge /\ x.vol = y.vol
      /\ x.left = l /\ x.right = r /\ x.mix = y.mix
  BY <1>2, <1>4 DEF IsChip
<1> QED
  BY <1>2, <1>3, <1>6 DEF Reprogrammed

LEMMA Crossed ==
  ASSUME NEW dv, NEW c, IsChip(c), NEW d, NEW x, x = ApplyXover(dv, c, d)
  PROVE  Reprogrammed(x, c, Chain(dv, d), Chain(dv, d))
<1>1. PICK k : k = Chain(dv, d)
  OBVIOUS
<1>2. x = Program(c, k, k)
  BY <1>1 DEF ApplyXover, ApplySub, ApplySatellite, Chain
<1> QED
  BY <1>1, <1>2, ChainProgrammed

LEMMA BiampCrossed ==
  ASSUME NEW dv, NEW c, IsChip(c), NEW d, NEW x, x = ApplyBiamp(dv, c, d)
  PROVE  IsChip(x)
<1>1. PICK h, l : x = Program(c, h, l)
  BY DEF ApplyBiamp
<1>2. Reprogrammed(x, c, h, l)
  BY <1>1, ChainProgrammed
<1> QED
  BY <1>2 DEF Reprogrammed

LEMMA MixApplied ==
  ASSUME NEW dv, NEW c, IsChip(c), NEW d \in {1, 2}, NEW x, x = ApplyMix(dv, c, d)
  PROVE
         /\ IsChip(x) /\ x.power = c.power /\ x.bridge = c.bridge /\ x.vol = c.vol
         /\ Pbtl(dv, d) => x.custom /\ x.mix = "mono"
<1>1. PICK m : m = Mix(dv, d)
  OBVIOUS
<1>2. Pbtl(dv, d) => m = "mono"
  BY <1>1, AmplifierAssumption DEF Pbtl, Mix
<1>3. CASE m = "stereo"
  BY <1>1, <1>2, <1>3 DEF ApplyMix
<1>4. CASE m # "stereo"
  <2>1. PICK y : y = Custom(c)
    OBVIOUS
  <2>2. IsChip(y) /\ y.custom = TRUE /\ y.power = c.power /\ y.bridge = c.bridge /\ y.vol = c.vol
    BY <2>1, Customized
  <2>3. x = [y EXCEPT !.mix = m]
    BY <1>1, <1>4, <2>1 DEF ApplyMix
  <2>5. IsChip(x) /\ x.custom = y.custom /\ x.power = y.power /\ x.bridge = y.bridge /\ x.vol = y.vol /\ x.mix = m
    BY <2>2, <2>3 DEF IsChip
  <2> QED
    BY <1>2, <2>2, <2>5
<1> QED
  BY <1>3, <1>4

LEMMA Woken ==
  ASSUME NEW c, IsChip(c), NEW w \in Wakes(c)
  PROVE  IsChip(w)
BY DEF IsChip, Wakes, Kept, Reverted

LEMMA PoweredOn ==
  ASSUME NEW dv, NEW c, IsChip(c), NEW was, NEW d \in {1, 2}, NEW x, x = PowerOn(dv, c, was, d)
  PROVE  IsChip(x) /\ (dv.active = "sub" => Runs(dv, x, d))
<1>1. PICK a : a = IF was = "off" THEN [c EXCEPT !.regs = TRUE, !.custom = FALSE, !.dspw = FALSE] ELSE c
  OBVIOUS
<1>2. IsChip(a)
  BY <1>1 DEF IsChip
<1>3. PICK g \in BOOLEAN : g = (a.bridge \/ Pbtl(dv, d))
  OBVIOUS
<1>4. PICK v : v = VolReg(dv, d)
  OBVIOUS
<1>5. PICK b : b = [a EXCEPT !.bridge = g, !.vol = v, !.power = "play"]
  OBVIOUS
<1>6. IsChip(b) /\ b.bridge = g /\ b.vol = v /\ b.power = "play"
  BY <1>2, <1>5 DEF IsChip
<1>7. PICK m : m = ApplyMix(dv, b, d)
  OBVIOUS
<1>8. IsChip(m) /\ m.bridge = g /\ m.vol = v /\ m.power = "play" /\ (Pbtl(dv, d) => m.custom /\ m.mix = "mono")
  BY <1>6, <1>7, MixApplied
<1>10. x = IF Biamp(dv) THEN ApplyBiamp(dv, m, d) ELSE ApplyXover(dv, m, d)
  BY <1>1, <1>3, <1>4, <1>5, <1>7 DEF PowerOn
<1>11. CASE Biamp(dv)
  <2>1. IsChip(x)
    BY <1>8, <1>10, <1>11, BiampCrossed
  <2> QED
    BY <1>11, <2>1 DEF Biamp
<1>12. CASE ~Biamp(dv)
  <2>1. x = ApplyXover(dv, m, d)
    BY <1>10, <1>12
  <2>2. Reprogrammed(x, m, Chain(dv, d), Chain(dv, d))
    BY <1>8, <2>1, Crossed
  <2>3. /\ IsChip(x) /\ x.custom = TRUE /\ x.power = "play" /\ x.bridge = g /\ x.vol = v
        /\ x.left = Chain(dv, d) /\ x.right = Chain(dv, d) /\ (m.custom => x.mix = m.mix)
    BY <1>8, <2>2 DEF Reprogrammed
  <2>4. Runs(dv, x, d)
    BY <1>3, <1>4, <1>8, <2>3 DEF Runs
  <2> QED
    BY <2>3, <2>4
<1> QED
  BY <1>11, <1>12

LEMMA TwoChips == Chips \subseteq {1, 2} /\ Devs \in Nat
BY AmplifierAssumption DEF Chips

(* What a chip that does not play is asked to be.                           *)
LEMMA Silent ==
  ASSUME NEW c, IsChip(c), NEW x, x = Standby(c) \/ x = Sleep(c)
  PROVE  IsChip(x) /\ x.power # "play"
<1>1. CASE x = Standby(c)
  BY <1>1 DEF IsChip, Standby
<1>2. CASE x = Sleep(c)
  BY <1>2 DEF IsChip, Sleep
<1> QED
  BY <1>1, <1>2

LEMMA BootsSilent ==
  ASSUME NEW dv
  PROVE  /\ DOMAIN BoardStart(dv) = Chips
         /\ \A d \in Chips : IsChip(BoardStart(dv)[d]) /\ BoardStart(dv)[d].power = "off"
<1>1. DOMAIN BoardStart(dv) = Chips
  BY DEF BoardStart, ApplyVolume
<1>2. ASSUME NEW d \in Chips
      PROVE  IsChip(BoardStart(dv)[d]) /\ BoardStart(dv)[d].power = "off"
  <2>1. PICK v, b : v = VolReg(dv, d) /\ b = Pbtl(dv, d) /\ b \in BOOLEAN
    BY DEF Pbtl
  <2>2. PICK s : s = Sleep(InitOne(dv, d))
    OBVIOUS
  <2>3. s = [power |-> "off", custom |-> FALSE, dspw |-> FALSE, left |-> Junk, right |-> Junk, mix |-> "junk",
             bridge |-> b, vol |-> 48, regs |-> TRUE]
    BY <2>1, <2>2 DEF Sleep, InitOne
  <2>4. BoardStart(dv)[d] = [s EXCEPT !.vol = v]
    BY <2>1, <2>2 DEF BoardStart, ApplyVolume
  <2> QED
    BY <2>1, <2>3, <2>4 DEF IsChip
<1> QED
  BY <1>1, <1>2

LEMMA VolumeApplied ==
  ASSUME NEW dv, NEW c, IsChip(c), NEW v, NEW x, x = [c EXCEPT !.vol = v]
  PROVE  /\ IsChip(x) /\ x.vol = v /\ x.power = c.power /\ x.left = c.left /\ x.right = c.right
         /\ x.bridge = c.bridge /\ x.custom = c.custom /\ x.mix = c.mix
BY DEF IsChip

PowersKept == \A d \in Chips : chip'[d].power = chip[d].power

LEMMA VolumeSet ==
  ASSUME AmpInv, NEW dv, dv.active = drv.active,
         \A d \in Chips : Chain(dv, d) = Chain(drv, d), chip' = ApplyVolume(dv, chip)
  PROVE  ChipsRun(dv, chip') /\ PowersKept
<1>1. DOMAIN chip' = Chips
  BY DEF ApplyVolume
<1>2. ASSUME NEW d \in Chips
      PROVE  /\ IsChip(chip'[d]) /\ (dv.active = "sub" => Runs(dv, chip'[d], d))
            /\ chip'[d].power = chip[d].power
  <2>1. PICK c, v, x : c = chip[d] /\ v = VolReg(dv, d) /\ x = chip'[d]
    OBVIOUS
  <2>2. IsChip(c) /\ (drv.active = "sub" => Runs(drv, c, d))
    BY <2>1 DEF AmpInv, ChipsRun
  <2>3. x = [c EXCEPT !.vol = v]
    BY <2>1 DEF ApplyVolume
  <2>4. /\ IsChip(x) /\ x.vol = v /\ x.power = c.power /\ x.left = c.left /\ x.right = c.right
        /\ x.bridge = c.bridge /\ x.custom = c.custom /\ x.mix = c.mix
    BY <2>2, <2>3, VolumeApplied
  <2>5. Pbtl(dv, d) = Pbtl(drv, d)
    BY DEF Pbtl
  <2>6. dv.active = "sub" => Runs(dv, x, d)
    BY <2>1, <2>2, <2>4, <2>5 DEF Runs
  <2> QED
    BY <2>1, <2>4, <2>6
<1> QED
  BY <1>1, <1>2 DEF ChipsRun, PowersKept

LEMMA SubRetuned ==
  ASSUME AmpInv, NEW dv, dv.active = drv.active, dv.vol = drv.vol, dv.off = drv.off, SubRetune(dv)
  PROVE  drv' = dv /\ ChipsRun(dv, chip') /\ PowersKept
<1>1. drv' = dv /\ DOMAIN chip' = Chips
  BY DEF SubRetune
<1>2. ASSUME NEW d \in Chips
      PROVE  /\ IsChip(chip'[d]) /\ (dv.active = "sub" => Runs(dv, chip'[d], d))
            /\ chip'[d].power = chip[d].power
  <2>1. PICK c, x : c = chip[d] /\ x = chip'[d]
    OBVIOUS
  <2>2. IsChip(c) /\ (drv.active = "sub" => Runs(drv, c, d))
    BY <2>1 DEF AmpInv, ChipsRun
  <2>3. x = ApplyXover(dv, c, d)
    BY <2>1 DEF SubRetune
  <2>4. Reprogrammed(x, c, Chain(dv, d), Chain(dv, d))
    BY <2>2, <2>3, Crossed
  <2>5. Pbtl(dv, d) = Pbtl(drv, d) /\ VolReg(dv, d) = VolReg(drv, d)
    BY DEF Pbtl, VolReg
  <2>6. dv.active = "sub" => Runs(dv, x, d)
    BY <2>2, <2>4, <2>5 DEF Runs, Reprogrammed
  <2> QED
    BY <2>1, <2>4, <2>6 DEF Reprogrammed
<1> QED
  BY <1>1, <1>2 DEF ChipsRun, PowersKept

LEMMA BiampRetuned ==
  ASSUME AmpInv, NEW dv, NEW D, dv.active = drv.active, dv.vol = drv.vol, dv.off = drv.off,
         \A d \in Chips : Chain(dv, d) = Chain(drv, d), BiampRetune(dv, D)
  PROVE  drv' = dv /\ ChipsRun(dv, chip') /\ PowersKept
<1>1. drv' = dv /\ DOMAIN chip' = Chips
  BY DEF BiampRetune
<1>2. ASSUME NEW d \in Chips
      PROVE  /\ IsChip(chip'[d]) /\ (dv.active = "sub" => Runs(dv, chip'[d], d))
            /\ chip'[d].power = chip[d].power
  <2>1. PICK c, x : c = chip[d] /\ x = chip'[d]
    OBVIOUS
  <2>2. IsChip(c) /\ (drv.active = "sub" => Runs(drv, c, d))
    BY <2>1 DEF AmpInv, ChipsRun
  <2>3. x = IF Biamp(dv) /\ d \in D THEN ApplyBiamp(dv, c, d) ELSE c
    BY <2>1 DEF BiampRetune
  <2>4. IsChip(x)
    BY <2>2, <2>3, BiampCrossed
  <2>5. dv.active = "sub" => x = c
    BY <2>3 DEF Biamp
  <2>6. Pbtl(dv, d) = Pbtl(drv, d) /\ VolReg(dv, d) = VolReg(drv, d)
    BY DEF Pbtl, VolReg
  <2>8. x.power = c.power
    <3>1. PICK h, l : ApplyBiamp(dv, c, d) = Program(c, h, l)
      BY DEF ApplyBiamp
    <3>2. PICK y : y = Program(c, h, l)
      OBVIOUS
    <3>3. Reprogrammed(y, c, h, l)
      BY <2>2, <3>2, ChainProgrammed
    <3> QED
      BY <2>3, <3>1, <3>2, <3>3 DEF Reprogrammed
  <2>7. dv.active = "sub" => Runs(dv, x, d)
    BY <2>2, <2>5, <2>6 DEF Runs
  <2> QED
    BY <2>1, <2>2, <2>3, <2>4, <2>7, <2>8
<1> QED
  BY <1>1, <1>2 DEF ChipsRun, PowersKept

LEMMA CurveSet ==
  ASSUME AmpInv, NEW g, EqSetAll(g)
  PROVE  drv' = [drv EXCEPT !.eq = g] /\ ChipsRun(drv', chip') /\ PowersKept
<1>1. PICK dv : dv = [drv EXCEPT !.eq = g]
  OBVIOUS
<1>2. /\ dv.eq = g /\ dv.active = drv.active /\ dv.vol = drv.vol /\ dv.off = drv.off
      /\ dv.subXo = drv.subXo /\ dv.subEq = drv.subEq
  BY <1>1 DEF AmpInv, AmpTypes, IsDriver
<1>3. PICK k : k = [Flat EXCEPT !.g = g]
  OBVIOUS
<1>4. /\ drv' = dv /\ DOMAIN chip' = Chips
      /\ \A d \in Chips : chip'[d] = IF Pbtl(dv, d) \/ OwnsChain(dv) THEN chip[d] ELSE Program(chip[d], k, k)
  BY <1>1, <1>3 DEF EqSetAll
<1>5. ASSUME NEW d \in Chips
      PROVE  /\ IsChip(chip'[d]) /\ (dv.active = "sub" => Runs(dv, chip'[d], d))
            /\ chip'[d].power = chip[d].power
  <2>1. PICK c, x : c = chip[d] /\ x = chip'[d]
    OBVIOUS
  <2>2. IsChip(c) /\ (drv.active = "sub" => Runs(drv, c, d))
    BY <2>1 DEF AmpInv, ChipsRun
  <2>3. Pbtl(dv, d) = Pbtl(drv, d) /\ VolReg(dv, d) = VolReg(drv, d)
    BY <1>2 DEF Pbtl, VolReg
  <2>4. CASE Pbtl(dv, d) \/ OwnsChain(dv)
    <3>1. x = c
      BY <1>4, <2>1, <2>4
    <3>2. dv.active = "sub" => ~Biamp(dv)
      BY DEF Biamp
    <3>3. SatelliteActive(dv) = SatelliteActive(drv)
      BY <1>2 DEF SatelliteActive, Pbtl
    <3>4. dv.active = "sub" => Chain(dv, d) = Chain(drv, d)
      BY <1>2, <2>3, <2>4, <3>2, <3>3 DEF OwnsChain, Chain, SubChain, SatChain
    <3> QED
      BY <1>2, <2>1, <2>2, <2>3, <3>1, <3>4 DEF Runs
  <2>5. CASE ~(Pbtl(dv, d) \/ OwnsChain(dv))
    <3>1. x = Program(c, k, k)
      BY <1>4, <2>1, <2>5
    <3>2. Reprogrammed(x, c, k, k)
      BY <2>2, <3>1, ChainProgrammed
    <3>3. k = Chain(dv, d)
      BY <1>2, <1>3, <2>5 DEF OwnsChain, Chain, SatChain
    <3> QED
      BY <1>2, <2>1, <2>2, <2>3, <2>5, <3>2, <3>3 DEF Runs, Reprogrammed
  <2> QED
    BY <2>4, <2>5
<1> QED
  BY <1>1, <1>4, <1>5 DEF ChipsRun, PowersKept

(* A request goes on.                                                       *)
LEMMA GoesOn ==
  ASSUME NEW S, NEW q \in Seq(S), q # <<>>, InHandlersOrder(q), NEW t, t = Tail(q)
  PROVE  /\ t \in Seq(S) /\ InHandlersOrder(t)
         /\ \A k : Later(q, 1, k) => Later(t, 0, k)
         /\ \A k : Later(q, 0, k) /\ ~IsSave(q[1], k) => Later(t, 0, k)
         /\ NoCurve(t) /\ q[1].key # "eq" => NoCurve(q)
         /\ t # <<>> /\ IsSet(t[1], "eq") => IsSave(q[1], "eq") /\ t[1].val = q[1].val
         /\ IsSave(q[1], "eq") => ~NoCurve(t)
<1>1. PICK n \in Nat : n = Len(q)
  OBVIOUS
<1>2. n > 0 /\ t \in Seq(S) /\ Len(t) = n - 1 /\ \A i \in 1 .. n - 1 : t[i] = q[i + 1]
  BY <1>1
<1>3. ASSUME NEW k, NEW i \in Nat, Later(q, i + 1, k)
      PROVE  Later(t, i, k)
  <2>1. PICK j \in 1 .. n : j > i + 1 /\ IsSave(q[j], k)
    BY <1>1, <1>3 DEF Later
  <2>2. PICK m \in Int : m = j - 1
    OBVIOUS
  <2>3. m \in 1 .. n - 1 /\ m > i /\ t[m] = q[j]
    BY <1>2, <2>1, <2>2
  <2> QED
    BY <1>2, <2>1, <2>3 DEF Later
<1>4. ASSUME NEW k, Later(q, 0, k), ~IsSave(q[1], k)
      PROVE  Later(q, 1, k)
  BY <1>1, <1>4 DEF Later
<1>5. \A k : Later(q, 1, k) => Later(t, 0, k)
  <2> SUFFICES ASSUME NEW k, Later(q, 1, k)
               PROVE  Later(t, 0, k)
    OBVIOUS
  <2>1. PICK z \in Nat : z = 0 /\ z + 1 = 1
    OBVIOUS
  <2>2. Later(q, z + 1, k)
    BY <2>1
  <2>3. Later(t, z, k)
    BY <1>3, <2>2
  <2> QED
    BY <2>1, <2>3
<1>6. ASSUME NEW i \in 1 .. n - 1
      PROVE  /\ IsSet(t[i], "off") => Later(t, i, "off")
             /\ IsSet(t[i], "subXo") => Later(t, i, "subXo") /\ Later(t, i, "subEq")
             /\ IsSet(t[i], "subLow") \/ IsSet(t[i], "subHigh") => Later(t, i, "subEq")
             /\ ~IsSave(t[i], "eq")
             /\ IsSet(t[i], "eq") => i = 1 /\ IsSave(q[1], "eq") /\ t[i].val # -1
  <2>1. PICK j \in 1 .. n : j = i + 1
    BY <1>2
  <2>2. t[i] = q[j] /\ i \in Nat
    BY <1>2, <2>1
  <2>3. \A k : Later(q, j, k) => Later(t, i, k)
    BY <1>3, <2>1, <2>2
  <2>4. /\ IsSet(q[j], "off") => Later(q, j, "off")
        /\ IsSet(q[j], "subXo") => Later(q, j, "subXo") /\ Later(q, j, "subEq")
        /\ IsSet(q[j], "subLow") \/ IsSet(q[j], "subHigh") => Later(q, j, "subEq")
        /\ IsSave(q[j], "eq") => j = 1
        /\ IsSet(q[j], "eq") => j = 1 \/ (j = 2 /\ IsSave(q[1], "eq"))
        /\ IsSave(q[j], "eq") \/ IsSet(q[j], "eq") => q[j].val # -1
    BY <1>1 DEF InHandlersOrder
  <2>5. j # 1
    BY <2>1
  <2>6. j = 2 => i = 1
    BY <2>1
  <2> QED
    BY <2>2, <2>3, <2>4, <2>5, <2>6
<1>7. InHandlersOrder(t)
  BY <1>2, <1>6 DEF InHandlersOrder
<1>8. NoCurve(t) /\ q[1].key # "eq" => NoCurve(q)
  <2> SUFFICES ASSUME NoCurve(t), q[1].key # "eq", NEW j \in 1 .. n
               PROVE  q[j].key # "eq"
    BY <1>1 DEF NoCurve
  <2>1. CASE j = 1
    BY <2>1
  <2>2. CASE j # 1
    <3>1. PICK i \in 1 .. n - 1 : j = i + 1
      BY <1>2, <2>2
    <3> QED
      BY <1>2, <3>1 DEF NoCurve
  <2> QED
    BY <2>1, <2>2
<1>9. IsSave(q[1], "eq") => n = 2 /\ IsSet(q[2], "eq") /\ q[2].val = q[1].val
  BY <1>1, <1>2 DEF InHandlersOrder
<1>10. n = 2 => t[1] = q[2]
  <2> SUFFICES ASSUME n = 2
               PROVE  t[1] = q[2]
    OBVIOUS
  <2>1. PICK i \in 1 .. n - 1 : i = 1
    OBVIOUS
  <2>2. i + 1 = 2
    BY <2>1
  <2> QED
    BY <1>2, <2>1, <2>2
<1>11. ASSUME IsSave(q[1], "eq")
       PROVE  ~NoCurve(t)
  <2>1. n = 2 /\ IsSet(q[2], "eq")
    BY <1>9, <1>11
  <2>2. 1 \in 1 .. Len(t)
    <3>1. PICK m : m = Len(t)
      OBVIOUS
    <3>2. m = n - 1
      BY <1>2, <3>1
    <3>3. 1 \in 1 .. m
      BY <2>1, <3>2
    <3> QED
      BY <3>1, <3>3
  <2>3. t[1] = q[2]
    BY <1>10, <2>1
  <2> QED
    BY <2>1, <2>2, <2>3 DEF NoCurve, IsSet
<1>12. t # <<>> /\ IsSet(t[1], "eq") => IsSave(q[1], "eq") /\ t[1].val = q[1].val
  <2> SUFFICES ASSUME t # <<>>, IsSet(t[1], "eq")
               PROVE  IsSave(q[1], "eq") /\ t[1].val = q[1].val
    OBVIOUS
  <2>1. 1 \in 1 .. n - 1
    BY <1>2
  <2> QED
    BY <1>6, <1>9, <1>10, <2>1
<1> QED
  BY <1>2, <1>4, <1>5, <1>7, <1>8, <1>11, <1>12

LEMMA SetterDone ==
  ASSUME AmpInv, http # <<>>, http[1].do = "set", http' = Tail(http), UNCHANGED <<nv, rt, lost>>,
         IsDriver(drv'), ChipsRun(drv', chip'), PowersKept,
         drv'.off = drv.off \/ IsSet(http[1], "off"),
         drv'.subXo = drv.subXo \/ IsSet(http[1], "subXo"),
         drv'.subEq = drv.subEq \/ IsSet(http[1], "subXo") \/ IsSet(http[1], "subLow") \/ IsSet(http[1], "subHigh"),
         \/ drv'.eq = drv.eq /\ http[1].key # "eq"
         \/ IsSet(http[1], "eq") /\ drv'.eq = http[1].val
  PROVE  AmpInv'
<1>1. PICK S : http \in Seq(S)
  BY DEF AmpInv, AmpTypes
<1>2. InHandlersOrder(http) /\ ~IsSave(http[1], "eq") /\ \A k : ~IsSave(http[1], k)
  BY DEF AmpInv, IsSave
<1>3. PICK t : t = Tail(http) /\ t = http'
  OBVIOUS
<1>4. t \in Seq(S) /\ InHandlersOrder(t)
  BY <1>1, <1>2, <1>3, GoesOn
<1>5. \A k : Later(http, 1, k) => Later(t, 0, k)
  BY <1>1, <1>2, <1>3, GoesOn
<1>6. \A k : Later(http, 0, k) => Later(t, 0, k)
  BY <1>1, <1>2, <1>3, GoesOn
<1>7. NoCurve(t) /\ http[1].key # "eq" => NoCurve(http)
  BY <1>1, <1>2, <1>3, GoesOn
<1>8. ~(t # <<>> /\ IsSet(t[1], "eq"))
  BY <1>1, <1>2, <1>3, GoesOn
<1>9. 1 \in 1 .. Len(http)
  BY <1>1
<1>10. /\ IsSet(http[1], "off") => Later(http, 1, "off")
       /\ IsSet(http[1], "subXo") => Later(http, 1, "subXo") /\ Later(http, 1, "subEq")
       /\ IsSet(http[1], "subLow") \/ IsSet(http[1], "subHigh") => Later(http, 1, "subEq")
       /\ IsSet(http[1], "eq") => http[1].val # -1
  BY <1>2, <1>9 DEF InHandlersOrder
<1>11. AmpTypes'
  BY <1>3, <1>4 DEF AmpInv, AmpTypes
<1>12. ASSUME ~lost'
       PROVE  AsSaved' /\ CurveSaved' /\ CurveInForce'
  <2>1. AsSaved /\ CurveSaved /\ CurveInForce
    BY <1>12 DEF AmpInv
  <2>2. AsSaved'
    BY <1>3, <1>5, <1>6, <1>10, <2>1 DEF AsSaved
  <2>3. IsSet(http[1], "eq") => http[1].val = nv.eq
    BY <2>1 DEF CurveSaved
  <2>4. CurveSaved'
    BY <1>3, <1>8, <1>10, <2>1, <2>3 DEF CurveSaved
  <2>5. CurveInForce'
    <3>1. CASE drv'.eq = drv.eq /\ http[1].key # "eq"
      BY <1>3, <1>7, <2>1, <3>1 DEF CurveInForce, PowersKept
    <3>2. CASE IsSet(http[1], "eq") /\ drv'.eq = http[1].val
      BY <1>10, <2>3, <3>2 DEF CurveInForce
    <3> QED
      BY <3>1, <3>2
  <2> QED
    BY <2>2, <2>4, <2>5
<1> QED
  BY <1>3, <1>4, <1>11, <1>12 DEF AmpInv

LEMMA SaveDone ==
  ASSUME AmpInv, http # <<>>, http[1].do = "save", http' = Tail(http), UNCHANGED <<drv, chip, rt>>,
         IsFlash(nv'), lost' \in BOOLEAN, ~lost' => ~lost,
         ~lost' => nv'.off = drv.off \/ (nv'.off = nv.off /\ http[1].key # "off"),
         ~lost' => nv'.subXo = drv.subXo \/ (nv'.subXo = nv.subXo /\ http[1].key # "subXo"),
         ~lost' => nv'.subEq = drv.subEq \/ (nv'.subEq = nv.subEq /\ http[1].key # "subEq"),
         ~lost' => \/ nv'.eq = nv.eq /\ http[1].key # "eq"
                   \/ /\ http[1].key = "eq" /\ nv'.eq = http[1].val
                      /\ rt.at = "apply" => nv'.eq = nv.eq
  PROVE  AmpInv'
<1>1. PICK S : http \in Seq(S)
  BY DEF AmpInv, AmpTypes
<1>2. InHandlersOrder(http) /\ \A k : IsSave(http[1], k) <=> http[1].key = k
  BY DEF AmpInv, IsSave
<1>3. PICK t : t = Tail(http) /\ t = http'
  OBVIOUS
<1>4. t \in Seq(S) /\ InHandlersOrder(t)
  BY <1>1, <1>2, <1>3, GoesOn
<1>5. \A k : Later(http, 0, k) /\ http[1].key # k => Later(t, 0, k)
  BY <1>1, <1>2, <1>3, GoesOn
<1>6. NoCurve(t) /\ http[1].key # "eq" => NoCurve(http)
  BY <1>1, <1>2, <1>3, GoesOn
<1>7. t # <<>> /\ IsSet(t[1], "eq") => http[1].key = "eq" /\ t[1].val = http[1].val
  BY <1>1, <1>2, <1>3, GoesOn
<1>8. http[1].key = "eq" => ~NoCurve(t)
  BY <1>1, <1>2, <1>3, GoesOn
<1>9. 1 \in 1 .. Len(http)
  BY <1>1
<1>10. http[1].key = "eq" => http[1].val # -1
  BY <1>2, <1>9 DEF InHandlersOrder
<1>11. AmpTypes'
  BY <1>3, <1>4 DEF AmpInv, AmpTypes
<1>12. ASSUME ~lost'
       PROVE  AsSaved' /\ CurveSaved' /\ CurveInForce'
  <2>1. AsSaved /\ CurveSaved /\ CurveInForce
    BY <1>12 DEF AmpInv
  <2>2. AsSaved'
    BY <1>3, <1>5, <1>12, <2>1 DEF AsSaved
  <2>3. CurveSaved'
    BY <1>3, <1>7, <1>10, <1>12, <2>1 DEF CurveSaved
  <2>4. CurveInForce'
    BY <1>3, <1>6, <1>8, <1>12, <2>1 DEF CurveInForce
  <2> QED
    BY <2>2, <2>3, <2>4
<1> QED
  BY <1>3, <1>4, <1>11, <1>12 DEF AmpInv


(* Where a request starts.                                                  *)
LEMMA PairOf ==
  ASSUME NEW a, NEW b, NEW q, q = <<a, b>>
  PROVE  /\ Len(q) = 2 /\ q[1] = a /\ q[2] = b /\ \E S : q \in Seq(S)
         /\ \A i \in 1 .. Len(q) : (i = 1 /\ q[i] = a) \/ (i = 2 /\ q[i] = b)
<1>1. Len(q) = 2 /\ q[1] = a /\ q[2] = b /\ q \in Seq({a, b})
  OBVIOUS
<1>2. ASSUME NEW i \in 1 .. 2
      PROVE  (i = 1 /\ q[i] = a) \/ (i = 2 /\ q[i] = b)
  <2>1. i = 1 \/ i = 2
    OBVIOUS
  <2> QED
    BY <1>1, <2>1
<1>3. \E S : q \in Seq(S)
  BY <1>1
<1> QED
  BY <1>1, <1>2, <1>3

LEMMA JoinedPair ==
  ASSUME NEW a, NEW b, NEW c
  PROVE  <<a, b>> \o <<c>> = <<a, b, c>>
<1>1. PICK s, t : s = <<a, b>> /\ t = <<c>>
  OBVIOUS
<1>2. s \in Seq({a, b, c}) /\ t \in Seq({a, b, c}) /\ Len(s) = 2 /\ Len(t) = 1 /\ s[1] = a /\ s[2] = b /\ t[1] = c
  BY <1>1
<1>3. PICK u : u = s \o t
  OBVIOUS
<1>4. u \in Seq({a, b, c}) /\ Len(u) = 3 /\ u[1] = a /\ u[2] = b /\ u[3] = c
  <2>1. u \in Seq({a, b, c}) /\ Len(u) = Len(s) + Len(t)
    BY <1>2, <1>3, ConcatProperties
  <2>2. \A i \in 1 .. 3 : u[i] = IF i <= 2 THEN s[i] ELSE t[i - 2]
    BY <1>2, <1>3, ConcatProperties
  <2> QED
    BY <1>2, <2>1, <2>2
<1>5. u = <<a, b, c>>
  BY <1>4
<1> QED
  BY <1>1, <1>3, <1>5

LEMMA TripleOf ==
  ASSUME NEW a, NEW b, NEW c, NEW q, q = <<a, b, c>> \/ q = <<a, b>> \o <<c>>
  PROVE  /\ Len(q) = 3 /\ q[1] = a /\ q[2] = b /\ q[3] = c /\ \E S : q \in Seq(S)
         /\ \A i \in 1 .. Len(q) : (i = 1 /\ q[i] = a) \/ (i = 2 /\ q[i] = b) \/ (i = 3 /\ q[i] = c)
<1>1. <<a, b>> \o <<c>> = <<a, b, c>>
  BY JoinedPair
<1>2. q = <<a, b, c>>
  BY <1>1
<1>3. Len(q) = 3 /\ q[1] = a /\ q[2] = b /\ q[3] = c
  BY <1>2
<1>4. q \in Seq({a, b, c})
  BY <1>2
<1> QED
  BY <1>3, <1>4

LEMMA OneSetter ==
  ASSUME NEW k, NEW v, k # "eq", k \notin {"subXo", "subLow", "subHigh"}, NEW q, q = Steps(k, v, <<>>)
  PROVE  (\E S : q \in Seq(S)) /\ InHandlersOrder(q) /\ ~IsSet(q[1], "eq")
<1>1. PICK a, b : a = Set(k, v) /\ b = Save(k)
  OBVIOUS
<1>2. q = <<a, b>>
  BY <1>1 DEF Steps
<1>3. Len(q) = 2 /\ q[1] = a /\ q[2] = b /\ \E S : q \in Seq(S)
  BY <1>2, PairOf
<1>4. \A i \in 1 .. Len(q) : (i = 1 /\ q[i] = a) \/ (i = 2 /\ q[i] = b)
  BY <1>2, PairOf
<1>5. a.do = "set" /\ a.key = k /\ b.do = "save" /\ b.key = k
  BY <1>1 DEF Set, Save
<1>6. k = "off" => Later(q, 1, "off")
  BY <1>3, <1>5 DEF Later, IsSave
<1>7. InHandlersOrder(q)
  BY <1>4, <1>5, <1>6 DEF InHandlersOrder, IsSet, IsSave
<1> QED
  BY <1>3, <1>5, <1>7 DEF IsSet

LEMMA TwoSaves ==
  ASSUME NEW k, NEW v, NEW l, <<k, l>> \in {<<"subXo", "subEq">>, <<"baXo", "baEq">>},
         NEW q, q = Steps(k, v, <<Save(l)>>)
  PROVE  (\E S : q \in Seq(S)) /\ InHandlersOrder(q) /\ ~IsSet(q[1], "eq")
<1>1. PICK a, b, c : a = Set(k, v) /\ b = Save(k) /\ c = Save(l)
  OBVIOUS
<1>2. q = <<a, b>> \o <<c>>
  BY <1>1 DEF Steps
<1>3. Len(q) = 3 /\ q[1] = a /\ q[2] = b /\ q[3] = c /\ \E S : q \in Seq(S)
  BY <1>2, TripleOf
<1>4. \A i \in 1 .. Len(q) : (i = 1 /\ q[i] = a) \/ (i = 2 /\ q[i] = b) \/ (i = 3 /\ q[i] = c)
  BY <1>2, TripleOf
<1>5. /\ a.do = "set" /\ a.key = k /\ b.do = "save" /\ b.key = k /\ c.do = "save" /\ c.key = l
      /\ (k = "subXo" /\ l = "subEq") \/ (k = "baXo" /\ l = "baEq")
  BY <1>1 DEF Set, Save
<1>6. Later(q, 1, k) /\ Later(q, 1, l)
  BY <1>3, <1>5 DEF Later, IsSave
<1>7. InHandlersOrder(q)
  BY <1>4, <1>5, <1>6 DEF InHandlersOrder, IsSet, IsSave
<1> QED
  BY <1>3, <1>5, <1>7 DEF IsSet

LEMMA SubBands ==
  ASSUME NEW g, NEW h, NEW q, q = <<Set("subLow", g), Set("subHigh", h), Save("subEq")>>
  PROVE  (\E S : q \in Seq(S)) /\ InHandlersOrder(q) /\ ~IsSet(q[1], "eq")
<1>2. /\ Len(q) = 3 /\ q[1] = Set("subLow", g) /\ q[2] = Set("subHigh", h) /\ q[3] = Save("subEq")
      /\ q \in Seq({Set("subLow", g), Set("subHigh", h), Save("subEq")})
  OBVIOUS
<1>3. Later(q, 1, "subEq") /\ Later(q, 2, "subEq")
  BY <1>2 DEF Later, IsSave, Save
<1>4. ASSUME NEW i \in 1 .. Len(q)
      PROVE  \/ i = 1 /\ q[i] = Set("subLow", g)
             \/ i = 2 /\ q[i] = Set("subHigh", h)
             \/ q[i] = Save("subEq")
  BY <1>2
<1>5. InHandlersOrder(q)
  BY <1>3, <1>4 DEF InHandlersOrder, IsSet, IsSave, Set, Save
<1> QED
  BY <1>2, <1>5 DEF IsSet, Set

LEMMA BiampBand ==
  ASSUME NEW v, NEW q, q = <<Set("baGain", v), Save("baEq")>>
  PROVE  (\E S : q \in Seq(S)) /\ InHandlersOrder(q) /\ ~IsSet(q[1], "eq")
<1>2. Len(q) = 2 /\ q[1] = Set("baGain", v) /\ q[2] = Save("baEq") /\ q \in Seq({Set("baGain", v), Save("baEq")})
  OBVIOUS
<1>4. ASSUME NEW i \in 1 .. Len(q)
      PROVE  q[i] = Set("baGain", v) \/ q[i] = Save("baEq")
  BY <1>2
<1>5. InHandlersOrder(q)
  BY <1>4 DEF InHandlersOrder, IsSet, IsSave, Set, Save
<1> QED
  BY <1>2, <1>5 DEF IsSet, Set

LEMMA CurveAsked ==
  ASSUME NEW g \in Gains, NEW q, q = OnEqEvent(g)
  PROVE  (\E S : q \in Seq(S)) /\ InHandlersOrder(q) /\ ~IsSet(q[1], "eq")
<1>1. PICK a, b : a = [Save("eq") EXCEPT !.val = g] /\ b = Set("eq", g)
  OBVIOUS
<1>2. q = <<a, b>>
  BY <1>1 DEF OnEqEvent
<1>3. Len(q) = 2 /\ q[1] = a /\ q[2] = b /\ q \in Seq({a, b})
  BY <1>2
<1>4. IsSave(a, "eq") /\ IsSet(b, "eq") /\ a.val = g /\ b.val = g /\ g # -1 /\ a.do # "set" /\ b.do # "save"
      /\ a.key = "eq" /\ b.key = "eq"
  BY <1>1, AmplifierAssumption DEF IsSave, IsSet, Save, Set
<1>5. ASSUME NEW i \in 1 .. Len(q)
      PROVE  (i = 1 /\ q[i] = a) \/ (i = 2 /\ q[i] = b)
  BY <1>3
<1>6. InHandlersOrder(q)
  BY <1>3, <1>4, <1>5 DEF InHandlersOrder, IsSet, IsSave
<1> QED
  BY <1>3, <1>4, <1>6 DEF IsSet

LEMMA AskedInOrder ==
  ASSUME SubOffsetPost \/ DualModePost \/ BiampPost \/ EqPost
  PROVE  (\E S : http' \in Seq(S)) /\ InHandlersOrder(http') /\ ~IsSet(http'[1], "eq")
<1>1. CASE SubOffsetPost
  <2>1. CASE \E v \in Offsets : http' = Steps("off", v, <<>>)
    BY <2>1, OneSetter
  <2>2. CASE \E hz \in Corners : http' = Steps("subXo", hz, <<Save("subEq")>>)
    BY <2>2, TwoSaves
  <2>3. CASE \E g, h \in Gains : http' = <<Set("subLow", g), Set("subHigh", h), Save("subEq")>>
    BY <2>3, SubBands
  <2> QED
    BY <1>1, <2>1, <2>2, <2>3 DEF SubOffsetPost
<1>2. CASE DualModePost
  BY <1>2, OneSetter DEF DualModePost
<1>3. CASE BiampPost
  <2>1. CASE \E hz \in BiampCorners : http' = Steps("baXo", hz, <<Save("baEq")>>)
    BY <2>1, TwoSaves
  <2>2. CASE \E b \in BOOLEAN : http' = Steps("baSwap", b, <<>>)
    BY <2>2, OneSetter
  <2>3. CASE \E d \in {1, 2}, w \in Ways, g \in Gains : http' = <<Set("baGain", <<d, w, g>>), Save("baEq")>>
    BY <2>3, BiampBand
  <2> QED
    BY <1>3, <2>1, <2>2, <2>3 DEF BiampPost
<1>4. CASE EqPost
  BY <1>4, CurveAsked DEF EqPost
<1> QED
  BY <1>1, <1>2, <1>3, <1>4

(* Power on and power cuts.                                                 *)
LEMMA NoRequest ==
  /\ \E S : <<>> \in Seq(S)
  /\ InHandlersOrder(<<>>) /\ NoCurve(<<>>)
  /\ \A k : ~Later(<<>>, 0, k)
<1>1. <<>> \in Seq({}) /\ Len(<<>>) = 0
  OBVIOUS
<1> QED
  BY <1>1 DEF InHandlersOrder, NoCurve, Later

LEMMA Boots ==
  ASSUME NEW s, NEW v, IsFlash(s), NEW dv, dv = Restored(s, v), NEW cs, cs = BoardStart(dv)
  PROVE  /\ IsDriver(dv) /\ dv.off = s.off /\ dv.subXo = s.subXo /\ dv.subEq = s.subEq /\ dv.eq = 0
         /\ ChipsRun(dv, cs) /\ \A d \in Chips : cs[d].power = "off"
<1>1. PICK m, n : m = (IF BiampSupported THEN s.dual ELSE "sub") /\ n = (IF Devs > 1 THEN m ELSE "sub")
  OBVIOUS
<1>2. dv = [off |-> s.off, subXo |-> s.subXo, subEq |-> s.subEq, dual |-> m, baXo |-> s.baXo, baSwap |-> s.baSwap,
            baEq |-> s.baEq, eq |-> 0, vol |-> v, active |-> n]
  BY <1>1 DEF Restored, Latched
<1>3. IsDriver(dv) /\ dv.off = s.off /\ dv.subXo = s.subXo /\ dv.subEq = s.subEq /\ dv.eq = 0
  BY <1>2 DEF IsDriver
<1>4. DOMAIN cs = Chips /\ \A d \in Chips : IsChip(cs[d]) /\ cs[d].power = "off"
  BY BootsSilent
<1> QED
  BY <1>3, <1>4 DEF ChipsRun, Runs

LEMMA AmpStarts == AmpInit => AmpInv
<1> SUFFICES ASSUME AmpInit PROVE AmpInv
  OBVIOUS
<1>1. IsFlash(nv) /\ nv.eq = -1
  BY DEF AmpInit, Defaults, IsFlash
<1>2. PICK v : drv = Restored(nv, v) /\ chip = BoardStart(drv)
  BY DEF AmpInit
<1>3. /\ IsDriver(drv) /\ drv.off = nv.off /\ drv.subXo = nv.subXo /\ drv.subEq = nv.subEq /\ drv.eq = 0
      /\ ChipsRun(drv, chip) /\ \A d \in Chips : chip[d].power = "off"
  BY <1>1, <1>2, Boots
<1>4. http = <<>> /\ rt = NoRestore /\ lost = FALSE
  BY DEF AmpInit
<1>5. AmpTypes
  BY <1>1, <1>3, <1>4, NoRequest DEF AmpTypes
<1>6. AsSaved /\ CurveSaved /\ CurveInForce
  BY <1>1, <1>3, <1>4 DEF AsSaved, CurveSaved, CurveInForce, NoRestore
<1> QED
  BY <1>3, <1>4, <1>5, <1>6, NoRequest DEF AmpInv

LEMMA AmpCut == AmpInv /\ PowerCut => AmpInv'
<1> SUFFICES ASSUME AmpInv, PowerCut PROVE AmpInv'
  OBVIOUS
<1>1. IsFlash(nv) /\ nv' = nv
  BY DEF AmpInv, AmpTypes, PowerCut
<1>2. PICK v : drv' = Restored(nv, v) /\ chip' = BoardStart(drv')
  BY DEF PowerCut
<1>3. /\ IsDriver(drv') /\ drv'.off = nv.off /\ drv'.subXo = nv.subXo /\ drv'.subEq = nv.subEq /\ drv'.eq = 0
      /\ ChipsRun(drv', chip') /\ \A d \in Chips : chip'[d].power = "off"
  BY <1>1, <1>2, Boots
<1>4. http' = <<>> /\ rt' = NoRestore /\ lost' = FALSE
  BY DEF PowerCut
<1>5. AmpTypes'
  BY <1>1, <1>3, <1>4, NoRequest DEF AmpTypes
<1>6. AsSaved' /\ CurveSaved' /\ CurveInForce'
  BY <1>1, <1>3, <1>4 DEF AsSaved, CurveSaved, CurveInForce, NoRestore
<1> QED
  BY <1>3, <1>4, <1>5, <1>6, NoRequest DEF AmpInv

(* The player's events.                                                     *)
LEMMA GoneQuiet ==
  ASSUME AmpInv, UNCHANGED <<nv, drv, http, rt, lost>>, DOMAIN chip' = Chips,
         \A d \in Chips : IsChip(chip'[d]) /\ chip'[d].power # "play"
  PROVE  AmpInv'
<1>1. ChipsRun(drv', chip')
  BY DEF ChipsRun, Runs
<1>2. AmpTypes' /\ InHandlersOrder(http')
  BY DEF AmpInv, AmpTypes
<1>3. ~lost' => AsSaved' /\ CurveSaved' /\ CurveInForce'
  BY DEF AmpInv, AsSaved, CurveSaved, CurveInForce
<1> QED
  BY <1>1, <1>2, <1>3 DEF AmpInv

LEMMA AmpPauses == AmpInv /\ ClientConnectedOrPaused => AmpInv'
<1> SUFFICES ASSUME AmpInv, ClientConnectedOrPaused PROVE AmpInv'
  OBVIOUS
<1>1. PICK w : /\ \A d \in Chips : w[d] \in Wakes(chip[d])
               /\ chip' = [d \in Chips |-> Standby(w[d])]
  BY DEF ClientConnectedOrPaused
<1>2. ASSUME NEW d \in Chips PROVE IsChip(chip'[d]) /\ chip'[d].power # "play"
  <2>1. IsChip(chip[d])
    BY DEF AmpInv, ChipsRun
  <2>2. PICK c, v : c = chip[d] /\ v = w[d]
    OBVIOUS
  <2>3. IsChip(v)
    BY <1>1, <2>1, <2>2, Woken
  <2>4. PICK x : x = Standby(v)
    OBVIOUS
  <2>5. IsChip(x) /\ x.power # "play"
    BY <2>3, <2>4, Silent
  <2> QED
    BY <1>1, <2>2, <2>4, <2>5
<1>3. DOMAIN chip' = Chips /\ UNCHANGED <<nv, drv, http, rt, lost>>
  BY <1>1 DEF ClientConnectedOrPaused
<1> QED
  BY <1>2, <1>3, GoneQuiet

LEMMA AmpDisconnects == AmpInv /\ Disconnected => AmpInv'
<1> SUFFICES ASSUME AmpInv, Disconnected PROVE AmpInv'
  OBVIOUS
<1>1. chip' = [d \in Chips |-> Sleep(chip[d])]
  BY DEF Disconnected
<1>2. ASSUME NEW d \in Chips PROVE IsChip(chip'[d]) /\ chip'[d].power # "play"
  <2>1. PICK c, x : c = chip[d] /\ x = Sleep(c)
    OBVIOUS
  <2>2. IsChip(c)
    BY <2>1 DEF AmpInv, ChipsRun
  <2>3. IsChip(x) /\ x.power # "play"
    BY <2>1, <2>2, Silent
  <2> QED
    BY <1>1, <2>1, <2>3
<1>3. DOMAIN chip' = Chips /\ UNCHANGED <<nv, drv, http, rt, lost>>
  BY <1>1 DEF Disconnected
<1> QED
  BY <1>2, <1>3, GoneQuiet

LEMMA AmpPlays == AmpInv /\ Playing => AmpInv'
<1> SUFFICES ASSUME AmpInv, Playing PROVE AmpInv'
  OBVIOUS
<1>1. PICK w : /\ \A d \in Chips : w[d] \in Wakes(chip[d])
               /\ chip' = [d \in Chips |-> PowerOn(drv, w[d], chip[d].power, d)]
  BY DEF Playing
<1>2. ASSUME NEW d \in Chips
      PROVE  IsChip(chip'[d]) /\ (drv.active = "sub" => Runs(drv, chip'[d], d))
  <2>1. IsChip(chip[d])
    BY DEF AmpInv, ChipsRun
  <2>2. PICK c, v, x : c = chip[d] /\ v = w[d] /\ x = chip'[d]
    OBVIOUS
  <2>3. IsChip(v)
    BY <1>1, <2>1, <2>2, Woken
  <2>4. PICK was : was = c.power
    OBVIOUS
  <2>5. x = PowerOn(drv, v, was, d)
    BY <1>1, <2>2, <2>4
  <2>6. IsChip(x) /\ (drv.active = "sub" => Runs(drv, x, d))
    BY <2>3, <2>5, PoweredOn, TwoChips
  <2> QED
    BY <2>2, <2>6
<1>3. /\ DOMAIN chip' = Chips /\ UNCHANGED <<nv, drv, http, lost>>
      /\ rt' = [at |-> "read", g |-> 0]
  BY <1>1 DEF Playing
<1>4. ChipsRun(drv', chip')
  BY <1>2, <1>3 DEF ChipsRun
<1>5. AmpTypes' /\ InHandlersOrder(http')
  BY <1>3 DEF AmpInv, AmpTypes
<1>6. rt' # NoRestore /\ rt'.at # "apply"
  BY <1>3 DEF NoRestore
<1>7. ~lost' => AsSaved' /\ CurveSaved' /\ CurveInForce'
  BY <1>3, <1>6 DEF AmpInv, AsSaved, CurveSaved, CurveInForce
<1> QED
  BY <1>4, <1>5, <1>7 DEF AmpInv

LEMMA AmpReads == AmpInv /\ RestoreRead => AmpInv'
<1> SUFFICES ASSUME AmpInv, RestoreRead PROVE AmpInv'
  OBVIOUS
<1>1. /\ UNCHANGED <<nv, drv, chip, http, lost>>
      /\ rt' = IF nv.eq = -1 THEN NoRestore ELSE [at |-> "apply", g |-> nv.eq]
  BY DEF RestoreRead
<1>2. AmpTypes' /\ InHandlersOrder(http') /\ ChipsRun(drv', chip')
  BY <1>1 DEF AmpInv, AmpTypes
<1>3. nv.eq = -1 => rt' = NoRestore /\ rt'.at # "apply"
  BY <1>1 DEF NoRestore
<1>4. nv.eq # -1 => rt'.at = "apply" /\ rt'.g = nv.eq /\ rt' # NoRestore
  BY <1>1 DEF NoRestore
<1>5. ~lost' => AsSaved' /\ CurveSaved' /\ CurveInForce'
  BY <1>1, <1>3, <1>4 DEF AmpInv, AsSaved, CurveSaved, CurveInForce
<1> QED
  BY <1>2, <1>5 DEF AmpInv

LEMMA AmpApplies == AmpInv /\ RestoreApply => AmpInv'
<1> SUFFICES ASSUME AmpInv, RestoreApply PROVE AmpInv'
  OBVIOUS
<1>1. PICK g : g = rt.g
  OBVIOUS
<1>2. rt.at = "apply" /\ EqSetAll(g) /\ rt' = NoRestore /\ UNCHANGED <<nv, http, lost>>
  BY <1>1 DEF RestoreApply
<1>3. drv' = [drv EXCEPT !.eq = g] /\ ChipsRun(drv', chip')
  BY <1>2, CurveSet
<1>4. IsDriver(drv') /\ drv'.eq = g /\ drv'.off = drv.off /\ drv'.subXo = drv.subXo /\ drv'.subEq = drv.subEq
  BY <1>3 DEF AmpInv, AmpTypes, IsDriver
<1>5. AmpTypes' /\ InHandlersOrder(http')
  BY <1>2, <1>4 DEF AmpInv, AmpTypes
<1>6. rt'.at # "apply"
  BY <1>2 DEF NoRestore
<1>7. ~lost' => AsSaved' /\ CurveSaved' /\ CurveInForce'
  BY <1>1, <1>2, <1>4, <1>6 DEF AmpInv, AsSaved, CurveSaved, CurveInForce
<1> QED
  BY <1>3, <1>5, <1>7 DEF AmpInv

LEMMA AmpVolume == AmpInv /\ SetVolume => AmpInv'
<1> SUFFICES ASSUME AmpInv, SetVolume PROVE AmpInv'
  OBVIOUS
<1>1. PICK v : drv' = [drv EXCEPT !.vol = v] /\ chip' = ApplyVolume(drv', chip) /\ UNCHANGED <<nv, http, rt, lost>>
  BY DEF SetVolume
<1>2. PICK dv : dv = [drv EXCEPT !.vol = v]
  OBVIOUS
<1>3. /\ IsDriver(dv) /\ dv.eq = drv.eq /\ dv.off = drv.off /\ dv.subXo = drv.subXo /\ dv.subEq = drv.subEq
      /\ dv.active = drv.active
  BY <1>2 DEF AmpInv, AmpTypes, IsDriver
<1>4. \A d \in Chips : Chain(dv, d) = Chain(drv, d)
  BY <1>3 DEF Chain, SubChain, SatChain, SatelliteActive, Pbtl
<1>5. drv' = dv /\ chip' = ApplyVolume(dv, chip)
  BY <1>1, <1>2
<1>6. ChipsRun(dv, chip') /\ PowersKept
  BY <1>3, <1>4, <1>5, VolumeSet
<1>7. AmpTypes' /\ InHandlersOrder(http')
  BY <1>1, <1>3, <1>5 DEF AmpInv, AmpTypes
<1>8. ~lost' => AsSaved' /\ CurveSaved' /\ CurveInForce'
  BY <1>1, <1>3, <1>5, <1>6 DEF AmpInv, AsSaved, CurveSaved, CurveInForce, PowersKept
<1> QED
  BY <1>5, <1>6, <1>7, <1>8 DEF AmpInv

LEMMA AmpAsked == AmpInv /\ HttpRequest => AmpInv'
<1> SUFFICES ASSUME AmpInv, HttpRequest PROVE AmpInv'
  OBVIOUS
<1>1. http = <<>> /\ UNCHANGED <<nv, drv, chip, rt, lost>>
  BY DEF HttpRequest
<1>2. (\E S : http' \in Seq(S)) /\ InHandlersOrder(http') /\ ~IsSet(http'[1], "eq")
  BY AskedInOrder DEF HttpRequest
<1>3. AmpTypes' /\ ChipsRun(drv', chip')
  BY <1>1, <1>2 DEF AmpInv, AmpTypes
<1>4. NoCurve(http) /\ \A k : ~Later(http, 0, k)
  BY <1>1, NoRequest
<1>5. ~lost' => AsSaved' /\ CurveSaved' /\ CurveInForce'
  BY <1>1, <1>2, <1>4 DEF AmpInv, AsSaved, CurveSaved, CurveInForce
<1> QED
  BY <1>2, <1>3, <1>5 DEF AmpInv

(* The steps of a request.                                                  *)
LEMMA AmpSets == AmpInv /\ RequestSet => AmpInv'
<1> SUFFICES ASSUME AmpInv, RequestSet PROVE AmpInv'
  OBVIOUS
<1>1. PICK k, v : k = http[1].key /\ v = http[1].val
  OBVIOUS
<1>2. http # <<>> /\ http[1].do = "set" /\ http' = Tail(http) /\ UNCHANGED <<nv, rt, lost>>
  <2>1. PICK S : http \in Seq(S)
    BY DEF AmpInv, AmpTypes
  <2> QED
    BY <2>1 DEF RequestSet
<1>3. Head(http) = http[1]
  BY <1>2 DEF AmpInv, AmpTypes
<1>4. \A l : IsSet(http[1], l) <=> k = l
  BY <1>1, <1>2 DEF IsSet
<1>5. \/ k = "off" /\ SetSubOffset(v)
      \/ k = "subXo" /\ SetSubCrossover(v)
      \/ k = "subLow" /\ SetSubGains("low", v)
      \/ k = "subHigh" /\ SetSubGains("high", v)
      \/ k = "dual" /\ SetDualMode(v)
      \/ k = "baXo" /\ SetBiampCrossover(v)
      \/ k = "baSwap" /\ SetBiampSwap(v)
      \/ k = "baGain" /\ SetBiampGains(v[1], v[2], v[3])
      \/ k = "eq" /\ EqSetAll(v)
  BY <1>1, <1>3 DEF RequestSet
<1>6. IsDriver(drv) /\ ChipsRun(drv, chip)
  BY DEF AmpInv, AmpTypes
<1>7. CASE k = "off" /\ SetSubOffset(v)
  <2>1. PICK dv : dv = [drv EXCEPT !.off = v]
    OBVIOUS
  <2>2. /\ IsDriver(dv) /\ dv.eq = drv.eq /\ dv.subXo = drv.subXo /\ dv.subEq = drv.subEq
        /\ dv.active = drv.active
    BY <1>6, <2>1 DEF IsDriver
  <2>3. \A d \in Chips : Chain(dv, d) = Chain(drv, d)
    BY <2>2 DEF Chain, SubChain, SatChain, SatelliteActive, Pbtl
  <2>4. drv' = dv /\ chip' = ApplyVolume(dv, chip)
    BY <1>7, <2>1 DEF SetSubOffset
  <2>5. ChipsRun(drv', chip') /\ PowersKept
    BY <2>2, <2>3, <2>4, VolumeSet
  <2> QED
    BY <1>1, <1>2, <1>4, <1>7, <2>2, <2>4, <2>5, SetterDone
<1>8. CASE k = "subXo" /\ SetSubCrossover(v)
  <2>1. PICK e : e = IF v # drv.subXo THEN FlatGains ELSE drv.subEq
    OBVIOUS
  <2>2. PICK dv : dv = [drv EXCEPT !.subXo = v, !.subEq = e]
    OBVIOUS
  <2>3. IsDriver(dv) /\ dv.eq = drv.eq /\ dv.off = drv.off /\ dv.vol = drv.vol /\ dv.active = drv.active
    BY <1>6, <2>2 DEF IsDriver
  <2>4. SubRetune(dv)
    BY <1>8, <2>1, <2>2 DEF SetSubCrossover
  <2>5. drv' = dv /\ ChipsRun(dv, chip') /\ PowersKept
    BY <2>3, <2>4, SubRetuned
  <2> QED
    BY <1>1, <1>2, <1>4, <1>8, <2>3, <2>5, SetterDone
<1>9. ASSUME NEW w, k = "subLow" \/ k = "subHigh", SetSubGains(w, v)
      PROVE  AmpInv'
  <2>1. PICK e : e = [drv.subEq EXCEPT ![w] = v]
    OBVIOUS
  <2>2. PICK dv : dv = [drv EXCEPT !.subEq = e]
    OBVIOUS
  <2>3. /\ IsDriver(dv) /\ dv.eq = drv.eq /\ dv.off = drv.off /\ dv.vol = drv.vol /\ dv.active = drv.active
        /\ dv.subXo = drv.subXo
    BY <1>6, <2>2 DEF IsDriver
  <2>4. SubRetune(dv)
    BY <1>9, <2>1, <2>2 DEF SetSubGains
  <2>5. drv' = dv /\ ChipsRun(dv, chip') /\ PowersKept
    BY <2>3, <2>4, SubRetuned
  <2> QED
    BY <1>1, <1>2, <1>4, <1>9, <2>3, <2>5, SetterDone
<1>10. CASE k = "dual" /\ SetDualMode(v)
  <2>1. drv' = [drv EXCEPT !.dual = v] /\ chip' = chip
    BY <1>10 DEF SetDualMode
  <2>2. PICK dv : dv = drv'
    OBVIOUS
  <2>3. /\ IsDriver(dv) /\ dv.eq = drv.eq /\ dv.off = drv.off /\ dv.vol = drv.vol /\ dv.active = drv.active
        /\ dv.subXo = drv.subXo /\ dv.subEq = drv.subEq
    BY <1>6, <2>1, <2>2 DEF IsDriver
  <2>4. ASSUME NEW d \in Chips
        PROVE  dv.active = "sub" => Runs(dv, chip[d], d)
    <3>1. drv.active = "sub" => Runs(drv, chip[d], d)
      BY <1>6 DEF ChipsRun
    <3>2. /\ Chain(dv, d) = Chain(drv, d) /\ VolReg(dv, d) = VolReg(drv, d)
          /\ Pbtl(dv, d) = Pbtl(drv, d)
      BY <2>3 DEF Chain, SubChain, SatChain, SatelliteActive, Pbtl, VolReg
    <3> QED
      BY <2>3, <3>1, <3>2 DEF Runs
  <2>5. ChipsRun(drv', chip') /\ PowersKept
    BY <1>6, <2>1, <2>2, <2>4 DEF ChipsRun, PowersKept
  <2> QED
    BY <1>1, <1>2, <1>4, <1>10, <2>2, <2>3, <2>5, SetterDone
<1>11. ASSUME NEW dv, NEW D, k \in {"baXo", "baSwap", "baGain"}, BiampRetune(dv, D),
              IsDriver(dv), dv.eq = drv.eq, dv.off = drv.off, dv.vol = drv.vol, dv.active = drv.active,
              dv.subXo = drv.subXo, dv.subEq = drv.subEq
       PROVE  AmpInv'
  <2>1. \A d \in Chips : Chain(dv, d) = Chain(drv, d)
    BY <1>11 DEF Chain, SubChain, SatChain, SatelliteActive, Pbtl
  <2>2. drv' = dv /\ ChipsRun(dv, chip') /\ PowersKept
    BY <1>11, <2>1, BiampRetuned
  <2> QED
    BY <1>1, <1>2, <1>4, <1>11, <2>2, SetterDone
<1>12. CASE k = "baXo" /\ SetBiampCrossover(v)
  <2>1. PICK e : e = IF v # drv.baXo THEN [d \in {1, 2} |-> FlatGains] ELSE drv.baEq
    OBVIOUS
  <2>2. PICK dv : dv = [drv EXCEPT !.baXo = v, !.baEq = e]
    OBVIOUS
  <2>3. /\ IsDriver(dv) /\ dv.eq = drv.eq /\ dv.off = drv.off /\ dv.vol = drv.vol /\ dv.active = drv.active
        /\ dv.subXo = drv.subXo /\ dv.subEq = drv.subEq
    BY <1>6, <2>2 DEF IsDriver
  <2>4. BiampRetune(dv, Chips)
    BY <1>12, <2>1, <2>2 DEF SetBiampCrossover
  <2> QED
    BY <1>11, <1>12, <2>3, <2>4
<1>13. CASE k = "baSwap" /\ SetBiampSwap(v)
  <2>2. PICK dv : dv = [drv EXCEPT !.baSwap = v]
    OBVIOUS
  <2>3. /\ IsDriver(dv) /\ dv.eq = drv.eq /\ dv.off = drv.off /\ dv.vol = drv.vol /\ dv.active = drv.active
        /\ dv.subXo = drv.subXo /\ dv.subEq = drv.subEq
    BY <1>6, <2>2 DEF IsDriver
  <2>4. BiampRetune(dv, Chips)
    BY <1>13, <2>2 DEF SetBiampSwap
  <2> QED
    BY <1>11, <1>13, <2>3, <2>4
<1>14. CASE k = "baGain" /\ SetBiampGains(v[1], v[2], v[3])
  <2>1. PICK e : e = [drv.baEq EXCEPT ![v[1]][v[2]] = v[3]]
    OBVIOUS
  <2>2. PICK dv : dv = [drv EXCEPT !.baEq = e]
    OBVIOUS
  <2>3. /\ IsDriver(dv) /\ dv.eq = drv.eq /\ dv.off = drv.off /\ dv.vol = drv.vol /\ dv.active = drv.active
        /\ dv.subXo = drv.subXo /\ dv.subEq = drv.subEq
    BY <1>6, <2>2 DEF IsDriver
  <2>4. BiampRetune(dv, {v[1]})
    BY <1>14, <2>1, <2>2 DEF SetBiampGains
  <2> QED
    BY <1>11, <1>14, <2>3, <2>4
<1>15. CASE k = "eq" /\ EqSetAll(v)
  <2>1. drv' = [drv EXCEPT !.eq = v] /\ ChipsRun(drv', chip') /\ PowersKept
    BY <1>15, CurveSet
  <2>2. /\ IsDriver(drv') /\ drv'.eq = v /\ drv'.off = drv.off /\ drv'.subXo = drv.subXo
        /\ drv'.subEq = drv.subEq
    BY <1>6, <2>1 DEF IsDriver
  <2> QED
    BY <1>1, <1>2, <1>4, <1>15, <2>1, <2>2, SetterDone
<1> QED
  BY <1>5, <1>7, <1>8, <1>9, <1>10, <1>12, <1>13, <1>14, <1>15

LEMMA AmpSaves == AmpInv /\ RequestSave => AmpInv'
<1> SUFFICES ASSUME AmpInv, RequestSave PROVE AmpInv'
  OBVIOUS
<1>1. PICK k, v : k = http[1].key /\ v = http[1].val
  OBVIOUS
<1>2. http # <<>> /\ http[1].do = "save" /\ http' = Tail(http) /\ UNCHANGED <<drv, chip, rt>>
  <2>1. PICK S : http \in Seq(S)
    BY DEF AmpInv, AmpTypes
  <2> QED
    BY <2>1 DEF RequestSave
<1>3. Head(http) = http[1]
  BY <1>2 DEF AmpInv, AmpTypes
<1>4. \/ k = "off" /\ SaveSubOffset
      \/ k = "subXo" /\ SaveSubCrossover
      \/ k = "dual" /\ SaveDualMode
      \/ k = "subEq" /\ SaveSubEq
      \/ k = "baXo" /\ SaveBiampCrossover
      \/ k = "baSwap" /\ SaveBiampSwap
      \/ k = "baEq" /\ SaveBiampEq
      \/ k = "eq" /\ SaveEq(v)
  BY <1>1, <1>3 DEF RequestSave
<1>5. IsFlash(nv) /\ lost \in BOOLEAN
  BY DEF AmpInv, AmpTypes
<1>6. ASSUME NEW n, IsFlash(n), Persist(n),
             n.off = drv.off \/ (n.off = nv.off /\ k # "off"),
             n.subXo = drv.subXo \/ (n.subXo = nv.subXo /\ k # "subXo"),
             n.subEq = drv.subEq \/ (n.subEq = nv.subEq /\ k # "subEq"),
             \/ n.eq = nv.eq /\ k # "eq"
             \/ k = "eq" /\ n.eq = v /\ (rt.at = "apply" => n.eq = nv.eq)
      PROVE  AmpInv'
  <2>1. (nv' = n /\ lost' = lost) \/ (nv' = nv /\ lost' = TRUE)
    BY <1>6 DEF Persist
  <2> QED
    BY <1>1, <1>2, <1>5, <1>6, <2>1, SaveDone
<1>7. CASE k = "off" /\ SaveSubOffset
  <2>1. PICK n : n = [nv EXCEPT !.off = drv.off]
    OBVIOUS
  <2>2. IsFlash(n) /\ n.off = drv.off /\ n.subXo = nv.subXo /\ n.subEq = nv.subEq /\ n.eq = nv.eq
    BY <1>5, <2>1 DEF IsFlash
  <2> QED
    BY <1>6, <1>7, <2>1, <2>2 DEF SaveSubOffset
<1>8. CASE k = "subXo" /\ SaveSubCrossover
  <2>1. PICK n : n = [nv EXCEPT !.subXo = drv.subXo]
    OBVIOUS
  <2>2. IsFlash(n) /\ n.off = nv.off /\ n.subXo = drv.subXo /\ n.subEq = nv.subEq /\ n.eq = nv.eq
    BY <1>5, <2>1 DEF IsFlash
  <2> QED
    BY <1>6, <1>8, <2>1, <2>2 DEF SaveSubCrossover
<1>9. CASE k = "subEq" /\ SaveSubEq
  <2>1. PICK n : n = [nv EXCEPT !.subEq = drv.subEq]
    OBVIOUS
  <2>2. IsFlash(n) /\ n.off = nv.off /\ n.subXo = nv.subXo /\ n.subEq = drv.subEq /\ n.eq = nv.eq
    BY <1>5, <2>1 DEF IsFlash
  <2> QED
    BY <1>6, <1>9, <2>1, <2>2 DEF SaveSubEq
<1>10. ASSUME k \in {"dual", "baXo", "baSwap", "baEq"},
              \E x : Persist([nv EXCEPT !.dual = x]) \/ Persist([nv EXCEPT !.baXo = x])
                     \/ Persist([nv EXCEPT !.baSwap = x]) \/ Persist([nv EXCEPT !.baEq = x])
       PROVE  AmpInv'
  <2>1. PICK x, n : /\ \/ n = [nv EXCEPT !.dual = x] \/ n = [nv EXCEPT !.baXo = x]
                       \/ n = [nv EXCEPT !.baSwap = x] \/ n = [nv EXCEPT !.baEq = x]
                    /\ Persist(n)
    BY <1>10
  <2>2. IsFlash(n) /\ n.off = nv.off /\ n.subXo = nv.subXo /\ n.subEq = nv.subEq /\ n.eq = nv.eq
    BY <1>5, <2>1 DEF IsFlash
  <2> QED
    BY <1>6, <1>10, <2>1, <2>2
<1>11. CASE k = "eq" /\ SaveEq(v)
  <2>1. PICK n : n = [nv EXCEPT !.eq = v]
    OBVIOUS
  <2>2. IsFlash(n) /\ n.off = nv.off /\ n.subXo = nv.subXo /\ n.subEq = nv.subEq /\ n.eq = v
    BY <1>5, <2>1 DEF IsFlash
  <2>3. \/ v = nv.eq /\ nv' = nv /\ lost' = lost
        \/ rt.at # "apply" /\ Persist(n)
        \/ nv' \in {nv, n} /\ lost' = TRUE
    BY <1>11, <2>1 DEF SaveEq
  <2>4. CASE v = nv.eq /\ nv' = nv /\ lost' = lost
    BY <1>1, <1>2, <1>5, <1>11, <2>4, SaveDone
  <2>5. CASE rt.at # "apply" /\ Persist(n)
    BY <1>6, <1>11, <2>2, <2>5
  <2>6. CASE nv' \in {nv, n} /\ lost' = TRUE
    BY <1>1, <1>2, <1>5, <2>2, <2>6, SaveDone
  <2> QED
    BY <2>3, <2>4, <2>5, <2>6
<1> QED
  BY <1>4, <1>7, <1>8, <1>9, <1>10, <1>11 DEF SaveDualMode, SaveBiampCrossover, SaveBiampSwap, SaveBiampEq

LEMMA AmpMoves == AmpInv /\ [AmpNext]_ampVars => AmpInv'
<1> SUFFICES ASSUME AmpInv, [AmpNext]_ampVars PROVE AmpInv'
  OBVIOUS
<1>1. CASE UNCHANGED ampVars
  BY <1>1 DEF AmpInv, AmpTypes, AsSaved, CurveSaved, CurveInForce, ampVars
<1>2. CASE AmpNext
  BY <1>2, AmpPauses, AmpDisconnects, AmpPlays, AmpReads, AmpApplies, AmpVolume, AmpAsked, AmpSets, AmpSaves,
     AmpCut DEF AmpNext
<1> QED
  BY <1>1, <1>2

(* Between requests, what a playing chip runs is what is saved.             *)
LEMMA ChainsSavedAtRest == AmpInv => ChainsAsSaved
<1> SUFFICES ASSUME AmpInv, Quiet, drv.active = "sub", NEW d \in Chips, chip[d].power = "play"
             PROVE  /\ chip[d].left = WantedChain(d) /\ chip[d].right = WantedChain(d)
                    /\ chip[d].vol = DbToReg(MapVolume(drv.vol) + (IF d = 2 THEN 10 * nv.off ELSE 0))
                    /\ d = 2 => chip[d].bridge /\ chip[d].mix = "mono"
  BY DEF ChainsAsSaved
<1>1. AsSaved /\ CurveSaved /\ CurveInForce /\ http = <<>> /\ rt = NoRestore
  BY DEF AmpInv, Quiet
<1>2. drv.off = nv.off /\ drv.subXo = nv.subXo /\ drv.subEq = nv.subEq
  BY <1>1, NoRequest DEF AsSaved
<1>3. drv.eq = IF nv.eq = -1 THEN 0 ELSE nv.eq
  BY <1>1, NoRequest DEF CurveInForce
<1>4. Runs(drv, chip[d], d)
  BY DEF AmpInv, ChipsRun
<1>5. Pbtl(drv, d) <=> d = 2
  BY AmplifierAssumption DEF Pbtl, Chips
<1>6. (\E e \in Chips : Pbtl(drv, e)) <=> Devs = 2
  BY AmplifierAssumption DEF Pbtl, Chips
<1>7. Chain(drv, d) = WantedChain(d)
  BY <1>2, <1>3, <1>5, <1>6, AmplifierAssumption
     DEF Chain, SubChain, SatChain, SatelliteActive, WantedChain, Way, Flat, Chips
<1> QED
  BY <1>2, <1>4, <1>5, <1>7 DEF Runs, VolReg

(* Either amplifier's chips hold what was asked of them: between requests, a *)
(* TAS58xx chip that plays runs what is saved; outside the driver's lock, a  *)
(* TAS57xx chip holds the mute, the volume and the source last set, and runs *)
(* its flow when the clocks are up.                                          *)
THEOREM DacsStayAsTold == AmpSpec /\ SqueezeSpec => []DacsAsTold
<1>1. AmpInv /\ SqueezeInv => DacsAsTold
  BY ChainsSavedAtRest, ChipsToldAtRest DEF DacsAsTold
<1> QED
  BY <1>1, AmpStarts, AmpMoves, SqueezeStarts, SqueezeMoves, PTL DEF AmpSpec, SqueezeSpec
-----------------------------------------------------------------------------
(* A difference of timestamps, in seconds, is a number. *)
LEMMA SecondsCount == \A a, b \in Int : Seconds(a, b) \in Nat
<1> SUFFICES ASSUME NEW a \in Int, NEW b \in Int PROVE Seconds(a, b) \in Nat
  OBVIOUS
<1>1. RtpMod \in Nat \ {0}
  BY DisplayAssumption
<1>2. PICK m \in Nat \ {0} : m = RtpMod * RtpMod
  BY <1>1
<1>3. PICK d \in Int : d = (a - b) % m
  BY <1>2
<1>4. PICK e \in Int : e = d \div 2
  OBVIOUS
<1>5. Seconds(a, b) = e % RtpMod
  BY <1>2, <1>3, <1>4 DEF Seconds
<1> QED
  BY <1>1, <1>5

(* Timestamps that have not wrapped in between count half their distance.   *)
LEMMA SecondsOnward ==
  ASSUME NEW a \in Nat, NEW b \in 0 .. a, a - b < RtpMod
  PROVE  Seconds(a, b) = (a - b) \div 2
<1>1. RtpMod \in Nat \ {0}
  BY DisplayAssumption
<1>2. PICK m \in Nat \ {0} : m = RtpMod * RtpMod
  BY <1>1
<1>3. RtpMod <= m
  BY <1>1, <1>2
<1>4. PICK d \in Nat : d = a - b
  OBVIOUS
<1>5. d % m = d
  <2>1. d = m * 0 + d /\ d \in 0 .. m - 1
    BY <1>1, <1>3, <1>4
  <2> QED
    BY <2>1, RemainderUnique
<1>6. PICK e \in Nat : e = d \div 2 /\ e <= d
  BY <1>4
<1>7. e % RtpMod = e
  <2>1. e = RtpMod * 0 + e /\ e \in 0 .. RtpMod - 1
    BY <1>1, <1>4, <1>6
  <2> QED
    BY <1>1, <2>1, RemainderUnique
<1> QED
  BY <1>2, <1>4, <1>5, <1>6, <1>7 DEF Seconds

(* A track whose timestamps wrap seems longer than it is by half a turn.    *)
LEMMA SecondsAround ==
  ASSUME NEW a \in Nat, NEW b \in Nat, NEW l \in 2 .. RtpMod - 1, a = b + l - RtpMod
  PROVE  Seconds(a, b) >= l \div 2
<1>1. PICK h \in Nat \ {0} : RtpMod = 2 * h
  BY DisplayAssumption
<1>2. PICK m \in Nat \ {0} : m = RtpMod * RtpMod
  BY <1>1
<1>3. PICK k \in Nat : k = h * (h - 1)
  BY <1>1
<1>4. m = 4 * k + 4 * h /\ RtpMod <= m
  BY <1>1, <1>2, <1>3
<1>5. PICK d \in Nat : d = m - RtpMod + l
  BY <1>1, <1>2, <1>4
<1>6. (a - b) % m = d
  <2>1. a - b = m * (-1) + d /\ d \in 0 .. m - 1
    BY <1>1, <1>2, <1>4, <1>5
  <2> QED
    BY <2>1, RemainderUnique
<1>7. PICK f \in Nat : f = l \div 2
  BY <1>1
<1>8. f \in 1 .. h - 1
  BY <1>1, <1>7
<1>9. d \div 2 = 2 * k + h + f
  BY <1>1, <1>4, <1>5, <1>7
<1>10. (2 * k + h + f) % RtpMod = h + f
  <2>1. PICK q \in Int : q = h - 1
    BY <1>1
  <2>2. PICK s, r \in Nat : s = 2 * k + h + f /\ r = h + f
    BY <1>1
  <2>3. RtpMod * q = 2 * k
    BY <1>1, <1>3, <2>1
  <2>4. s = RtpMod * q + r /\ r \in 0 .. RtpMod - 1 /\ RtpMod \in Nat \ {0}
    BY <1>1, <1>8, <2>2, <2>3
  <2>5. s % RtpMod = r
    BY <2>4, RemainderUnique
  <2> QED
    BY <2>2, <2>5
<1> QED
  BY <1>1, <1>2, <1>6, <1>7, <1>9, <1>10 DEF Seconds

(* Metadata tell no position and no length.                                 *)
LEMMA MetadataTell ==
  ASSUME NEW t, NEW b, NEW m, m = Metadata(t, b)
  PROVE  m.pos = 0 /\ m.dur = 0
<1>1. \A x, y, n : n = [NoData EXCEPT !.title = x, !.artist = y] => n.pos = 0 /\ n.dur = 0
  BY DEF NoData
<1>2. \A items : \E x, y : Dmap(items) = [NoData EXCEPT !.title = x, !.artist = y]
  BY Zenon DEF Dmap
<1>3. CASE b.kind = "plist"
  <2>1. PICK x, y : m = [NoData EXCEPT !.title = x, !.artist = y]
    BY Zenon, <1>3 DEF Metadata
  <2> QED
    BY Zenon, <1>1, <2>1
<1>4. CASE b.kind # "plist"
  <2>1. PICK items : m = Dmap(items)
    BY Zenon, <1>4 DEF Metadata
  <2>2. PICK x, y : m = [NoData EXCEPT !.title = x, !.artist = y]
    BY Zenon, <1>2, <2>1
  <2> QED
    BY Zenon, <1>1, <2>2
<1> QED
  BY <1>3, <1>4
-----------------------------------------------------------------------------
(* The phone and the display's copy, as records; the position, the length   *)
(* and the time of the last report are numbers.  A length the display was   *)
(* told is the track's, or longer when its timestamps wrap.                 *)
PhoneTyped(ph) ==
  /\ ph = [title |-> ph.title, at |-> ph.at, start |-> ph.start, playing |-> ph.playing]
  /\ ph.at \in 0 .. TrackLength /\ ph.start \in TrackStarts /\ ph.playing \in BOOLEAN
CopyTyped(d, n) ==
  /\ d = [title |-> d.title, artist |-> d.artist, pos |-> d.pos, dur |-> d.dur, state |-> d.state, sync |-> d.sync,
          dirty |-> d.dirty]
  /\ d.pos \in Nat /\ d.dur \in Nat /\ d.sync \in Nat /\ d.dirty \in BOOLEAN
  /\ d.dur = 0 \/ d.dur >= TrackLength \div 2
  /\ d.sync <= n
DisplayTypes ==
  /\ PhoneTyped(phone) /\ CopyTyped(np, now)
  /\ now \in Nat \ {0} /\ pauses \in Nat

(* While the display plays, so does the phone; the position last told, and  *)
(* the time since, bound the phone's.                                       *)
Follows(spot, playing, pos, dur, sync, state, n, pa, tr) ==
  /\ state = "playing" => playing
  /\ state = "paused" => ~playing
  /\ tr => state \in {"playing", "paused"}
  /\ tr /\ state = "playing" =>
       /\ sync > 0
       /\ spot <= 2 * pos + 1 + pa + (n - sync)
       /\ spot = TrackLength \/ 2 * pos + (n - sync) <= spot
  /\ tr /\ state = "paused" =>
       /\ spot <= 2 * pos + 1 + pa
       /\ 2 * pos <= spot \/ (spot = TrackLength /\ dur # TrackLength \div 2)
Positions == Follows(phone.at, phone.playing, np.pos, np.dur, np.sync, np.state, now, pauses, tracked)

(* A frame under way shows what the display was told, unless it was told    *)
(* something since, or draws again as it plays.                             *)
Frames ==
  /\ ScreenCatchesUp
  /\ frame # <<>> /\ ~np.dirty /\ np.state # "playing" => frame = <<Text(np)>>

DisplayInv == DisplayTypes /\ Positions /\ Frames

(* Records made of such values are typed.                                   *)
LEMMA PhoneMade ==
  ASSUME NEW t, NEW spot \in 0 .. TrackLength, NEW s \in TrackStarts, NEW pl \in BOOLEAN,
         NEW ph, ph = [title |-> t, at |-> spot, start |-> s, playing |-> pl]
  PROVE  PhoneTyped(ph)
BY DEF PhoneTyped

LEMMA CopyMade ==
  ASSUME NEW t, NEW a, NEW p \in Nat, NEW du \in Nat, du = 0 \/ du >= TrackLength \div 2, NEW st, NEW n \in Nat,
         NEW sy \in 0 .. n, NEW di \in BOOLEAN, NEW d,
         d = [title |-> t, artist |-> a, pos |-> p, dur |-> du, state |-> st, sync |-> sy, dirty |-> di]
  PROVE  CopyTyped(d, n)
<1>1. d.title = t /\ d.artist = a /\ d.pos = p /\ d.dur = du /\ d.state = st /\ d.sync = sy /\ d.dirty = di
  OBVIOUS
<1> QED
  BY <1>1 DEF CopyTyped

(* The estimate follows the phone, and a display that does not play shows   *)
(* the position last told.                                                  *)
LEMMA EstimateClose ==
  ASSUME DisplayTypes, Positions
  PROVE  Estimated \in Nat /\ PositionClose
<1>1. TrackLength \in Nat \ {0, 1}
  BY DisplayAssumption
<1>2. PICK spot, f \in Nat : spot = phone.at /\ f = TrackLength \div 2 /\ spot <= TrackLength
  BY <1>1 DEF DisplayTypes, PhoneTyped, CopyTyped
<1>3. f >= 1 /\ 2 * f <= TrackLength /\ TrackLength <= 2 * f + 1
  BY <1>1, <1>2
<1>4. PICK pos, dur, sync \in Nat : pos = np.pos /\ dur = np.dur /\ sync = np.sync
  BY DEF DisplayTypes, PhoneTyped, CopyTyped
<1>5. dur = 0 \/ dur >= f
  BY <1>2, <1>4 DEF DisplayTypes, PhoneTyped, CopyTyped
<1>6. CASE np.state = "playing" /\ np.sync > 0
  <2>1. PICK d, e \in Nat : d = now - sync /\ e = d \div 2
    BY <1>4 DEF DisplayTypes, PhoneTyped, CopyTyped
  <2>2. 2 * e <= d /\ d <= 2 * e + 1
    BY <2>1
  <2>3. Estimated = IF dur > 0 /\ pos + e > dur THEN dur ELSE pos + e
    BY <1>4, <1>6, <2>1 DEF Estimated
  <2>4. PICK g \in Nat : g = Estimated
    BY <1>4, <2>1, <2>3
  <2>5. pauses \in Nat /\ (tracked => spot <= 2 * pos + 1 + pauses + d /\ (spot = TrackLength \/ 2 * pos + d <= spot))
    BY <1>2, <1>4, <1>6, <2>1 DEF Positions, Follows, DisplayTypes, PhoneTyped, CopyTyped
  <2>6. (dur > 0 /\ pos + e > dur /\ g = dur) \/ (~(dur > 0 /\ pos + e > dur) /\ g = pos + e)
    BY <2>3, <2>4
  <2>7. PICK pa \in Nat : pa = pauses
    BY <2>5
  <2>8. ASSUME tracked
        PROVE  spot <= 2 * g + 2 + pa /\ (spot < TrackLength \/ dur = f => 2 * g <= spot)
    <3>1. spot <= 2 * pos + 1 + pa + d /\ (spot = TrackLength \/ 2 * pos + d <= spot)
      BY <2>5, <2>7, <2>8
    <3>2. CASE g = dur /\ dur > 0 /\ pos + e > dur
      <4>1. dur >= f
        BY <1>5, <3>2
      <4> QED
        BY <1>1, <1>2, <1>3, <2>2, <3>1, <3>2, <4>1
    <3>3. CASE g = pos + e /\ ~(dur > 0 /\ pos + e > dur)
      BY <1>1, <1>2, <1>3, <2>2, <3>1, <3>3
    <3> QED
      BY <2>6, <3>2, <3>3
  <2> QED
    BY <1>2, <1>4, <2>4, <2>7, <2>8 DEF PositionClose
<1>7. CASE ~(np.state = "playing" /\ np.sync > 0)
  <2>1. Estimated = pos
    BY <1>4, <1>7 DEF Estimated
  <2>2. tracked => np.state = "paused"
    BY <1>7 DEF Positions, Follows
  <2>3. /\ pauses \in Nat
        /\ tracked => spot <= 2 * pos + 1 + pauses /\ (2 * pos <= spot \/ (spot = TrackLength /\ dur # f))
    BY <1>2, <1>4, <2>2 DEF Positions, Follows, DisplayTypes, PhoneTyped, CopyTyped
  <2> QED
    BY <1>1, <1>2, <1>4, <2>1, <2>3 DEF PositionClose
<1> QED
  BY <1>6, <1>7

(* Whatever the display is told, it draws again.                            *)
LEMMA ToldIsDue == np'.dirty => Frames'
BY DEF Frames, ScreenCatchesUp, Repaints

(* What is merged is told: a position with a report or a new title.         *)
LEMMA MergedTells ==
  ASSUME DisplayTypes, NEW m, m.pos \in Nat, m.dur \in Nat, NEW d, d = Merged(m)
  PROVE  /\ d = [title |-> d.title, artist |-> d.artist, pos |-> d.pos, dur |-> d.dur, state |-> d.state,
                 sync |-> d.sync, dirty |-> d.dirty]
         /\ d.dirty = TRUE /\ d.state = np.state
         /\ d.dur = IF m.dur # 0 THEN m.dur ELSE np.dur
         /\ m.pos # 0 \/ (m.title # "" /\ m.title # np.title) => d.pos = m.pos /\ d.sync = now
         /\ ~(m.pos # 0 \/ (m.title # "" /\ m.title # np.title)) => d.pos = np.pos /\ d.sync = np.sync
<1> DEFINE told == m.pos # 0 \/ (m.title # "" /\ m.title # np.title)
           ti == IF m.title # "" THEN m.title ELSE np.title
           ar == IF m.artist # "" THEN m.artist ELSE np.artist
           du == IF m.dur # 0 THEN m.dur ELSE np.dur
           po == IF told THEN m.pos ELSE np.pos
           sy == IF told THEN now ELSE np.sync
<1>1. np = [title |-> np.title, artist |-> np.artist, pos |-> np.pos, dur |-> np.dur, state |-> np.state,
            sync |-> np.sync, dirty |-> np.dirty]
  BY DEF DisplayTypes, PhoneTyped, CopyTyped
<1>2. d = [np EXCEPT !.title = ti, !.artist = ar, !.dur = du, !.dirty = TRUE, !.pos = po, !.sync = sy]
  BY Zenon DEF Merged
<1> HIDE DEF ti, ar, du, po, sy
<1>3. d = [title |-> ti, artist |-> ar, pos |-> po, dur |-> du, state |-> np.state, sync |-> sy, dirty |-> TRUE]
  BY <1>1, <1>2
<1>4. d.dirty = TRUE /\ d.state = np.state /\ d.dur = du /\ d.pos = po /\ d.sync = sy /\ d.title = ti /\ d.artist = ar
  BY <1>3
<1>5. d = [title |-> d.title, artist |-> d.artist, pos |-> d.pos, dur |-> d.dur, state |-> d.state,
           sync |-> d.sync, dirty |-> d.dirty]
  BY <1>3, <1>4, Zenon
<1> QED
  BY <1>4, <1>5, Zenon DEF du, po, sy

LEMMA MergedTyped ==
  ASSUME DisplayTypes, NEW m, m.pos \in Nat, m.dur \in Nat, m.dur = 0 \/ m.dur >= TrackLength \div 2,
         NEW d, d = Merged(m)
  PROVE  CopyTyped(d, now)
<1>1. /\ d = [title |-> d.title, artist |-> d.artist, pos |-> d.pos, dur |-> d.dur, state |-> d.state,
              sync |-> d.sync, dirty |-> d.dirty]
      /\ d.dirty = TRUE
      /\ d.dur = m.dur \/ d.dur = np.dur
      /\ (d.pos = m.pos /\ d.sync = now) \/ (d.pos = np.pos /\ d.sync = np.sync)
  BY MergedTells
<1>2. PICK n \in Nat : n = now
  BY DEF DisplayTypes
<1>3. np.pos \in Nat /\ np.dur \in Nat /\ (np.dur = 0 \/ np.dur >= TrackLength \div 2) /\ np.sync \in 0 .. n
  BY <1>2 DEF DisplayTypes, CopyTyped
<1>4. d.pos \in Nat /\ d.sync \in 0 .. n
  BY <1>1, <1>2, <1>3
<1>5. d.dur \in Nat /\ (d.dur = 0 \/ d.dur >= TrackLength \div 2)
  BY <1>1, <1>3
<1>6. d.dirty \in BOOLEAN
  BY <1>1
<1>7. d.pos \in Nat /\ d.dur \in Nat /\ d.sync \in Nat /\ d.sync <= n
  BY <1>2, <1>4, <1>5
<1> QED
  BY <1>1, <1>2, <1>5, <1>6, <1>7 DEF CopyTyped

(* Every event, and every step of the drawing, keeps the invariant.         *)
LEMMA DisplayStarts == DisplayInit => DisplayInv
<1> SUFFICES ASSUME DisplayInit PROVE DisplayInv
  OBVIOUS
<1>1. PICK t \in Titles, s \in TrackStarts : phone = [title |-> t, at |-> 0, start |-> s, playing |-> FALSE]
  BY DEF DisplayInit
<1>2. np = [title |-> "", artist |-> "", pos |-> 0, dur |-> 0, state |-> "standby", sync |-> 0, dirty |-> TRUE]
  BY DEF DisplayInit, BlankDisplay
<1>3. now = 1 /\ tracked = FALSE /\ dropped = FALSE /\ pauses = 0
  BY DEF DisplayInit
<1>4. DisplayTypes
  <2>1. 0 \in 0 .. TrackLength /\ 0 \in 0 .. 1
    BY DisplayAssumption
  <2>2. PhoneTyped(phone)
    BY <1>1, <2>1, PhoneMade
  <2>3. CopyTyped(np, now)
    BY <1>2, <1>3, <2>1, CopyMade
  <2> QED
    BY <1>3, <2>2, <2>3 DEF DisplayTypes
<1> QED
  BY <1>2, <1>3, <1>4 DEF DisplayInv, Positions, Follows, Frames, ScreenCatchesUp, Repaints

LEMMA ClearedKeeps == DisplayInv /\ (OnConnected \/ OnDisconnected) => DisplayInv'
<1> SUFFICES ASSUME DisplayInv, OnConnected \/ OnDisconnected PROVE DisplayInv'
  OBVIOUS
<1>1. now' = now /\ tracked' = FALSE /\ pauses' = pauses /\ dropped' = dropped
  BY DEF OnConnected, OnDisconnected, Event
<1>2. PICK st \in {"connected", "standby"} : np' = [title |-> "", artist |-> "", pos |-> 0, dur |-> 0, state |-> st,
                                                 sync |-> 0, dirty |-> TRUE]
  BY DEF OnConnected, OnDisconnected, DisplayCleared, BlankDisplay
<1>3. PICK pl \in BOOLEAN :
        phone' = [title |-> phone.title, at |-> phone.at, start |-> phone.start, playing |-> pl]
  BY DEF OnConnected, OnDisconnected, DisplayInv, DisplayTypes, PhoneTyped, CopyTyped
<1>4. DisplayTypes'
  <2>1. phone.at \in 0 .. TrackLength /\ phone.start \in TrackStarts /\ now \in Nat /\ 0 \in 0 .. now
    BY DEF DisplayInv, DisplayTypes, PhoneTyped
  <2>2. PhoneTyped(phone')
    BY <1>3, <2>1, PhoneMade
  <2>3. CopyTyped(np', now)
    BY <1>2, <2>1, CopyMade
  <2> QED
    BY <1>1, <2>2, <2>3 DEF DisplayInv, DisplayTypes
<1> QED
  BY <1>1, <1>2, <1>4, ToldIsDue DEF DisplayInv, Positions, Follows

LEMMA PlayingKeeps == DisplayInv /\ OnPlaying => DisplayInv'
<1> SUFFICES ASSUME DisplayInv, OnPlaying PROVE DisplayInv'
  OBVIOUS
<1>1. now' = now /\ pauses' = pauses /\ dropped' = dropped /\ tracked' = (tracked /\ np.state # "playing")
  BY DEF OnPlaying, Event
<1>2. np' = [title |-> np.title, artist |-> np.artist, pos |-> np.pos, dur |-> np.dur, state |-> "playing",
             sync |-> now, dirty |-> TRUE]
  BY DEF OnPlaying, DisplayInv, DisplayTypes, PhoneTyped, CopyTyped
<1>3. phone' = [title |-> phone.title, at |-> phone.at, start |-> phone.start, playing |-> TRUE]
  BY DEF OnPlaying, DisplayInv, DisplayTypes, PhoneTyped, CopyTyped
<1>4. DisplayTypes'
  BY <1>1, <1>2, <1>3 DEF DisplayInv, DisplayTypes, PhoneTyped, CopyTyped
<1>5. tracked' => tracked /\ np.state = "paused"
  BY <1>1 DEF DisplayInv, Positions, Follows
<1>6. Positions'
  <2>1. PICK n, pa, po, spot \in Nat : n = now /\ pa = pauses /\ po = np.pos /\ spot = phone.at
    BY DEF DisplayInv, DisplayTypes, PhoneTyped, CopyTyped
  <2>2. tracked' => spot <= 2 * po + 1 + pa /\ (2 * po <= spot \/ spot = TrackLength)
    BY <1>5, <2>1 DEF DisplayInv, Positions, Follows
  <2>3. n > 0 /\ now' = n /\ np'.sync = n /\ np'.pos = po /\ np'.state = "playing" /\ phone'.at = spot
        /\ pauses' = pa /\ phone'.playing = TRUE
    BY <1>1, <1>2, <1>3, <2>1 DEF DisplayInv, DisplayTypes, PhoneTyped, CopyTyped
  <2> QED
    BY <2>1, <2>2, <2>3 DEF Positions, Follows
<1> QED
  BY <1>2, <1>4, <1>6, ToldIsDue DEF DisplayInv

LEMMA PausedKeeps == DisplayInv /\ OnPaused => DisplayInv'
<1> SUFFICES ASSUME DisplayInv, OnPaused PROVE DisplayInv'
  OBVIOUS
<1>1. now' = now /\ pauses' = pauses + 1 /\ dropped' = dropped /\ tracked' = tracked
  BY DEF OnPaused, Event
<1>2. np' = [title |-> np.title, artist |-> np.artist, pos |-> Estimated, dur |-> np.dur, state |-> "paused",
             sync |-> 0, dirty |-> TRUE]
  BY DEF OnPaused, DisplayInv, DisplayTypes, PhoneTyped, CopyTyped
<1>3. phone' = [title |-> phone.title, at |-> phone.at, start |-> phone.start, playing |-> FALSE]
  BY DEF OnPaused, DisplayInv, DisplayTypes, PhoneTyped, CopyTyped
<1>4. Estimated \in Nat /\ PositionClose
  BY EstimateClose DEF DisplayInv
<1>5. PICK e \in Nat : e = Estimated
  BY <1>4
<1>6. DisplayTypes'
  BY <1>1, <1>2, <1>3, <1>5 DEF DisplayInv, DisplayTypes, PhoneTyped, CopyTyped
<1>7. Positions'
  <2>1. PICK pa, spot \in Nat : pa = pauses /\ spot = phone.at /\ spot <= TrackLength
    BY DEF DisplayInv, DisplayTypes, PhoneTyped, CopyTyped
  <2>2. tracked => spot <= 2 * e + 2 + pa /\ (spot < TrackLength \/ np.dur = TrackLength \div 2 => 2 * e <= spot)
    BY <1>4, <1>5, <2>1 DEF PositionClose
  <2>3. /\ np'.pos = e /\ np'.dur = np.dur /\ np'.state = "paused" /\ phone'.at = spot
        /\ pauses' = pa + 1 /\ phone'.playing = FALSE
    BY <1>1, <1>2, <1>3, <1>5, <2>1
  <2>4. TrackLength \in Nat
    BY DisplayAssumption
  <2>5. tracked' => /\ spot <= 2 * e + 1 + (pa + 1)
                    /\ 2 * e <= spot \/ (spot = TrackLength /\ np.dur # TrackLength \div 2)
    BY <1>1, <2>1, <2>2, <2>4
  <2> QED
    BY <2>3, <2>5 DEF Positions, Follows
<1> QED
  BY <1>2, <1>6, <1>7, ToldIsDue DEF DisplayInv

(* A new title begins at zero, and so does the phone.                       *)
LEMMA TrackKeeps ==
  ASSUME DisplayInv, NEW t \in Titles, NEW s \in TrackStarts, NEW b, Track(t, s, b)
  PROVE  DisplayInv'
<1> DEFINE m == Metadata(t, b)
           changed == m.title # "" /\ m.title # np.title
<1>1. m.pos = 0 /\ m.dur = 0
  BY MetadataTell
<1>2. /\ now' = now /\ pauses' = 0 /\ dropped' = dropped /\ tracked' = changed
      /\ np.state \in {"playing", "paused"} /\ np' = Merged(m)
  BY DEF Track, Event
<1> HIDE DEF m
<1>3. phone' = [title |-> t, at |-> 0, start |-> s, playing |-> phone.playing]
  BY DEF Track, DisplayInv, DisplayTypes, PhoneTyped
<1>4. DisplayTypes
  BY DEF DisplayInv
<1>5. /\ np'.dirty = TRUE /\ np'.state = np.state
      /\ changed => np'.pos = 0 /\ np'.sync = now
  <2>1. m.pos \in Nat /\ m.dur \in Nat
    BY <1>1
  <2>2. PICK d : d = Merged(m)
    OBVIOUS
  <2>3. d.dirty = TRUE /\ d.state = np.state /\ (changed => d.pos = m.pos /\ d.sync = now)
    BY <1>4, <2>1, <2>2, MergedTells
  <2> QED
    BY <1>1, <1>2, <2>2, <2>3
<1>6. DisplayTypes'
  <2>1. 0 \in 0 .. TrackLength /\ phone.playing \in BOOLEAN
    BY <1>4, DisplayAssumption DEF DisplayTypes, PhoneTyped
  <2>2. PhoneTyped(phone')
    BY <1>3, <2>1, PhoneMade
  <2>3. m.pos \in Nat /\ m.dur \in Nat
    BY <1>1
  <2>4. PICK d : d = Merged(m)
    OBVIOUS
  <2>5. CopyTyped(d, now)
    BY <1>1, <1>4, <2>3, <2>4, MergedTyped
  <2> QED
    BY <1>2, <1>4, <2>2, <2>4, <2>5 DEF DisplayTypes
<1>7. Positions'
  <2>1. PICK n \in Nat \ {0} : n = now
    BY <1>4 DEF DisplayTypes
  <2>2. PICK pl, pos, dur, sync, st, tr :
          /\ pl = phone.playing /\ pos = np'.pos /\ dur = np'.dur /\ sync = np'.sync /\ st = np.state
          /\ tr = tracked'
    BY Zenon
  <2>3. tr => pos = 0 /\ sync = n
    BY <1>2, <1>5, <2>1, <2>2
  <2>4. st \in {"playing", "paused"} /\ (st = "playing" => pl) /\ (st = "paused" => ~pl)
    BY <1>2, <2>2 DEF DisplayInv, Positions, Follows
  <2>5. Follows(0, pl, pos, dur, sync, st, n, 0, tr)
    BY <2>3, <2>4 DEF Follows
  <2>6. phone'.playing = pl /\ phone'.at = 0 /\ np'.state = st /\ now' = n /\ pauses' = 0
    BY <1>2, <1>3, <1>5, <2>1, <2>2
  <2> QED
    BY <2>2, <2>5, <2>6 DEF Positions
<1> QED
  BY <1>5, <1>6, <1>7, ToldIsDue DEF DisplayInv

(* A report from a track whose timestamps do not wrap is right to a second; *)
(* one that reads as zero leaves the position, which the track's end is not.*)
LEMMA ReportKeeps == DisplayInv /\ Report => DisplayInv'
<1> SUFFICES ASSUME DisplayInv, Report PROVE DisplayInv'
  OBVIOUS
<1>1. DisplayTypes
  BY DEF DisplayInv
<1>2. PICK spot, s \in Nat : spot = phone.at /\ s = phone.start /\ spot <= TrackLength /\ s < RtpMod
  BY <1>1, DisplayAssumption DEF DisplayTypes, PhoneTyped
<1>3. RtpMod \in Nat \ {0} /\ TrackLength \in Nat \ {0, 1} /\ TrackLength < RtpMod
  BY DisplayAssumption
<1>4. PICK x, y \in Nat : x = (s + spot) % RtpMod /\ y = (s + TrackLength) % RtpMod
  BY <1>2, <1>3
<1>5. PICK p, l \in Nat : p = Seconds(x, s) /\ l = Seconds(y, s)
  <2>1. x \in Int /\ y \in Int /\ s \in Int
    BY <1>2, <1>4
  <2> QED
    BY <2>1, SecondsCount
<1> DEFINE wrapped == s + spot >= RtpMod \/ s + TrackLength >= RtpMod
<1>6. PICK m : m = Progress(s, x, y)
  OBVIOUS
<1>7. m.pos = p /\ m.dur = l /\ m.title = ""
  BY <1>5, <1>6 DEF Progress, NoData
<1>8. /\ Event /\ np.state \in {"playing", "paused"} /\ np' = Merged(m) /\ phone' = phone
      /\ m.pos = 0 => pauses' = pauses /\ tracked' = (tracked /\ ~wrapped)
      /\ m.pos # 0 => pauses' = 0 /\ tracked' = ~wrapped
  <2>1. m = Progress(phone.start, (phone.start + phone.at) % RtpMod, (phone.start + TrackLength) % RtpMod)
    BY <1>2, <1>4, <1>6
  <2> QED
    BY <1>2, <2>1, Zenon DEF Report
<1>9. now' = now
  BY <1>8 DEF Event
<1>10. l # 0 /\ l >= TrackLength \div 2 /\ (s + TrackLength < RtpMod => l = TrackLength \div 2)
  <2>1. CASE s + TrackLength < RtpMod
    <3>1. PICK e \in Nat : e = s + TrackLength /\ e < RtpMod
      BY <1>2, <1>3, <2>1
    <3>2. e = RtpMod * 0 + e /\ e \in 0 .. RtpMod - 1
      BY <1>3, <3>1
    <3>3. e % RtpMod = e
      BY <1>3, <3>1, <3>2, RemainderUnique
    <3>4. y = e /\ s \in 0 .. y /\ y - s < RtpMod /\ y - s = TrackLength
      BY <1>2, <1>3, <1>4, <3>1, <3>3
    <3>5. Seconds(y, s) = (y - s) \div 2
      BY <3>4, SecondsOnward
    <3> QED
      BY <1>3, <1>5, <3>4, <3>5
  <2>2. CASE s + TrackLength >= RtpMod
    <3>1. PICK e, r \in Nat : e = s + TrackLength /\ r = e - RtpMod /\ r < RtpMod
      BY <1>2, <1>3, <2>2
    <3>2. e = RtpMod * 1 + r /\ r \in 0 .. RtpMod - 1
      BY <1>3, <3>1
    <3>3. e % RtpMod = r
      BY <1>3, <3>1, <3>2, RemainderUnique
    <3>4. y = s + TrackLength - RtpMod /\ TrackLength \in 2 .. RtpMod - 1
      BY <1>3, <1>4, <3>1, <3>3
    <3>5. Seconds(y, s) >= TrackLength \div 2
      BY <3>4, SecondsAround
    <3> QED
      BY <1>3, <1>5, <2>2, <3>5
  <2> QED
    BY <1>2, <1>3, <2>1, <2>2
<1>11. ~wrapped => p = spot \div 2 /\ l = TrackLength \div 2
  <2> SUFFICES ASSUME ~wrapped PROVE p = spot \div 2 /\ l = TrackLength \div 2
    OBVIOUS
  <2>1. PICK e \in Nat : e = s + spot /\ e < RtpMod /\ s + TrackLength < RtpMod
    BY <1>2, <1>3
  <2>2. e = RtpMod * 0 + e /\ e \in 0 .. RtpMod - 1
    BY <1>3, <2>1
  <2>3. e % RtpMod = e
    BY <1>3, <2>1, <2>2, RemainderUnique
  <2>4. x = e /\ s \in 0 .. x /\ x - s < RtpMod /\ x - s = spot
    BY <1>2, <1>3, <1>4, <2>1, <2>3
  <2>5. Seconds(x, s) = (x - s) \div 2
    BY <2>4, SecondsOnward
  <2> QED
    BY <1>5, <1>10, <2>1, <2>4, <2>5
<1> HIDE DEF wrapped
<1>12. np'.dirty = TRUE /\ np'.state = np.state /\ np'.dur = l
       /\ (p # 0 => np'.pos = p /\ np'.sync = now)
       /\ (p = 0 => np'.pos = np.pos /\ np'.sync = np.sync)
  <2>1. PICK d : d = Merged(m)
    OBVIOUS
  <2>2. m.pos \in Nat /\ m.dur \in Nat
    BY <1>5, <1>7
  <2>3. /\ d.dirty = TRUE /\ d.state = np.state /\ d.dur = IF m.dur # 0 THEN m.dur ELSE np.dur
        /\ m.pos # 0 \/ (m.title # "" /\ m.title # np.title) => d.pos = m.pos /\ d.sync = now
        /\ ~(m.pos # 0 \/ (m.title # "" /\ m.title # np.title)) => d.pos = np.pos /\ d.sync = np.sync
    BY <1>1, <2>1, <2>2, MergedTells
  <2> QED
    BY <1>7, <1>8, <1>10, <2>1, <2>3
<1>13. DisplayTypes'
  <2>1. PICK d : d = Merged(m)
    OBVIOUS
  <2>2. CopyTyped(d, now)
    BY <1>1, <1>5, <1>7, <1>10, <2>1, MergedTyped
  <2>3. pauses' \in Nat
    BY <1>1, <1>8 DEF DisplayTypes
  <2> QED
    BY <1>1, <1>8, <1>9, <2>1, <2>2, <2>3 DEF DisplayTypes
<1>14. Positions'
  <2>1. PICK n, pos, sync, pa \in Nat : n = now /\ n > 0 /\ pos = np.pos /\ sync = np.sync /\ pa = pauses
    BY <1>1 DEF DisplayTypes, CopyTyped
  <2>2. PICK pl, st, tr : pl = phone.playing /\ st = np.state /\ tr = tracked'
    BY Zenon
  <2>3. st \in {"playing", "paused"} /\ (st = "playing" => pl) /\ (st = "paused" => ~pl)
    BY <1>8, <2>2 DEF DisplayInv, Positions, Follows
  <2>4. phone'.playing = pl /\ phone'.at = spot /\ np'.state = st /\ now' = n /\ np'.dur = l
    BY <1>2, <1>8, <1>9, <1>12, <2>1, <2>2
  <2>5. CASE p = 0
    <3>1. tr => tracked /\ p = spot \div 2
      BY <1>7, <1>8, <1>11, <2>2, <2>5
    <3>2. tr => spot # TrackLength
      BY <1>2, <1>3, <2>5, <3>1
    <3>3. Follows(spot, pl, pos, np.dur, sync, st, n, pa, tracked)
      BY <1>2, <2>1, <2>2 DEF DisplayInv, Positions
    <3>4. Follows(spot, pl, pos, l, sync, st, n, pa, tr)
      BY <2>3, <3>1, <3>2, <3>3 DEF Follows
    <3> QED
      BY <1>7, <1>8, <1>12, <2>1, <2>2, <2>4, <2>5, <3>4 DEF Positions
  <2>6. CASE p # 0
    <3>1. tr => p = spot \div 2
      BY <1>7, <1>8, <1>11, <2>2, <2>6
    <3>2. tr => spot <= 2 * p + 1 /\ 2 * p <= spot
      BY <1>2, <3>1
    <3>3. Follows(spot, pl, p, l, n, st, n, 0, tr)
      BY <2>1, <2>3, <3>2 DEF Follows
    <3> QED
      BY <1>7, <1>8, <1>12, <2>1, <2>2, <2>4, <2>6, <3>3 DEF Positions
  <2> QED
    BY <2>5, <2>6
<1> QED
  BY <1>12, <1>13, <1>14, ToldIsDue DEF DisplayInv

LEMMA SeekKeeps ==
  ASSUME DisplayInv, NEW p \in {0, TrackLength - 2}, Seek(p)
  PROVE  DisplayInv'
<1>1. now' = now /\ np' = np /\ tracked' = FALSE /\ pauses' = pauses /\ UNCHANGED <<frame, panel, dropped>>
  BY DEF Seek, Event
<1>2. phone' = [title |-> phone.title, at |-> p, start |-> phone.start, playing |-> phone.playing]
  BY DEF Seek, DisplayInv, DisplayTypes, PhoneTyped
<1>3. p \in 0 .. TrackLength
  BY DisplayAssumption
<1>4. PhoneTyped(phone')
  BY <1>2, <1>3, PhoneMade DEF DisplayInv, DisplayTypes, PhoneTyped
<1>5. phone'.playing = phone.playing
  BY <1>2
<1> QED
  BY <1>1, <1>4, <1>5 DEF DisplayInv, DisplayTypes, Positions, Follows, Frames, ScreenCatchesUp, Repaints

LEMMA TimeKeeps == DisplayInv /\ TimePasses => DisplayInv'
<1> SUFFICES ASSUME DisplayInv, TimePasses PROVE DisplayInv'
  OBVIOUS
<1>1. UNCHANGED <<np, frame, panel, dropped, tracked, pauses>> /\ now' = now + 1
  BY DEF TimePasses
<1>2. PICK n, spot, pos, sync, pa \in Nat :
        /\ n = now /\ n > 0 /\ spot = phone.at /\ spot <= TrackLength
        /\ pos = np.pos /\ sync = np.sync /\ sync <= n /\ pa = pauses
  BY DEF DisplayInv, DisplayTypes, PhoneTyped, CopyTyped
<1>3. PICK pl : pl = phone.playing
  OBVIOUS
<1>4. TrackLength \in Nat
  BY DisplayAssumption
<1>5. PICK nx \in Nat : nx = IF pl /\ spot < TrackLength THEN spot + 1 ELSE spot
  BY <1>2
<1>6. phone' = [title |-> phone.title, at |-> nx, start |-> phone.start, playing |-> phone.playing]
  BY <1>2, <1>3, <1>5 DEF TimePasses, DisplayInv, DisplayTypes, PhoneTyped
<1>7. nx \in 0 .. TrackLength /\ now' = n + 1
  BY <1>1, <1>2, <1>4, <1>5
<1>8. DisplayTypes'
  <2>1. PhoneTyped(phone')
    BY <1>6, <1>7, PhoneMade DEF DisplayInv, DisplayTypes, PhoneTyped
  <2>2. CopyTyped(np, n + 1)
    BY <1>2 DEF DisplayInv, DisplayTypes, CopyTyped
  <2>3. n + 1 \in Nat \ {0}
    BY <1>2
  <2> QED
    BY <1>1, <1>7, <2>1, <2>2, <2>3 DEF DisplayInv, DisplayTypes
<1>9. Positions'
  <2>1. Follows(spot, pl, pos, np.dur, sync, np.state, n, pa, tracked)
    BY <1>2, <1>3 DEF DisplayInv, Positions
  <2>2. Follows(nx, pl, pos, np.dur, sync, np.state, n + 1, pa, tracked)
    BY <1>2, <1>4, <1>5, <2>1 DEF Follows
  <2>3. phone'.at = nx /\ phone'.playing = pl
    BY <1>3, <1>6
  <2> QED
    BY <1>1, <1>2, <1>7, <2>2, <2>3 DEF Positions
<1> QED
  BY <1>1, <1>8, <1>9 DEF DisplayInv, Frames, ScreenCatchesUp, Repaints

LEMMA SnapshotKeeps == DisplayInv /\ Snapshot => DisplayInv'
<1> SUFFICES ASSUME DisplayInv, Snapshot PROVE DisplayInv'
  OBVIOUS
<1>1. frame' = <<Text(np)>> /\ UNCHANGED <<phone, now, panel, dropped, tracked, pauses>>
  BY DEF Snapshot
<1>2. np' = [title |-> np.title, artist |-> np.artist, pos |-> np.pos, dur |-> np.dur, state |-> np.state,
             sync |-> np.sync, dirty |-> FALSE]
  BY DEF Snapshot, DisplayInv, DisplayTypes, CopyTyped
<1>3. np'.title = np.title /\ np'.artist = np.artist /\ np'.pos = np.pos /\ np'.dur = np.dur /\ np'.state = np.state
      /\ np'.sync = np.sync
  BY <1>2
<1>4. CopyTyped(np', now)
  <2>1. np.pos \in Nat /\ np.dur \in Nat /\ (np.dur = 0 \/ np.dur >= TrackLength \div 2) /\ np.sync \in 0 .. now
        /\ now \in Nat /\ FALSE \in BOOLEAN
    BY DEF DisplayInv, DisplayTypes, CopyTyped
  <2> QED
    BY <1>2, <2>1, CopyMade
<1>5. DisplayTypes'
  BY <1>1, <1>4 DEF DisplayInv, DisplayTypes
<1>6. Positions'
  BY <1>1, <1>3 DEF DisplayInv, Positions
<1>7. Text(np)' = Text(np)
  BY <1>3 DEF Text
<1>8. Frames'
  BY <1>1, <1>7 DEF Frames, ScreenCatchesUp, Repaints
<1> QED
  BY <1>5, <1>6, <1>8 DEF DisplayInv

LEMMA SendKeeps == DisplayInv /\ (Send \/ SendDropped) => DisplayInv'
<1> SUFFICES ASSUME DisplayInv, Send \/ SendDropped PROVE DisplayInv'
  OBVIOUS
<1>1. UNCHANGED <<phone, np, now, tracked, pauses>> /\ frame # <<>> /\ frame' = <<>>
  BY DEF Send, SendDropped
<1>2. DisplayTypes' /\ Positions'
  BY <1>1 DEF DisplayInv, DisplayTypes, Positions
<1>3. Text(np)' = Text(np)
  BY <1>1 DEF Text
<1>4. dropped' \/ panel' = frame[1]
  BY DEF Send, SendDropped
<1>5. ~np.dirty /\ np.state # "playing" => frame[1] = Text(np)
  BY <1>1 DEF DisplayInv, Frames
<1>6. Frames'
  BY <1>1, <1>3, <1>4, <1>5 DEF Frames, ScreenCatchesUp, Repaints
<1> QED
  BY <1>2, <1>6 DEF DisplayInv

LEMMA DisplayMoves == DisplayInv /\ [DisplayNext]_displayVars => DisplayInv'
<1> SUFFICES ASSUME DisplayInv, [DisplayNext]_displayVars PROVE DisplayInv'
  OBVIOUS
<1>1. CASE UNCHANGED displayVars
  BY <1>1 DEF displayVars, DisplayInv, DisplayTypes, Positions, Frames, ScreenCatchesUp, Repaints
<1>2. CASE DisplayNext
  BY <1>2, ClearedKeeps, PlayingKeeps, PausedKeeps, TrackKeeps, ReportKeeps, SeekKeeps, TimeKeeps, SnapshotKeeps,
     SendKeeps DEF DisplayNext
<1> QED
  BY <1>1, <1>2

(* The panel shows what the display was told or will, unless its last frame *)
(* was dropped, and the position shown is the phone's to a second and half  *)
(* a second for every pause, however long the track, wherever its           *)
(* timestamps start and however many events and errors there are.           *)
THEOREM ScreenStaysTrue == DisplaySpec => []ScreenTrue
<1>1. DisplayInv => ScreenTrue
  BY EstimateClose DEF DisplayInv, Frames, ScreenTrue
<1> QED
  BY <1>1, DisplayStarts, DisplayMoves, PTL DEF DisplaySpec
=============================================================================
