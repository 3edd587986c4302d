-------------------------- MODULE RtspServer_proofs --------------------------
(***************************************************************************)
(* Proofs about RtspServer, for every number of connections, restarts and  *)
(* failed allocations.                                                     *)
(***************************************************************************)
EXTENDS RtspServer, TLAPS

(* What ties the slots to the tasks.  A connection that has no task yet is  *)
(* in no slot; a published connection is in its own slot and not freed yet; *)
(* and as long as the server was not restarted, the slot a task works on    *)
(* names that task, so the slot server_task fills has no task left.         *)
NewestUnplaced == server \in {"wait", "signal", "create"}

SlotInv ==
    /\ \A s \in Session : s > accepted => at[s] = "none"
    /\ NewestUnplaced => accepted \in Session /\ at[accepted] = "none"
    /\ \A i \in Slot : \A s \in Session :
         slots[i].task = s => at[s] # "none"
    /\ \A i \in Slot : \A s \in Session :
         slots[i].conn = s => slotOf[s] = i /\ at[s] \in Publishing
    /\ restarts = 0 =>
         /\ server \in {"signal", "create"} => slots[NextSlot].task = NoOne
         /\ \A s \in Session : HoldsSlot(s) => slots[slotOf[s]].task = s

(* What a write of a slot does to the fields the invariant is about. *)
Changed(i, t, k) ==
    /\ slots' \in [Slot -> ClientSlot]
    /\ \A j \in Slot :
         /\ slots'[j].task = IF j = i THEN t ELSE slots[j].task
         /\ slots'[j].conn = IF j = i THEN k ELSE slots[j].conn

LEMMA SlotWrites ==
  ASSUME slots \in [Slot -> ClientSlot], NEW i \in Slot, NEW o \in Owner
  PROVE  /\ SetSlot(i, [slots[i] EXCEPT !.stop = TRUE])
              => Changed(i, slots[i].task, slots[i].conn)
         /\ SetSlot(i, [slots[i] EXCEPT !.old = TRUE, !.stop = TRUE])
              => Changed(i, slots[i].task, slots[i].conn)
         /\ SetSlot(i, [slots[i] EXCEPT !.sock = o, !.stop = FALSE,
                                     !.old = FALSE, !.task = o])
              => Changed(i, o, slots[i].conn)
         /\ SetSlot(i, [slots[i] EXCEPT !.sock = NoOne, !.stop = FALSE,
                                     !.old = FALSE, !.task = NoOne])
              => Changed(i, NoOne, slots[i].conn)
         /\ SetSlot(i, [slots[i] EXCEPT !.conn = o])
              => Changed(i, slots[i].task, o)
         /\ SetSlot(i, [slots[i] EXCEPT !.conn = NoOne, !.sock = NoOne,
                                     !.task = NoOne])
              => Changed(i, NoOne, NoOne)
         /\ SetSlot(i, [slots[i] EXCEPT !.conn = NoOne])
              => Changed(i, slots[i].task, NoOne)
         /\ SetSlot(i, [slots[i] EXCEPT !.sock = NoOne])
              => Changed(i, slots[i].task, slots[i].conn)
         /\ SetSlot(i, [slots[i] EXCEPT !.sock = NoOne, !.task = NoOne])
              => Changed(i, NoOne, slots[i].conn)
         /\ SetSlot(i, [slots[i] EXCEPT !.stop = FALSE, !.old = FALSE])
              => Changed(i, slots[i].task, slots[i].conn)
<1>1. slots[i] \in ClientSlot /\ NoOne \in Owner
  BY DEF Owner
<1>2. ASSUME SetSlot(i, [slots[i] EXCEPT !.stop = TRUE])
      PROVE  Changed(i, slots[i].task, slots[i].conn)
  BY <1>1, <1>2 DEF SetSlot, Changed, ClientSlot
<1>3. ASSUME SetSlot(i, [slots[i] EXCEPT !.old = TRUE, !.stop = TRUE])
      PROVE  Changed(i, slots[i].task, slots[i].conn)
  BY <1>1, <1>3 DEF SetSlot, Changed, ClientSlot
<1>4. ASSUME SetSlot(i, [slots[i] EXCEPT !.sock = o, !.stop = FALSE,
                  !.old = FALSE, !.task = o])
      PROVE  Changed(i, o, slots[i].conn)
  BY <1>1, <1>4 DEF SetSlot, Changed, ClientSlot
<1>5. ASSUME SetSlot(i, [slots[i] EXCEPT !.sock = NoOne, !.stop = FALSE,
                  !.old = FALSE, !.task = NoOne])
      PROVE  Changed(i, NoOne, slots[i].conn)
  BY <1>1, <1>5 DEF SetSlot, Changed, ClientSlot
<1>6. ASSUME SetSlot(i, [slots[i] EXCEPT !.conn = o])
      PROVE  Changed(i, slots[i].task, o)
  BY <1>1, <1>6 DEF SetSlot, Changed, ClientSlot
<1>7. ASSUME SetSlot(i, [slots[i] EXCEPT !.conn = NoOne, !.sock = NoOne,
                  !.task = NoOne])
      PROVE  Changed(i, NoOne, NoOne)
  BY <1>1, <1>7 DEF SetSlot, Changed, ClientSlot
<1>8. ASSUME SetSlot(i, [slots[i] EXCEPT !.conn = NoOne])
      PROVE  Changed(i, slots[i].task, NoOne)
  BY <1>1, <1>8 DEF SetSlot, Changed, ClientSlot
<1>9. ASSUME SetSlot(i, [slots[i] EXCEPT !.sock = NoOne])
      PROVE  Changed(i, slots[i].task, slots[i].conn)
  BY <1>1, <1>9 DEF SetSlot, Changed, ClientSlot
<1>10. ASSUME SetSlot(i, [slots[i] EXCEPT !.sock = NoOne, !.task = NoOne])
      PROVE  Changed(i, NoOne, slots[i].conn)
  BY <1>1, <1>10 DEF SetSlot, Changed, ClientSlot
<1>11. ASSUME SetSlot(i, [slots[i] EXCEPT !.stop = FALSE, !.old = FALSE])
      PROVE  Changed(i, slots[i].task, slots[i].conn)
  BY <1>1, <1>11 DEF SetSlot, Changed, ClientSlot
<1> QED
  BY <1>2, <1>3, <1>4, <1>5, <1>6, <1>7, <1>8, <1>9, <1>10, <1>11

(* shutdown() marks sockets and nothing else. *)
LEMMA ShutdownType ==
  ASSUME NEW i \in Slot, cut \in [Session -> BOOLEAN], Shutdown(i)
  PROVE  cut' \in [Session -> BOOLEAN]
<1>1. \A s \in Session : (cut[s] \/ slots[i].sock = s) \in BOOLEAN
  OBVIOUS
<1> QED
  BY <1>1 DEF Shutdown

(* Telling every task to stop changes no task and no connection. *)
LEMMA AllStoppedEffect ==
  ASSUME slots \in [Slot -> ClientSlot],
         slots' = [i \in Slot |->
                     [slots[i] EXCEPT !.stop = @ \/ slots[i].task # NoOne]]
  PROVE  /\ slots' \in [Slot -> ClientSlot]
         /\ \A j \in Slot : /\ slots'[j].task = slots[j].task
                             /\ slots'[j].conn = slots[j].conn
<1>1. ASSUME NEW j \in Slot
      PROVE  /\ slots'[j] \in ClientSlot
             /\ slots'[j].task = slots[j].task
             /\ slots'[j].conn = slots[j].conn
  <2> DEFINE b == slots[j].stop \/ slots[j].task # NoOne
  <2>1. b \in BOOLEAN
    OBVIOUS
  <2>2. slots'[j] = [slots[j] EXCEPT !.stop = b]
    OBVIOUS
  <2> HIDE DEF b
  <2>3. slots[j] \in ClientSlot
    OBVIOUS
  <2> QED
    BY <2>1, <2>2, <2>3 DEF ClientSlot
<1> QED
  BY <1>1

(* The other slot is a slot, and neither the current one. *)
LEMMA NextSlotIsSlot ==
  current \in Slot => NextSlot \in Slot
  BY DEF Slot, NextSlot

LEMMA InitSlotInv == Init => TypeOK /\ SlotInv
  BY BoundsAssumption
  DEF Init, TypeOK, SlotInv, NewestUnplaced, Session, Slot, Owner, EmptySlot,
      ClientSlot, HoldsSlot, NextSlot, Publishing

LEMMA NextSlotInv ==
  TypeOK /\ SlotInv /\ [Next]_vars => TypeOK' /\ SlotInv'
<1> SUFFICES ASSUME TypeOK, SlotInv, [Next]_vars
             PROVE  TypeOK' /\ SlotInv'
  OBVIOUS
<1> USE BoundsAssumption, NextSlotIsSlot
    DEF Session, Slot, TypeOK, SlotInv, NewestUnplaced, NextSlot,
        HoldsSlot, Publishing, Goto, slotVars, serverVars, connVars, shared
<1>1. CASE Accept
  <2>1. CASE slots[NextSlot].task # NoOne
    <3>1. Changed(NextSlot, slots[NextSlot].task, slots[NextSlot].conn)
      BY <1>1, <2>1, SlotWrites DEF Accept
    <3>2. TypeOK'
      BY <1>1, <2>1, <3>1, ShutdownType DEF Accept, Changed, Owner
    <3>3. SlotInv'
      BY <1>1, <2>1, <3>1 DEF Accept, Shutdown, Changed
    <3> QED
      BY <3>2, <3>3
  <2>2. CASE slots[NextSlot].task = NoOne
    <3>1. TypeOK'
      BY <1>1, <2>2 DEF Accept
    <3>2. SlotInv'
      BY <1>1, <2>2 DEF Accept
    <3> QED
      BY <3>1, <3>2
  <2> QED
    BY <2>1, <2>2
<1>2. CASE WaitOver
  BY <1>2 DEF WaitOver, SlotFree, Owner
<1>3. CASE WaitTimeout
  BY <1>3 DEF WaitTimeout, Owner
<1>4. CASE SignalOld
  <2>1. CASE slots[current].task # NoOne
    <3>1. Changed(current, slots[current].task, slots[current].conn)
      BY <1>4, <2>1, SlotWrites DEF SignalOld
    <3>2. TypeOK'
      BY <1>4, <2>1, <3>1, ShutdownType DEF SignalOld, Changed, Owner
    <3>3. SlotInv'
      BY <1>4, <2>1, <3>1 DEF SignalOld, Shutdown, Changed
    <3> QED
      BY <3>2, <3>3
  <2>2. CASE slots[current].task = NoOne
    BY <1>4, <2>2 DEF SignalOld, Shutdown, ClientSlot, Owner
  <2> QED
    BY <2>1, <2>2
<1>5. CASE Create
  <2>0. accepted \in Owner
    BY <1>5 DEF Create, Owner
  <2>1. Changed(NextSlot, accepted, slots[NextSlot].conn)
    BY <1>5, <2>0, SlotWrites DEF Create
  <2>2. TypeOK'
    BY <1>5, <2>1 DEF Create, Changed, Owner
  <2>3. SlotInv'
    BY <1>5, <2>1 DEF Create, Changed
  <2> QED
    BY <2>2, <2>3
<1>6. CASE CreateFails
  <2>1. Changed(NextSlot, NoOne, slots[NextSlot].conn)
    BY <1>6, SlotWrites DEF CreateFails
  <2>2. TypeOK'
    BY <1>6, <2>1 DEF CreateFails, Changed, Owner
  <2>3. SlotInv'
    BY <1>6, <2>1 DEF CreateFails, Changed
  <2> QED
    BY <2>2, <2>3
<1>7. CASE ServerLeaves
  <2>1. /\ slots' \in [Slot -> ClientSlot]
        /\ \A j \in Slot : /\ slots'[j].task = slots[j].task
                            /\ slots'[j].conn = slots[j].conn
    BY <1>7, AllStoppedEffect DEF ServerLeaves
  <2>2. cut' \in [Session -> BOOLEAN]
    <3>1. \A s \in Session :
            (cut[s] \/ \E i \in Slot : /\ slots[i].task # NoOne
                                       /\ slots[i].sock = s) \in BOOLEAN
      OBVIOUS
    <3> QED
      BY <1>7, <3>1 DEF ServerLeaves
  <2>3. TypeOK'
    BY <1>7, <2>1, <2>2 DEF ServerLeaves
  <2>4. SlotInv'
    BY <1>7, <2>1 DEF ServerLeaves
  <2> QED
    BY <2>3, <2>4
<1>8. CASE ServerGone
  BY <1>8 DEF ServerGone, Owner
<1>9. CASE StopServer
  <2>1. TypeOK'
    BY <1>9 DEF StopServer
  <2>2. SlotInv'
    BY <1>9 DEF StopServer
  <2> QED
    BY <2>1, <2>2
<1>10. CASE StartServer
  <2>1. TypeOK'
    BY <1>10 DEF StartServer, EmptySlot, ClientSlot, Owner
  <2>2. SlotInv'
    BY <1>10 DEF StartServer, EmptySlot, ClientSlot, Owner
  <2> QED
    BY <2>1, <2>2
<1>11. ASSUME NEW s \in Session, Start(s)
      PROVE  TypeOK' /\ SlotInv'
  <2>0. s \in Owner /\ slotOf[s] \in Slot
    BY <1>11 DEF Start, Owner
  <2>1. Changed(slotOf[s], slots[slotOf[s]].task, s)
    <3>1. SetSlot(slotOf[s], [slots[slotOf[s]] EXCEPT !.conn = s])
      BY <1>11 DEF Start
    <3> QED
      BY <2>0, <3>1, SlotWrites
  <2>2. TypeOK'
    BY <1>11, <2>1 DEF Start, Changed, Owner
  <2>3. SlotInv'
    BY <1>11, <2>1 DEF Start, Changed
  <2> QED
    BY <2>2, <2>3
<1>12. ASSUME NEW s \in Session, SetupV1(s)
      PROVE  TypeOK' /\ SlotInv'
  BY <1>12 DEF SetupV1, DispatchDacp, Owner
<1>13. ASSUME NEW s \in Session, SetupV2(s)
      PROVE  TypeOK' /\ SlotInv'
  BY <1>13 DEF SetupV2, Owner
<1>14. ASSUME NEW s \in Session, Play(s)
      PROVE  TypeOK' /\ SlotInv'
  BY <1>14 DEF Play, DispatchDacp, Owner
<1>15. ASSUME NEW s \in Session, Pause(s)
      PROVE  TypeOK' /\ SlotInv'
  BY <1>15 DEF Pause, DispatchDacp, Owner
<1>16. ASSUME NEW s \in Session, Teardown(s)
      PROVE  TypeOK' /\ SlotInv'
  BY <1>16 DEF Teardown, DispatchDacp, Owner
<1>17. ASSUME NEW s \in Session, OtherRequest(s)
      PROVE  TypeOK' /\ SlotInv'
  BY <1>17 DEF OtherRequest, DispatchDacp, Owner
<1>18. ASSUME NEW s \in Session, Leave(s)
      PROVE  TypeOK' /\ SlotInv'
  <2>1. Changed(slotOf[s], slots[slotOf[s]].task, slots[slotOf[s]].conn)
    <3>1. slotOf[s] \in Slot /\ NoOne \in Owner
      BY DEF Owner
    <3>2. SetSlot(slotOf[s],
                  [slots[slotOf[s]] EXCEPT !.sock = NoOne])
      BY <1>18 DEF Leave
    <3> QED
      BY <3>1, <3>2, SlotWrites
  <2>2. TypeOK'
    BY <1>18, <2>1 DEF Leave, Changed, Owner
  <2>3. SlotInv'
    BY <1>18, <2>1 DEF Leave, Changed
  <2> QED
    BY <2>2, <2>3
<1>19. ASSUME NEW s \in Session, StopAudio(s)
      PROVE  TypeOK' /\ SlotInv'
  BY <1>19 DEF StopAudio, Owner
<1>20. ASSUME NEW s \in Session, Depart(s)
      PROVE  TypeOK' /\ SlotInv'
  <2>1. TypeOK'
    BY <1>20 DEF Depart
  <2>2. SlotInv'
    BY <1>20 DEF Depart
  <2> QED
    BY <2>1, <2>2
<1>21. ASSUME NEW s \in Session, GraceCut(s)
      PROVE  TypeOK' /\ SlotInv'
  BY <1>21 DEF GraceCut, AfterGrace, Owner
<1>22. ASSUME NEW s \in Session, Clear(s)
      PROVE  TypeOK' /\ SlotInv'
  BY <1>22 DEF Clear, Owner
<1>23. ASSUME NEW s \in Session, Ports(s)
      PROVE  TypeOK' /\ SlotInv'
  BY <1>23 DEF Ports, Owner
<1>24. ASSUME NEW s \in Session, PortsAll(s)
      PROVE  TypeOK' /\ SlotInv'
  BY <1>24 DEF PortsAll, Owner
<1>25. ASSUME NEW s \in Session, PortsOwn(s)
      PROVE  TypeOK' /\ SlotInv'
  <2>1. TypeOK'
    <3>1. evt' \in Owner
      BY <1>25 DEF PortsOwn, Owner
    <3> QED
      BY <1>25, <3>1 DEF PortsOwn
  <2>2. SlotInv'
    BY <1>25 DEF PortsOwn
  <2> QED
    BY <2>1, <2>2
<1>26. ASSUME NEW s \in Session, Unpublish(s)
      PROVE  TypeOK' /\ SlotInv'
  <2>1. Changed(slotOf[s], slots[slotOf[s]].task, NoOne)
    <3>1. slotOf[s] \in Slot /\ NoOne \in Owner
      BY DEF Owner
    <3>2. SetSlot(slotOf[s],
                  [slots[slotOf[s]] EXCEPT !.conn = NoOne])
      BY <1>26 DEF Unpublish
    <3> QED
      BY <3>1, <3>2, SlotWrites
  <2>2. TypeOK'
    BY <1>26, <2>1 DEF Unpublish, Changed, Owner
  <2>3. SlotInv'
    BY <1>26, <2>1 DEF Unpublish, Changed
  <2> QED
    BY <2>2, <2>3
<1>27. ASSUME NEW s \in Session, Free(s)
      PROVE  TypeOK' /\ SlotInv'
  BY <1>27 DEF Free, Owner
<1>28. ASSUME NEW s \in Session, Release(s)
      PROVE  TypeOK' /\ SlotInv'
  <2>1. Changed(slotOf[s], NoOne, slots[slotOf[s]].conn)
    <3>1. slotOf[s] \in Slot /\ NoOne \in Owner
      BY DEF Owner
    <3>2. SetSlot(slotOf[s],
                  [slots[slotOf[s]] EXCEPT !.sock = NoOne, !.task = NoOne])
      BY <1>28 DEF Release
    <3> QED
      BY <3>1, <3>2, SlotWrites
  <2>2. TypeOK'
    BY <1>28, <2>1 DEF Release, Changed, Owner
  <2>3. SlotInv'
    BY <1>28, <2>1 DEF Release, Changed
  <2> QED
    BY <2>2, <2>3
<1>29. ASSUME NEW s \in Session, Reset(s)
      PROVE  TypeOK' /\ SlotInv'
  <2>1. Changed(slotOf[s], slots[slotOf[s]].task, slots[slotOf[s]].conn)
    <3>1. slotOf[s] \in Slot /\ NoOne \in Owner
      BY DEF Owner
    <3>2. SetSlot(slotOf[s],
                  [slots[slotOf[s]] EXCEPT !.stop = FALSE, !.old = FALSE])
      BY <1>29 DEF Reset
    <3> QED
      BY <3>1, <3>2, SlotWrites
  <2>2. TypeOK'
    BY <1>29, <2>1 DEF Reset, Changed, Owner
  <2>3. SlotInv'
    BY <1>29, <2>1 DEF Reset, Changed
  <2> QED
    BY <2>2, <2>3
<1>30. ASSUME NEW s \in Session, StartFails(s)
      PROVE  TypeOK' /\ SlotInv'
  <2>1. Changed(slotOf[s], NoOne, NoOne)
    BY <1>30, SlotWrites DEF StartFails
  <2>2. TypeOK'
    BY <1>30, <2>1 DEF StartFails, Changed, Owner
  <2>3. SlotInv'
    <3>1. /\ at' = [at EXCEPT ![s] = "gone"] /\ at[s] = "start"
          /\ UNCHANGED <<accepted, server, restarts, current, slotOf>>
      BY <1>30 DEF StartFails
    <3>2. \A i \in Slot : \A r \in Session :
            slots'[i].conn = r => slotOf'[r] = i /\ at'[r] \in Publishing
      BY <2>1, <3>1 DEF Changed
    <3>3. restarts = 0 =>
            /\ server \in {"signal", "create"} => slots'[NextSlot].task = NoOne
            /\ \A r \in Session : HoldsSlot(r)' => slots'[slotOf[r]].task = r
      <4>1. ASSUME restarts = 0, server \in {"signal", "create"}
            PROVE  slots'[NextSlot].task = NoOne
        BY <2>1, <4>1 DEF Changed
      <4>2. ASSUME restarts = 0, NEW r \in Session, HoldsSlot(r)'
            PROVE  slots'[slotOf[r]].task = r
        <5>1. r # s /\ HoldsSlot(r) /\ HoldsSlot(s)
          BY <3>1, <4>2
        <5>2. slots[slotOf[r]].task = r /\ slots[slotOf[s]].task = s
          BY <4>2, <5>1
        <5>3. slotOf[r] # slotOf[s]
          BY <5>1, <5>2
        <5> QED
          BY <2>1, <5>2, <5>3 DEF Changed
      <4> QED
        BY <4>1, <4>2
    <3> QED
      BY <2>1, <3>1, <3>2, <3>3 DEF Changed
  <2> QED
    BY <2>2, <2>3
<1>31. ASSUME NEW s \in Session, PeerCloses(s)
      PROVE  TypeOK' /\ SlotInv'
  BY <1>31 DEF PeerCloses, Owner
<1>32. ASSUME NEW s \in Session, Receive(s)
      PROVE  TypeOK' /\ SlotInv'
  BY <1>32 DEF Receive, Owner
<1>33. ASSUME NEW s \in Session, PhoneGone(s)
      PROVE  TypeOK' /\ SlotInv'
  BY <1>33 DEF PhoneGone, AfterGrace, Owner
<1>34. CASE UNCHANGED vars
  BY <1>34 DEF vars
<1> QED
  BY <1>1, <1>2, <1>3, <1>4, <1>5, <1>6, <1>7, <1>8, <1>9, <1>10, <1>11,
     <1>12, <1>13, <1>14, <1>15, <1>16, <1>17, <1>18, <1>19, <1>20, <1>21,
     <1>22, <1>23, <1>24, <1>25, <1>26, <1>27, <1>28, <1>29, <1>30, <1>31,
     <1>32, <1>33, <1>34
  DEF Next, Server, Client, Outside, Handle, CleanUp

LEMMA SlotInvAlways == Spec => [](TypeOK /\ SlotInv)
  BY InitSlotInv, NextSlotInv, PTL DEF Spec

(* Every variable keeps its type, and a task's slot index is the index of   *)
(* the slot that names it.                                                  *)
THEOREM TypeCorrect == Spec => []TypeOK
  BY SlotInvAlways, PTL

(* Without a restart, no two client tasks ever work on the same slot: both  *)
(* would be the task it names.                                              *)
THEOREM SlotsAreExclusive == Spec => []OneTaskPerSlot
<1>1. TypeOK /\ SlotInv => OneTaskPerSlot
  BY DEF TypeOK, SlotInv, OneTaskPerSlot
<1> QED
  BY <1>1, SlotInvAlways, PTL

(* Whatever the stops, replacements and restarts, a connection that can be  *)
(* reached through a slot is not freed.                                     *)
THEOREM NoUseAfterFree == Spec => []PublishedConnLives
<1>1. TypeOK /\ SlotInv => PublishedConnLives
  BY DEF TypeOK, SlotInv, PublishedConnLives, ClientSlot, Owner
<1> QED
  BY <1>1, SlotInvAlways, PTL

-----------------------------------------------------------------------------
(* What a write of a slot does to the socket and the two flags.             *)
Flagged(i, k, b, o) ==
    \A j \in Slot :
       /\ slots'[j].sock = IF j = i THEN k ELSE slots[j].sock
       /\ slots'[j].stop = IF j = i THEN b ELSE slots[j].stop
       /\ slots'[j].old  = IF j = i THEN o ELSE slots[j].old

LEMMA FlagWrites ==
  ASSUME slots \in [Slot -> ClientSlot], NEW i \in Slot, NEW o \in Owner
  PROVE  /\ SetSlot(i, [slots[i] EXCEPT !.stop = TRUE])
              => Flagged(i, slots[i].sock, TRUE, slots[i].old)
         /\ SetSlot(i, [slots[i] EXCEPT !.old = TRUE, !.stop = TRUE])
              => Flagged(i, slots[i].sock, TRUE, TRUE)
         /\ SetSlot(i, [slots[i] EXCEPT !.sock = o, !.stop = FALSE, !.old = FALSE, !.task = o])
              => Flagged(i, o, FALSE, FALSE)
         /\ SetSlot(i, [slots[i] EXCEPT !.sock = NoOne, !.stop = FALSE, !.old = FALSE, !.task = NoOne])
              => Flagged(i, NoOne, FALSE, FALSE)
         /\ SetSlot(i, [slots[i] EXCEPT !.conn = o])
              => Flagged(i, slots[i].sock, slots[i].stop, slots[i].old)
         /\ SetSlot(i, [slots[i] EXCEPT !.conn = NoOne, !.sock = NoOne, !.task = NoOne])
              => Flagged(i, NoOne, slots[i].stop, slots[i].old)
         /\ SetSlot(i, [slots[i] EXCEPT !.conn = NoOne])
              => Flagged(i, slots[i].sock, slots[i].stop, slots[i].old)
         /\ SetSlot(i, [slots[i] EXCEPT !.sock = NoOne])
              => Flagged(i, NoOne, slots[i].stop, slots[i].old)
         /\ SetSlot(i, [slots[i] EXCEPT !.sock = NoOne, !.task = NoOne])
              => Flagged(i, NoOne, slots[i].stop, slots[i].old)
         /\ SetSlot(i, [slots[i] EXCEPT !.stop = FALSE, !.old = FALSE])
              => Flagged(i, slots[i].sock, FALSE, FALSE)
<1>1. slots[i] \in ClientSlot
  OBVIOUS
<1>2. ASSUME SetSlot(i, [slots[i] EXCEPT !.stop = TRUE])
      PROVE  Flagged(i, slots[i].sock, TRUE, slots[i].old)
  BY <1>1, <1>2 DEF SetSlot, Flagged, ClientSlot
<1>3. ASSUME SetSlot(i, [slots[i] EXCEPT !.old = TRUE, !.stop = TRUE])
      PROVE  Flagged(i, slots[i].sock, TRUE, TRUE)
  BY <1>1, <1>3 DEF SetSlot, Flagged, ClientSlot
<1>4. ASSUME SetSlot(i, [slots[i] EXCEPT !.sock = o, !.stop = FALSE, !.old = FALSE, !.task = o])
      PROVE  Flagged(i, o, FALSE, FALSE)
  BY <1>1, <1>4 DEF SetSlot, Flagged, ClientSlot
<1>5. ASSUME SetSlot(i, [slots[i] EXCEPT !.sock = NoOne, !.stop = FALSE, !.old = FALSE, !.task = NoOne])
      PROVE  Flagged(i, NoOne, FALSE, FALSE)
  BY <1>1, <1>5 DEF SetSlot, Flagged, ClientSlot
<1>6. ASSUME SetSlot(i, [slots[i] EXCEPT !.conn = o])
      PROVE  Flagged(i, slots[i].sock, slots[i].stop, slots[i].old)
  BY <1>1, <1>6 DEF SetSlot, Flagged, ClientSlot
<1>7. ASSUME SetSlot(i, [slots[i] EXCEPT !.conn = NoOne, !.sock = NoOne, !.task = NoOne])
      PROVE  Flagged(i, NoOne, slots[i].stop, slots[i].old)
  BY <1>1, <1>7 DEF SetSlot, Flagged, ClientSlot
<1>8. ASSUME SetSlot(i, [slots[i] EXCEPT !.conn = NoOne])
      PROVE  Flagged(i, slots[i].sock, slots[i].stop, slots[i].old)
  BY <1>1, <1>8 DEF SetSlot, Flagged, ClientSlot
<1>9. ASSUME SetSlot(i, [slots[i] EXCEPT !.sock = NoOne])
      PROVE  Flagged(i, NoOne, slots[i].stop, slots[i].old)
  BY <1>1, <1>9 DEF SetSlot, Flagged, ClientSlot
<1>10. ASSUME SetSlot(i, [slots[i] EXCEPT !.sock = NoOne, !.task = NoOne])
      PROVE  Flagged(i, NoOne, slots[i].stop, slots[i].old)
  BY <1>1, <1>10 DEF SetSlot, Flagged, ClientSlot
<1>11. ASSUME SetSlot(i, [slots[i] EXCEPT !.stop = FALSE, !.old = FALSE])
      PROVE  Flagged(i, slots[i].sock, FALSE, FALSE)
  BY <1>1, <1>11 DEF SetSlot, Flagged, ClientSlot
<1> QED
  BY <1>2, <1>3, <1>4, <1>5, <1>6, <1>7, <1>8, <1>9, <1>10, <1>11

-----------------------------------------------------------------------------
(* The client being served is the newest one.  Without a restart, a client  *)
(* that can still take a request has its own socket in its slot, so that    *)
(* server_task can shut it down; in any slot but the current one it has     *)
(* been shut down, and so has every client when the next one is created.    *)
(* The flags cannot carry this argument: Reset may clear a successor's.     *)
Served == {"start", "serve", "dispatch"}
Places == {"none", "start", "serve", "dispatch", "stopAudio", "depart", "grace", "clear", "ports",
           "portsAll", "portsOwn", "unpublish", "free", "release", "reset", "gone"}
LoneInv ==
    restarts = 0 =>
      /\ \A s \in Session : at[s] \in Served => slots[slotOf[s]].sock = s
      /\ \A s \in Session : at[s] \in Served /\ slotOf[s] # current => cut[s]
      /\ server = "create" => \A s \in Session : at[s] \in Served => cut[s]

(* A step that starts no client, reopens no socket and leaves the sockets   *)
(* of the served clients in their slots.                                    *)
LEMMA LoneFrame ==
  ASSUME TypeOK, LoneInv,
         UNCHANGED <<current, restarts>>,
         server' = "create" => server = "create",
         restarts = 0 =>
           \A s \in Session : at'[s] \in Served =>
             /\ at[s] \in Served /\ slotOf'[s] = slotOf[s]
             /\ slots'[slotOf[s]].sock = slots[slotOf[s]].sock
             /\ cut[s] => cut'[s]
  PROVE  LoneInv'
  BY DEF LoneInv

(* In an unrestarted server a slot has one socket, its client's own: a      *)
(* client that lets go of its slot takes nothing from another one.          *)
LEMMA OthersKeepSocket ==
  ASSUME TypeOK, SlotInv, restarts = 0,
         NEW s \in Session, HoldsSlot(s), NEW r \in Session, HoldsSlot(r), r # s
  PROVE  slotOf[r] # slotOf[s]
  BY DEF SlotInv

LEMMA NextLoneInv ==
  TypeOK /\ SlotInv /\ LoneInv /\ [Next]_vars => LoneInv'
<1> SUFFICES ASSUME TypeOK, SlotInv, LoneInv, [Next]_vars
             PROVE  LoneInv'
  OBVIOUS
<1> USE DEF slotVars, serverVars, connVars, shared, Goto
<1>0. /\ slots \in [Slot -> ClientSlot] /\ current \in Slot /\ NextSlot \in Slot
      /\ NextSlot # current
      /\ slotOf \in [Session -> Slot] /\ NoOne \in Owner /\ Session \subseteq Owner
      /\ cut \in [Session -> BOOLEAN] /\ at \in [Session -> Places]
  BY DEF TypeOK, NextSlot, Slot, Owner, Places
<1>1. CASE Accept
  <2>1. CASE slots[NextSlot].task # NoOne
    <3>1. Flagged(NextSlot, slots[NextSlot].sock, TRUE, slots[NextSlot].old)
      BY <1>0, <1>1, <2>1, FlagWrites DEF Accept
    <3> QED
      BY <1>0, <1>1, <2>1, <3>1, LoneFrame DEF Accept, Flagged, Shutdown
  <2>2. CASE slots[NextSlot].task = NoOne
    BY <1>1, <2>2, LoneFrame DEF Accept
  <2> QED
    BY <2>1, <2>2
<1>2. CASE WaitOver
  BY <1>2, LoneFrame DEF WaitOver
<1>3. CASE WaitTimeout
  BY <1>0, <1>3, LoneFrame DEF WaitTimeout, Served
<1>4. CASE SignalOld
  <2> SUFFICES ASSUME restarts = 0
               PROVE  LoneInv'
    BY <1>4 DEF SignalOld, LoneInv
  <2>1. \A s \in Session : at[s] \in Served => slots[slotOf[s]].task = s /\ s # NoOne
    BY BoundsAssumption DEF SlotInv, Served, HoldsSlot, Session
  <2>2. slots[NextSlot].task = NoOne
    BY <1>4 DEF SignalOld, SlotInv
  <2>3. \A s \in Session : at[s] \in Served => slotOf[s] = current
    BY <1>0, <2>1, <2>2 DEF Slot, NextSlot
  <2>4. \A i \in Slot : slots'[i].sock = slots[i].sock
    <3>1. CASE slots[current].task # NoOne
      <4>1. Flagged(current, slots[current].sock, TRUE, TRUE)
        BY <1>0, <1>4, <3>1, FlagWrites DEF SignalOld
      <4> QED
        BY <4>1 DEF Flagged
    <3>2. CASE slots[current].task = NoOne
      BY <1>4, <3>2 DEF SignalOld
    <3> QED
      BY <3>1, <3>2
  <2>5. \A s \in Session : at[s] \in Served => cut'[s]
    <3> SUFFICES ASSUME NEW s \in Session, at[s] \in Served
                 PROVE  cut'[s]
      OBVIOUS
    <3>1. slots[current].task # NoOne /\ slots[current].sock = s
      BY <2>1, <2>3 DEF LoneInv
    <3> QED
      BY <1>4, <3>1 DEF SignalOld, Shutdown
  <2> QED
    BY <1>0, <1>4, <2>4, <2>5 DEF SignalOld, LoneInv
<1>5. CASE Create
  <2> SUFFICES ASSUME restarts = 0
               PROVE  LoneInv'
    BY <1>5 DEF Create, LoneInv
  <2>0. accepted \in Session /\ accepted \in Owner /\ at[accepted] = "none"
    BY <1>0, <1>5 DEF Create, SlotInv, NewestUnplaced
  <2>1. Flagged(NextSlot, accepted, FALSE, FALSE)
    BY <1>0, <1>5, <2>0, FlagWrites DEF Create
  <2>2. \A s \in Session : at[s] \in Served => slotOf[s] # NextSlot /\ cut[s] /\ s # accepted
    BY <1>5, <2>0, BoundsAssumption DEF Create, SlotInv, LoneInv, Served, HoldsSlot, Session
  <2>3. /\ at' = [at EXCEPT ![accepted] = "start"]
        /\ slotOf' = [slotOf EXCEPT ![accepted] = NextSlot]
        /\ current' = NextSlot /\ cut' = cut /\ server' = "accept"
    BY <1>5 DEF Create
  <2> QED
    BY <1>0, <2>0, <2>1, <2>2, <2>3 DEF LoneInv, Flagged
<1>6. CASE CreateFails
  <2>1. Flagged(NextSlot, NoOne, FALSE, FALSE)
    BY <1>0, <1>6, FlagWrites DEF CreateFails
  <2>2. restarts = 0 => \A s \in Session : at[s] \in Served => slotOf[s] # NextSlot
    BY <1>6, BoundsAssumption DEF CreateFails, SlotInv, Served, HoldsSlot, Session
  <2> QED
    BY <1>0, <1>6, <2>1, <2>2, LoneFrame DEF CreateFails, Flagged, Served
<1>7. CASE ServerLeaves
  <2>1. \A i \in Slot : slots'[i].sock = slots[i].sock
    BY <1>0, <1>7 DEF ServerLeaves, ClientSlot
  <2> QED
    BY <1>0, <1>7, <2>1, LoneFrame DEF ServerLeaves
<1>8. CASE ServerGone
  BY <1>8, LoneFrame DEF ServerGone
<1>9. CASE StopServer
  BY <1>9, LoneFrame DEF StopServer
<1>10. CASE StartServer
  BY <1>10 DEF StartServer, LoneInv, TypeOK
<1>11. ASSUME NEW s \in Session, Start(s)
       PROVE  LoneInv'
  <2>1. Flagged(slotOf[s], slots[slotOf[s]].sock, slots[slotOf[s]].stop, slots[slotOf[s]].old)
    <3>1. SetSlot(slotOf[s], [slots[slotOf[s]] EXCEPT !.conn = s])
      BY <1>11 DEF Start
    <3> QED
      BY <1>0, <3>1, FlagWrites
  <2> QED
    BY <1>0, <1>11, <2>1, LoneFrame DEF Start, Flagged, Served
<1>12. ASSUME NEW s \in Session, Handle(s)
       PROVE  LoneInv'
  <2>1. UNCHANGED <<slotVars, serverVars, cut>> /\ at[s] = "dispatch" /\ at' = [at EXCEPT ![s] = "serve"]
    BY <1>12 DEF Handle, SetupV1, SetupV2, Play, Pause, Teardown, OtherRequest
  <2> QED
    BY <1>0, <2>1, LoneFrame DEF Served
<1>13. ASSUME NEW s \in Session, StopAudio(s) \/ Depart(s) \/ GraceCut(s) \/ Clear(s)
                                 \/ Ports(s) \/ PortsAll(s) \/ PortsOwn(s) \/ Free(s) \/ PhoneGone(s)
       PROVE  LoneInv'
  <2>1. /\ UNCHANGED <<slotVars, serverVars, cut>>
        /\ \E pc \in Places \ Served : at' = [at EXCEPT ![s] = pc]
    BY <1>13 DEF Places, StopAudio, Depart, GraceCut, AfterGrace, Clear, Ports, PortsAll, PortsOwn,
                 Free, PhoneGone, Served
  <2> QED
    BY <1>0, <2>1, LoneFrame DEF Served
<1>14. ASSUME NEW s \in Session, Leave(s)
       PROVE  LoneInv'
  <2>1. Flagged(slotOf[s], NoOne, slots[slotOf[s]].stop, slots[slotOf[s]].old)
    <3>1. SetSlot(slotOf[s], [slots[slotOf[s]] EXCEPT !.sock = NoOne])
      BY <1>14 DEF Leave
    <3> QED
      BY <1>0, <3>1, FlagWrites
  <2>2. at[s] = "serve" /\ at' = [at EXCEPT ![s] = "stopAudio"]
    BY <1>14 DEF Leave
  <2>3. restarts = 0 => \A r \in Session : at'[r] \in Served => at[r] \in Served /\ slotOf[r] # slotOf[s]
    BY <1>0, <2>2, OthersKeepSocket DEF Served, HoldsSlot
  <2> QED
    BY <1>0, <1>14, <2>1, <2>3, LoneFrame DEF Leave, Flagged
<1>15. ASSUME NEW s \in Session, Unpublish(s)
       PROVE  LoneInv'
  <2>1. Flagged(slotOf[s], slots[slotOf[s]].sock, slots[slotOf[s]].stop, slots[slotOf[s]].old)
    <3>1. SetSlot(slotOf[s], [slots[slotOf[s]] EXCEPT !.conn = NoOne])
      BY <1>15 DEF Unpublish
    <3> QED
      BY <1>0, <3>1, FlagWrites
  <2> QED
    BY <1>0, <1>15, <2>1, LoneFrame DEF Unpublish, Flagged, Served
<1>16. ASSUME NEW s \in Session, Release(s)
       PROVE  LoneInv'
  <2>1. Flagged(slotOf[s], NoOne, slots[slotOf[s]].stop, slots[slotOf[s]].old)
    <3>1. SetSlot(slotOf[s], [slots[slotOf[s]] EXCEPT !.sock = NoOne, !.task = NoOne])
      BY <1>16 DEF Release
    <3> QED
      BY <1>0, <3>1, FlagWrites
  <2>2. at[s] = "release" /\ at' = [at EXCEPT ![s] = "reset"]
    BY <1>16 DEF Release
  <2>3. restarts = 0 => \A r \in Session : at'[r] \in Served => at[r] \in Served /\ slotOf[r] # slotOf[s]
    BY <1>0, <2>2, OthersKeepSocket DEF Served, HoldsSlot
  <2> QED
    BY <1>0, <1>16, <2>1, <2>3, LoneFrame DEF Release, Flagged
<1>17. ASSUME NEW s \in Session, Reset(s)
       PROVE  LoneInv'
  <2>1. Flagged(slotOf[s], slots[slotOf[s]].sock, FALSE, FALSE)
    <3>1. SetSlot(slotOf[s], [slots[slotOf[s]] EXCEPT !.stop = FALSE, !.old = FALSE])
      BY <1>17 DEF Reset
    <3> QED
      BY <1>0, <3>1, FlagWrites
  <2> QED
    BY <1>0, <1>17, <2>1, LoneFrame DEF Reset, Flagged, Served
<1>18. ASSUME NEW s \in Session, StartFails(s)
       PROVE  LoneInv'
  <2>1. Flagged(slotOf[s], NoOne, slots[slotOf[s]].stop, slots[slotOf[s]].old)
    BY <1>0, <1>18, FlagWrites DEF StartFails
  <2>2. at[s] = "start" /\ at' = [at EXCEPT ![s] = "gone"]
    BY <1>18 DEF StartFails
  <2>3. restarts = 0 => \A r \in Session : at'[r] \in Served => at[r] \in Served /\ slotOf[r] # slotOf[s]
    BY <1>0, <2>2, OthersKeepSocket DEF Served, HoldsSlot
  <2> QED
    BY <1>0, <1>18, <2>1, <2>3, LoneFrame DEF StartFails, Flagged
<1>19. ASSUME NEW s \in Session, PeerCloses(s) \/ Receive(s)
       PROVE  LoneInv'
  BY <1>0, <1>19, LoneFrame DEF PeerCloses, Receive, Served
<1>20. CASE UNCHANGED vars
  BY <1>20, LoneFrame DEF vars
<1> QED
  BY <1>1, <1>2, <1>3, <1>4, <1>5, <1>6, <1>7, <1>8, <1>9, <1>10, <1>11, <1>12, <1>13,
     <1>14, <1>15, <1>16, <1>17, <1>18, <1>19, <1>20
  DEF Next, Server, Client, Outside, CleanUp

(* Without a restart, at most one client can still have a request accepted: *)
(* clients in the same slot are one client, and of two slots only the       *)
(* current one has a client whose socket is open.                           *)
THEOREM OneIsServed == Spec => []OneClientServed
<1>1. Init => LoneInv
  BY DEF Init, LoneInv, Served
<1>2. TypeOK /\ SlotInv /\ LoneInv => OneClientServed
  BY DEF TypeOK, SlotInv, LoneInv, Served, HoldsSlot, Serving, OneClientServed
<1> QED
  BY <1>1, <1>2, InitSlotInv, NextSlotInv, NextLoneInv, PTL DEF Spec

-----------------------------------------------------------------------------
(* What a session leaves behind.  Every trace a session can leave in what   *)
(* all clients share names a task that still has to remove it: the one that *)
(* will stop the stream, the one that will close the event port, some task  *)
(* that will tell the listeners, and some task that will clear the DACP     *)
(* session, unless a successor that will do it is about to be created.      *)
Streaming == {"serve", "dispatch", "stopAudio"}
Listening == Publishing \ {"unpublish"}
Telling   == {"serve", "dispatch", "stopAudio", "depart", "clear"}
WillClear(s) == at[s] \in Telling \cup {"start"} \/ (at[s] = "grace" /\ ~IsOld(s))

OldStopped == \A i \in Slot : slots[i].old => slots[i].stop
LeftInv ==
    /\ receiver # NoOne => at[receiver] \in Streaming
    /\ evt # NoOne => at[evt] \in Listening
    /\ shown = "playing" => \E s \in Session : at[s] \in Telling
    /\ failures = 0 /\ dacp # NoOne => server = "create" \/ \E s \in Session : WillClear(s)

(* is_old is never set without should_stop, nor left without it.            *)
LEMMA NextOldStopped ==
  TypeOK /\ OldStopped /\ [Next]_vars => OldStopped'
<1> SUFFICES ASSUME TypeOK, OldStopped, [Next]_vars
             PROVE  OldStopped'
  OBVIOUS
<1> USE DEF slotVars
<1>0. /\ slots \in [Slot -> ClientSlot] /\ current \in Slot /\ NextSlot \in Slot
      /\ slotOf \in [Session -> Slot] /\ NoOne \in Owner /\ Session \subseteq Owner
      /\ accepted \in Owner \/ accepted \notin Session
  BY DEF TypeOK, NextSlot, Slot, Owner
<1>1. ASSUME NEW i \in Slot, NEW k, NEW b \in BOOLEAN, NEW o \in BOOLEAN, Flagged(i, k, b, o),
             o => b
      PROVE  OldStopped'
  BY <1>1 DEF OldStopped, Flagged
<1>2. ASSUME UNCHANGED slots
      PROVE  OldStopped'
  BY <1>2 DEF OldStopped
<1>3. \A i \in Slot : slots[i].old \in BOOLEAN /\ slots[i].stop \in BOOLEAN
                      /\ (slots[i].old => slots[i].stop)
  BY <1>0 DEF OldStopped, ClientSlot
<1>4. ASSUME Accept \/ SignalOld
      PROVE  OldStopped'
  <2>1. \/ UNCHANGED slots
        \/ SetSlot(NextSlot, [slots[NextSlot] EXCEPT !.stop = TRUE])
        \/ SetSlot(current, [slots[current] EXCEPT !.old = TRUE, !.stop = TRUE])
    BY <1>4 DEF Accept, SignalOld
  <2>2. \/ UNCHANGED slots
        \/ Flagged(NextSlot, slots[NextSlot].sock, TRUE, slots[NextSlot].old)
        \/ Flagged(current, slots[current].sock, TRUE, TRUE)
    BY <1>0, <2>1, FlagWrites
  <2> QED
    BY <1>0, <1>1, <1>2, <1>3, <2>2
<1>5. ASSUME Create \/ CreateFails
      PROVE  OldStopped'
  <2>1. \E c \in {accepted, NoOne} :
          SetSlot(NextSlot, [slots[NextSlot] EXCEPT !.sock = c, !.stop = FALSE,
                                                    !.old = FALSE, !.task = c])
    BY <1>5 DEF Create, CreateFails
  <2> QED
    BY <1>0, <2>1 DEF SetSlot, OldStopped, ClientSlot
<1>6. CASE ServerLeaves
  BY <1>0, <1>6 DEF ServerLeaves, OldStopped, ClientSlot
<1>7. CASE StartServer
  BY <1>7 DEF StartServer, OldStopped, EmptySlot
<1>8. ASSUME NEW s \in Session,
             Start(s) \/ StartFails(s) \/ Leave(s) \/ Unpublish(s) \/ Release(s) \/ Reset(s)
      PROVE  OldStopped'
  <2> DEFINE i == slotOf[s]
  <2>0. i \in Slot
    BY <1>0
  <2> HIDE DEF i
  <2>1. \/ SetSlot(i, [slots[i] EXCEPT !.conn = s])
        \/ SetSlot(i, [slots[i] EXCEPT !.conn = NoOne, !.sock = NoOne, !.task = NoOne])
        \/ SetSlot(i, [slots[i] EXCEPT !.sock = NoOne])
        \/ SetSlot(i, [slots[i] EXCEPT !.conn = NoOne])
        \/ SetSlot(i, [slots[i] EXCEPT !.sock = NoOne, !.task = NoOne])
        \/ SetSlot(i, [slots[i] EXCEPT !.stop = FALSE, !.old = FALSE])
    BY <1>8 DEF Start, StartFails, Leave, Unpublish, Release, Reset, i
  <2>2. \/ Flagged(i, slots[i].sock, slots[i].stop, slots[i].old)
        \/ Flagged(i, NoOne, slots[i].stop, slots[i].old)
        \/ Flagged(i, slots[i].sock, FALSE, FALSE)
    BY <1>0, <2>0, <2>1, FlagWrites
  <2> QED
    BY <1>1, <1>3, <2>0, <2>2
<1>9. ASSUME NEW s \in Session,
             \/ Handle(s) \/ StopAudio(s) \/ Depart(s) \/ GraceCut(s) \/ Clear(s) \/ Ports(s)
             \/ PortsAll(s) \/ PortsOwn(s) \/ Free(s) \/ PeerCloses(s) \/ Receive(s) \/ PhoneGone(s)
      PROVE  OldStopped'
  BY <1>2, <1>9
  DEF Handle, SetupV1, SetupV2, Play, Pause, Teardown, OtherRequest, StopAudio, Depart, GraceCut,
      Clear, Ports, PortsAll, PortsOwn, Free, PeerCloses, Receive, PhoneGone
<1>10. CASE WaitOver \/ WaitTimeout \/ ServerGone \/ StopServer \/ UNCHANGED vars
  BY <1>2, <1>10 DEF WaitOver, WaitTimeout, ServerGone, StopServer, vars
<1> QED
  BY <1>4, <1>5, <1>6, <1>7, <1>8, <1>9, <1>10
  DEF Next, Server, Client, Outside, CleanUp

(* A step that shares nothing new and takes no task out of the places the   *)
(* invariant names.                                                         *)
LEMMA LeftFrame ==
  ASSUME TypeOK, LeftInv,
         UNCHANGED <<receiver, evt, dacp, shown>>,
         failures' = 0 => failures = 0,
         failures' = 0 /\ server = "create" =>
           server' = "create" \/ \E s \in Session : WillClear(s)',
         \A s \in Session :
           /\ at[s] \in Streaming => at'[s] \in Streaming
           /\ at[s] \in Listening => at'[s] \in Listening
           /\ at[s] \in Telling => at'[s] \in Telling
           /\ failures' = 0 /\ WillClear(s) => server' = "create" \/ WillClear(s)'
  PROVE  LeftInv'
<1>1. /\ receiver # NoOne => receiver \in Session
      /\ evt # NoOne => evt \in Session
  BY DEF TypeOK, Owner
<1> QED
  BY <1>1 DEF LeftInv

LEMMA NextLeftInv ==
  TypeOK /\ SlotInv /\ OldStopped /\ LeftInv /\ [Next]_vars => LeftInv'
<1> SUFFICES ASSUME TypeOK, SlotInv, OldStopped, LeftInv, [Next]_vars
             PROVE  LeftInv'
  OBVIOUS
<1> USE DEF slotVars, serverVars, connVars, shared, Goto
<1>0. /\ slots \in [Slot -> ClientSlot] /\ current \in Slot /\ NextSlot \in Slot
      /\ slotOf \in [Session -> Slot] /\ NoOne \in Owner /\ Session \subseteq Owner
      /\ at \in [Session -> Places] /\ failures \in Nat /\ NoOne \notin Session
      /\ receiver \in Owner /\ evt \in Owner /\ dacp \in Owner
  BY BoundsAssumption DEF TypeOK, NextSlot, Slot, Owner, Places, Session
<1> USE DEF Streaming, Listening, Publishing, Telling
(* Steps of server_task: no client moves; a client becomes old only when    *)
(* its successor is about to be created.                                    *)
<1>1. CASE Accept
  <2>1. CASE slots[NextSlot].task # NoOne
    <3>1. Flagged(NextSlot, slots[NextSlot].sock, TRUE, slots[NextSlot].old)
      BY <1>0, <1>1, <2>1, FlagWrites DEF Accept
    <3> QED
      BY <1>0, <1>1, <2>1, <3>1, LeftFrame DEF Accept, Flagged, WillClear, IsOld
  <2>2. CASE slots[NextSlot].task = NoOne
    BY <1>1, <2>2, LeftFrame DEF Accept, WillClear, IsOld
  <2> QED
    BY <2>1, <2>2
<1>2. CASE WaitOver \/ ServerGone \/ StopServer \/ UNCHANGED vars
  BY <1>2, LeftFrame DEF WaitOver, ServerGone, StopServer, vars, WillClear, IsOld
<1>3. CASE WaitTimeout
  <2>1. at[accepted] = "none" /\ accepted \in Session
    BY <1>3 DEF WaitTimeout, SlotInv, NewestUnplaced
  <2> QED
    BY <1>0, <1>3, <2>1, LeftFrame DEF WaitTimeout, WillClear, IsOld
<1>4. CASE SignalOld
  BY <1>4, LeftFrame DEF SignalOld
<1>5. CASE Create
  <2>0. accepted \in Session /\ at[accepted] = "none"
    BY <1>5 DEF Create, SlotInv, NewestUnplaced
  <2>1. at' = [at EXCEPT ![accepted] = "start"]
    BY <1>5 DEF Create
  <2>2. \E s \in Session : WillClear(s)'
    BY <1>0, <2>0, <2>1 DEF WillClear
  <2>3. Flagged(NextSlot, accepted, FALSE, FALSE)
    BY <1>0, <1>5, <2>0, FlagWrites DEF Create
  <2>4. \A s \in Session : WillClear(s) => WillClear(s)'
    BY <1>0, <1>5, <2>0, <2>1, <2>3 DEF Create, WillClear, IsOld, Flagged
  <2> QED
    BY <1>0, <1>5, <2>0, <2>1, <2>2, <2>4, LeftFrame DEF Create
<1>6. CASE CreateFails
  <2>0. accepted \in Session /\ at[accepted] = "none"
    BY <1>6 DEF CreateFails, SlotInv, NewestUnplaced
  <2> QED
    BY <1>0, <1>6, <2>0, LeftFrame DEF CreateFails
<1>7. CASE ServerLeaves
  <2>1. \A i \in Slot : slots'[i].old = slots[i].old
    BY <1>0, <1>7 DEF ServerLeaves, ClientSlot
  <2> QED
    BY <1>0, <1>7, <2>1, LeftFrame DEF ServerLeaves, WillClear, IsOld
<1>8. CASE StartServer
  BY <1>0, <1>8, LeftFrame DEF StartServer, WillClear, IsOld, EmptySlot
(* Steps of a client that change nothing that is shared.                    *)
<1>9. ASSUME NEW s \in Session, Start(s) \/ Leave(s) \/ Unpublish(s) \/ Release(s) \/ Reset(s)
      PROVE  LeftInv'
  <2> DEFINE i == slotOf[s]
  <2>0. i \in Slot
    BY <1>0
  <2> HIDE DEF i
  <2>1. \/ SetSlot(i, [slots[i] EXCEPT !.conn = s])
        \/ SetSlot(i, [slots[i] EXCEPT !.sock = NoOne])
        \/ SetSlot(i, [slots[i] EXCEPT !.conn = NoOne])
        \/ SetSlot(i, [slots[i] EXCEPT !.sock = NoOne, !.task = NoOne])
        \/ SetSlot(i, [slots[i] EXCEPT !.stop = FALSE, !.old = FALSE])
    BY <1>9 DEF Start, Leave, Unpublish, Release, Reset, i
  <2>2. \/ Flagged(i, slots[i].sock, slots[i].stop, slots[i].old)
        \/ Flagged(i, NoOne, slots[i].stop, slots[i].old)
        \/ Flagged(i, slots[i].sock, FALSE, FALSE)
    BY <1>0, <2>0, <2>1, FlagWrites
  <2>3. \A j \in Slot : slots'[j].old => slots[j].old
    BY <2>0, <2>2 DEF Flagged
  <2>4. \A r \in Session : r # s => at'[r] = at[r] /\ (WillClear(r) => WillClear(r)')
    BY <1>0, <1>9, <2>3 DEF Start, Leave, Unpublish, Release, Reset, WillClear, IsOld
  <2>5. /\ at[s] \in {"start", "serve", "unpublish", "release", "reset"}
        /\ at[s] = "start" => at'[s] = "serve"
        /\ at[s] = "serve" => at'[s] = "stopAudio"
    BY <1>0, <1>9 DEF Start, Leave, Unpublish, Release, Reset
  <2>6. UNCHANGED <<receiver, evt, dacp, shown, failures, server>>
    BY <1>9 DEF Start, Leave, Unpublish, Release, Reset
  <2> QED
    BY <2>4, <2>5, <2>6, LeftFrame DEF WillClear
<1>10. ASSUME NEW s \in Session, StartFails(s)
       PROVE  LeftInv'
  BY <1>0, <1>10, LeftFrame DEF StartFails
<1>11. ASSUME NEW s \in Session, PeerCloses(s) \/ Receive(s) \/ Ports(s) \/ Free(s)
       PROVE  LeftInv'
  BY <1>0, <1>11, LeftFrame DEF PeerCloses, Receive, Ports, Free, WillClear, IsOld
<1>12. ASSUME NEW s \in Session, GraceCut(s) \/ PhoneGone(s)
       PROVE  LeftInv'
  BY <1>0, <1>12, LeftFrame DEF GraceCut, PhoneGone, AfterGrace, WillClear, IsOld
(* Requests: whoever is answered serves on, and will clean up.              *)
<1>13. ASSUME NEW s \in Session, Handle(s)
       PROVE  LeftInv'
  <2>1. /\ at[s] = "dispatch" /\ at' = [at EXCEPT ![s] = "serve"]
        /\ receiver' \in {receiver, s, NoOne} /\ evt' \in {evt, s}
    BY <1>13 DEF Handle, SetupV1, SetupV2, Play, Pause, Teardown, OtherRequest
  <2>2. at'[s] = "serve" /\ WillClear(s)'
    BY <1>0, <2>1 DEF WillClear
  <2> QED
    BY <1>0, <2>1, <2>2 DEF LeftInv, Owner
(* The clean-up.                                                            *)
<1>14. ASSUME NEW s \in Session, StopAudio(s)
       PROVE  LeftInv'
  <2>1. \A r \in Session : WillClear(r) => WillClear(r)'
    BY <1>0, <1>14 DEF StopAudio, WillClear, IsOld
  <2> QED
    BY <1>0, <1>14, <2>1 DEF StopAudio, LeftInv, Owner
<1>15. ASSUME NEW s \in Session, Depart(s)
       PROVE  LeftInv'
  <2>1. slotOf[s] \in Slot /\ (~Stopped(s) => ~IsOld(s))
    BY <1>0 DEF OldStopped, Stopped, IsOld
  <2>2. \A r \in Session : WillClear(r) => WillClear(r)'
    BY <1>0, <1>15, <2>1 DEF Depart, WillClear, IsOld
  <2>3. \A r \in Session : at[r] \in Listening => at'[r] \in Listening
    BY <1>0, <1>15 DEF Depart
  <2>4. \A r \in Session : at[r] \in Streaming => at'[r] \in Streaming
    BY <1>0, <1>15 DEF Depart
  <2>5. shown' = "playing" => \E r \in Session : at'[r] \in Telling
    BY <1>0, <1>15 DEF Depart, LeftInv
  <2>6. UNCHANGED <<receiver, evt, dacp, failures, server>>
    BY <1>15 DEF Depart
  <2> QED
    BY <1>0, <2>2, <2>3, <2>4, <2>5, <2>6 DEF LeftInv, Owner
<1>16. ASSUME NEW s \in Session, Clear(s)
       PROVE  LeftInv'
  BY <1>0, <1>16 DEF Clear, LeftInv, Owner
<1>17. ASSUME NEW s \in Session, PortsAll(s) \/ PortsOwn(s)
       PROVE  LeftInv'
  <2>1. \A r \in Session :
          /\ WillClear(r) => WillClear(r)'
          /\ at[r] \in Telling => at'[r] \in Telling
          /\ at[r] \in Streaming => at'[r] \in Streaming
          /\ r # s => at'[r] = at[r]
    BY <1>0, <1>17 DEF PortsAll, PortsOwn, WillClear, IsOld
  <2>2. evt' = NoOne \/ (evt' = evt /\ evt # s)
    BY <1>17 DEF PortsAll, PortsOwn
  <2>3. UNCHANGED <<receiver, dacp, shown, failures, server>>
    BY <1>17 DEF PortsAll, PortsOwn
  <2>4. receiver' # NoOne => at'[receiver'] \in Streaming
    BY <1>0, <2>1, <2>3 DEF LeftInv, Owner
  <2>5. evt' # NoOne => at'[evt'] \in Listening
    BY <1>0, <2>1, <2>2 DEF LeftInv, Owner
  <2>6. shown' = "playing" => \E r \in Session : at'[r] \in Telling
    BY <2>1, <2>3 DEF LeftInv
  <2> QED
    BY <2>1, <2>3, <2>4, <2>5, <2>6 DEF LeftInv
<1> QED
  BY <1>1, <1>2, <1>3, <1>4, <1>5, <1>6, <1>7, <1>8, <1>9, <1>10, <1>11, <1>12, <1>13,
     <1>14, <1>15, <1>16, <1>17
  DEF Next, Server, Client, Outside, CleanUp

(* When every session is over, nothing of any is left, also across restarts *)
(* of the server: the tasks the traces need would not be over.              *)
THEOREM NothingLeftBehind == Spec => []RestIsClean
<1>1. Init => OldStopped /\ LeftInv
  BY DEF Init, OldStopped, EmptySlot, LeftInv
<1>2. TypeOK /\ SlotInv /\ LeftInv => RestIsClean
  <2> SUFFICES ASSUME TypeOK, SlotInv, LeftInv, \A s \in Session : Over(s)
               PROVE  /\ receiver = NoOne /\ evt = NoOne /\ shown # "playing"
                      /\ failures = 0 => dacp = NoOne
    BY DEF RestIsClean
  <2>1. \A s \in Session : at[s] \in {"none", "gone"}
    BY DEF SlotInv, Over
  <2>2. server # "create"
    BY <2>1, BoundsAssumption DEF SlotInv, NewestUnplaced, Over, Session
  <2> QED
    BY <2>1, <2>2 DEF LeftInv, TypeOK, Owner, Streaming, Listening, Publishing, Telling, WillClear
<1> QED
  BY <1>1, <1>2, InitSlotInv, NextSlotInv, NextOldStopped, NextLeftInv, PTL DEF Spec

-----------------------------------------------------------------------------
(* The event-port task listens on a socket that is open: a connection       *)
(* closes its own only in the step that stops the task on it.               *)
THEOREM EventSocketLives == Spec => []EventSocketOpen
<1>1. Init => EventSocketOpen
  BY DEF Init, EventSocketOpen
<1>2. TypeOK /\ EventSocketOpen /\ [Next]_vars => EventSocketOpen'
  <2> SUFFICES ASSUME TypeOK, EventSocketOpen, [Next]_vars
               PROVE  EventSocketOpen'
    OBVIOUS
  <2> USE DEF EventSocketOpen, slotVars, serverVars, connVars, shared
  <2>1. evSock \in [Session -> BOOLEAN] /\ evt \in Owner
    BY DEF TypeOK
  <2>2. ASSUME NEW s \in Session, SetupV2(s)
        PROVE  EventSocketOpen'
    BY <2>1, <2>2 DEF SetupV2
  <2>3. ASSUME NEW s \in Session, PortsAll(s)
        PROVE  EventSocketOpen'
    BY <2>3 DEF PortsAll
  <2>4. ASSUME NEW s \in Session, PortsOwn(s)
        PROVE  EventSocketOpen'
    BY <2>1, <2>4 DEF PortsOwn, Owner
  <2>5. ASSUME NEW s \in Session,
               \/ Start(s) \/ StartFails(s) \/ PeerCloses(s) \/ Receive(s) \/ Leave(s) \/ SetupV1(s)
               \/ Play(s) \/ Pause(s) \/ Teardown(s) \/ OtherRequest(s) \/ StopAudio(s) \/ Depart(s)
               \/ GraceCut(s) \/ PhoneGone(s) \/ Clear(s) \/ Ports(s) \/ Unpublish(s) \/ Free(s)
               \/ Release(s) \/ Reset(s)
        PROVE  EventSocketOpen'
    <3>1. UNCHANGED <<evSock, evt>>
      BY <2>5
      DEF Start, StartFails, PeerCloses, Receive, Leave, SetupV1, Play, Pause, Teardown, OtherRequest,
          StopAudio, Depart, GraceCut, PhoneGone, Clear, Ports, Unpublish, Free, Release, Reset
    <3> QED
      BY <3>1
  <2>6. ASSUME Server \/ StopServer \/ StartServer \/ UNCHANGED vars
        PROVE  EventSocketOpen'
    <3>1. UNCHANGED <<evSock, evt>>
      BY <2>6
      DEF Server, Accept, WaitOver, WaitTimeout, SignalOld, Create, CreateFails, ServerLeaves,
          ServerGone, StopServer, StartServer, vars
    <3> QED
      BY <3>1
  <2> QED
    BY <2>2, <2>3, <2>4, <2>5, <2>6 DEF Next, Client, Outside, Handle, CleanUp
<1> QED
  BY <1>1, <1>2, TypeCorrect, PTL DEF Spec
=============================================================================
