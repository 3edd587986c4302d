----------------------------- MODULE PtpClock -----------------------------
(* The PTP slave of main/network/ptp_clock.c: SYNC and FOLLOW_UP on two       *)
(* sockets, the filter of update_offset, the lock, and the resets other tasks *)
(* make while ptp_task handles a message.  Master id runs Ahead[id] before    *)
(* the local clock; a SYNC takes 0..Jitter, a FOLLOW_UP may be lost, late or  *)
(* doubled.  Times and offsets are scaled; a tick is the interval of SYNCs.   *)
EXTENDS Integers

CONSTANTS Jitter, Outlier, LockWithin,   \* network delay; OUTLIER_THRESHOLD_NS, LOCK_THRESHOLD_NS
          PosDiv, NegDiv, NegClamp,      \* SMOOTH_POS_STEADY_DIV, SMOOTH_NEG_DIV, SMOOTH_NEG_CLAMP_NS
          MinSamples, Stable, Startup, LockTimeout,   \* MIN_SAMPLES_FOR_LOCK and, in ticks, the three times
          SeqMod, Interval,              \* sequence numbers; a tick in units of the offset
          MaxResets, MaxSteps            \* bounds: resets and restarts; steps of a master's clock

ASSUME FilterAssumption == /\ Jitter \in Nat /\ Outlier \in Nat /\ NegClamp \in Nat /\ MinSamples \in Nat
                           /\ PosDiv \in Nat \ {0} /\ NegDiv \in Nat \ {0}

VARIABLES
    ptp,     \* the structure ptp
    pc,      \* ptp_task: waiting, or the sample it is about to file
    net,     \* the SYNC and the FOLLOW_UPs on their way, the last sequence number
    ahead,   \* the masters' clocks
    ghost    \* resets and steps so far; a reset met a sample in the making; a master stepped since the reset

ptpVars == <<ptp, pc, net, ahead, ghost>>

Masters == {1, 2}
Abs(x) == IF x < 0 THEN -x ELSE x
Least(x, y) == IF x < y THEN x ELSE y
None == -1
Idle == [at |-> "wait"]
\* ptp_clock_clear; a tick that never was is None
Cleared == [run |-> TRUE, expected |-> 0, locked |-> FALSE, cand |-> None, since |-> None, filtered |-> 0, samples |-> 0,
            prev |-> 0, tracked |-> FALSE, age |-> 0, awaiting |-> FALSE, sync |-> [seq |-> 0, d |-> 0]]
PtpInit == /\ ptp = Cleared /\ pc = Idle
           /\ net = [sync |-> {}, follow |-> {}, seq |-> 0]
           /\ ahead = [i \in Masters |-> 10 * i]
           /\ ghost = [resets |-> 0, steps |-> 0, torn |-> FALSE, stepped |-> FALSE]

-----------------------------------------------------------------------------
(* update_offset.                                                            *)

Smoothed(p, x) ==
    LET jitter == x - p.prev
        down == Least(-jitter, NegClamp)
    IN IF ~p.tracked THEN x
       ELSE IF jitter >= 0 THEN p.prev + (IF p.age < Startup THEN jitter ELSE jitter \div PosDiv)
       ELSE p.prev - (down \div NegDiv)
\* the lock: enough samples that stay close for a while
Locked(p, x) ==
    LET near == Abs(x - p.filtered) < LockWithin
        cand == IF p.cand = None THEN 0 ELSE p.cand
    IN IF p.samples < MinSamples THEN p
       ELSE IF near /\ ~p.locked THEN (IF cand >= Stable THEN [p EXCEPT !.locked = TRUE, !.cand = None] ELSE [p EXCEPT !.cand = cand])
       ELSE IF near THEN p
       ELSE [p EXCEPT !.cand = None, !.locked = @ /\ Abs(x - p.filtered) <= 4 * LockWithin]
\* Mutant: the first sample is compared with an offset that was never measured.
UpdateStrict(p, x) ==
    LET q == [p EXCEPT !.since = 0, !.samples = Least(@ + 1, MinSamples)]
        s == Smoothed(q, x)
    IN IF Abs(x - q.filtered) > Outlier THEN q
       ELSE Locked([q EXCEPT !.prev = s, !.filtered = s, !.tracked = TRUE], x)
Update(p, x) ==
    LET q == [p EXCEPT !.since = 0, !.samples = Least(@ + 1, MinSamples)]
        s == Smoothed(q, x)
        age == IF q.tracked THEN q.age ELSE 0
    IN IF q.tracked /\ Abs(x - q.filtered) > Outlier THEN q
       ELSE Locked([q EXCEPT !.prev = s, !.filtered = s, !.tracked = TRUE, !.age = age], x)

-----------------------------------------------------------------------------
(* ptp_task.  The event socket is read before the general one.               *)

\* process_ptp_message: only the master that is expected, or any
Heard(id) == ptp.expected \in {0, id}
\* process_sync; a one-step SYNC carries its own time stamp
Sync(m, d, oneStep) ==
    /\ pc = Idle /\ ptp.run /\ m \in net.sync
    /\ net' = [net EXCEPT !.sync = {}]
    /\ IF ~Heard(m.id) THEN UNCHANGED <<ptp, pc>>
       ELSE /\ ptp' = [ptp EXCEPT !.sync = [seq |-> m.seq, d |-> d], !.awaiting = ~oneStep]
            /\ pc' = IF oneStep THEN [at |-> "update", x |-> ahead[m.id] - d] ELSE pc
    /\ UNCHANGED <<ahead, ghost>>
\* process_followup: for the SYNC with its number; otherwise the time stamp is
\* that many intervals off
Behind(f) == ((ptp.sync.seq - f.seq + SeqMod) % SeqMod) * Interval
\* Mutant: the sequence numbers are not compared.
FollowUpAny(f, again) ==
    /\ pc = Idle /\ ptp.run /\ f \in net.follow
    /\ net' = IF again THEN net ELSE [net EXCEPT !.follow = @ \ {f}]
    /\ IF Heard(f.id) /\ ptp.awaiting
       THEN /\ pc' = [at |-> "update", x |-> ahead[f.id] - ptp.sync.d - Behind(f)]
            /\ ptp' = [ptp EXCEPT !.awaiting = FALSE]
       ELSE UNCHANGED <<ptp, pc>>
    /\ UNCHANGED <<ahead, ghost>>
FollowUp(f, again) ==
    /\ pc = Idle /\ ptp.run /\ f \in net.follow
    /\ net' = IF again THEN net ELSE [net EXCEPT !.follow = @ \ {f}]
    /\ IF Heard(f.id) /\ ptp.awaiting /\ f.seq = ptp.sync.seq
       THEN /\ pc' = [at |-> "update", x |-> ahead[f.id] - ptp.sync.d]
            /\ ptp' = [ptp EXCEPT !.awaiting = FALSE]
       ELSE UNCHANGED <<ptp, pc>>
    /\ UNCHANGED <<ahead, ghost>>
File == /\ pc.at = "update" /\ pc' = Idle /\ ptp' = Update(ptp, pc.x)
        /\ UNCHANGED <<net, ahead, ghost>>

(* The other tasks.                                                          *)

Anew == ghost' = [ghost EXCEPT !.resets = @ + 1, !.torn = pc # Idle, !.stepped = FALSE]
\* ptp_clock_set_master_clock_id
\* Mutant: the samples of the other master are kept.
SetMasterKeeping(id) ==
    /\ ghost.resets < MaxResets /\ ptp.expected # id /\ Anew
    /\ ptp' = [ptp EXCEPT !.expected = id, !.locked = FALSE, !.cand = None, !.awaiting = FALSE]
    /\ UNCHANGED <<pc, net, ahead>>
SetMaster(id) ==
    /\ ghost.resets < MaxResets /\ ptp.expected # id /\ Anew
    /\ ptp' = [ptp EXCEPT !.expected = id, !.locked = FALSE, !.cand = None, !.filtered = 0, !.samples = 0, !.prev = 0,
                          !.tracked = FALSE, !.awaiting = FALSE]
    /\ UNCHANGED <<pc, net, ahead>>
\* ptp_clock_clear
Clear == /\ ghost.resets < MaxResets /\ Anew /\ ptp' = [Cleared EXCEPT !.run = ptp.run] /\ UNCHANGED <<pc, net, ahead>>
\* ptp_clock_stop waits for the task; ptp_clock_init starts afresh
Stop == /\ ptp.run /\ pc = Idle /\ ghost.resets < MaxResets /\ ghost' = [ghost EXCEPT !.resets = @ + 1]
        /\ ptp' = [ptp EXCEPT !.run = FALSE] /\ UNCHANGED <<pc, net, ahead>>
Start == /\ ~ptp.run /\ ptp' = Cleared /\ ghost' = [ghost EXCEPT !.torn = FALSE, !.stepped = FALSE]
         /\ UNCHANGED <<pc, net, ahead>>
\* ptp_clock_notify_resume after a long pause
Resume == /\ pc = Idle /\ ghost.resets < MaxResets /\ ghost' = [ghost EXCEPT !.resets = @ + 1]
          /\ ptp' = [ptp EXCEPT !.tracked = FALSE, !.age = 0] /\ UNCHANGED <<pc, net, ahead>>
\* ptp_clock_is_locked: without a sample for a while the lock is gone
AskLocked == /\ ptp.locked /\ ptp.since > LockTimeout
             /\ ptp' = [ptp EXCEPT !.locked = FALSE, !.cand = None] /\ UNCHANGED <<pc, net, ahead, ghost>>

(* The masters and the network.                                              *)

Older(t, bound) == IF t = None THEN None ELSE Least(t + 1, bound)
\* a tick passes and one master sends; what is older than a tick is lost
Tick(id) ==
    /\ pc = Idle
    /\ LET s == (net.seq + 1) % SeqMod
       IN net' = [sync |-> {[id |-> id, seq |-> s]}, seq |-> s,
                  follow |-> {f \in net.follow : f.seq = net.seq} \cup {[id |-> id, seq |-> s]}]
    /\ ptp' = [ptp EXCEPT !.since = Older(@, LockTimeout + 1), !.cand = Older(@, Stable), !.age = IF ptp.tracked THEN Least(@ + 1, Startup) ELSE @]
    /\ UNCHANGED <<pc, ahead, ghost>>
MasterSteps(id) == /\ ghost.steps < MaxSteps /\ pc = Idle /\ ptp.expected = id
                   /\ ahead' = [ahead EXCEPT ![id] = @ + 2 * Outlier]
                   /\ ghost' = [ghost EXCEPT !.steps = @ + 1, !.stepped = TRUE] /\ UNCHANGED <<ptp, pc, net>>

PtpNext == \/ \E m \in net.sync, d \in 0..Jitter, o \in BOOLEAN : Sync(m, d, o)
           \/ \E f \in net.follow, a \in BOOLEAN : FollowUp(f, a)
           \/ File \/ Clear \/ Stop \/ Start \/ Resume \/ AskLocked
           \/ \E i \in Masters : SetMaster(i) \/ Tick(i) \/ MasterSteps(i)
\* the expected master's messages get through again and again
PtpFairness == /\ WF_ptpVars(File) /\ WF_ptpVars(Start) /\ WF_ptpVars(AskLocked)
               /\ SF_ptpVars(Tick(ptp.expected))
               /\ SF_ptpVars(\E m \in net.sync, d \in 0..Jitter : m.id = ptp.expected /\ Sync(m, d, TRUE))
PtpSpec == PtpInit /\ [][PtpNext]_ptpVars /\ PtpFairness

-----------------------------------------------------------------------------
(* Properties.                                                               *)

Near(x, id) == ahead[id] - Jitter <= x /\ x <= ahead[id]
Steady == ptp.expected # 0 /\ ~ghost.torn /\ ~ghost.stepped
\* Lost, late and doubled messages and another master's never move the offset
\* outside what the delays of the expected master explain.
OffsetSound == Steady /\ ptp.samples > 0 => Near(ptp.filtered, ptp.expected)
\* A steady master is locked again after every reset.
Relocks == []<>(ptp.locked \/ ~Steady)
\* ptp_clock.h: locked is "true if synchronized with acceptable accuracy"; a
\* clock that stays locked comes back within the thresholds.
LockedIsAccurate == []<>(ptp.locked /\ ptp.expected # 0 => Abs(ptp.filtered - ahead[ptp.expected]) <= Jitter + LockWithin)
=============================================================================
