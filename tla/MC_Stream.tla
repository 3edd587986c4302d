------------------------------ MODULE MC_Stream ------------------------------
(* The stream of a session for TLC: its pairing, its clock, its packets, its *)
(* tasks, its playout and its way back to the phone, with their liveness.    *)
(* A behaviour is one of one part; the other parts stay where they are.  The *)
(* pairing, the clock and the resend window are extended, not instantiated:  *)
(* their properties are the proved ones.                                     *)
EXTENDS Pairing, PtpClock, Resend, Integers, Sequences

VARIABLES part,
          t, lead, ring, sender, out, faults,
          fd, rt, bf, stream, todo, calls,
          sess, valid, queue, worker, ops, dropped, refused

P == INSTANCE Playout WITH Wide <- 3, Strict <- 1, Target <- 2, Depth <- 5, Leads <- {4, 7}, Far <- 50, MaxEarly <- 2, MaxFaults <- 3,
       pc <- sender
L == INSTANCE StreamLife WITH Fds <- {1, 2, 3, 4}, MaxCalls <- 5
D == INSTANCE Dacp WITH Ids <- {"a", "b"}, QueueLen <- 2, MaxOps <- 5

playoutVars == <<t, lead, ring, sender, out, faults>>
lifeVars == <<fd, rt, bf, stream, todo, calls>>
dacpVars == <<sess, valid, queue, worker, ops, dropped, refused>>
allVars == <<part, resendVars, ptpVars, playoutVars, lifeVars, vars, dacpVars>>

\* Of a part that stays where it is one initial state is enough, one in which nothing is due.
StreamInit ==
        /\ part \in {"resend", "clock", "playout", "life", "pairing", "dacp"}
        /\ L!Init /\ Init /\ D!Init
        /\ IF part = "resend" THEN ResendInit
           ELSE /\ rx = [valid |-> FALSE, last |-> 0, first |-> 0, mask |-> {}, asked |-> "never", backoff |-> FALSE]
                /\ work = NotTracking /\ medium = {} /\ sent = 5 /\ got = {}
                /\ left = [faults |-> 0, resets |-> 0, torn |-> FALSE]
        /\ IF part = "clock" THEN PtpInit
           ELSE /\ ptp = Cleared /\ pc = [at |-> "stopped"] /\ net = [sync |-> {}, follow |-> {}, seq |-> 0]
                /\ ahead = [i \in Masters |-> 10 * i]
                /\ ghost = [resets |-> 0, steps |-> 0, torn |-> FALSE, stepped |-> FALSE]
        /\ IF part = "playout" THEN P!Init
           ELSE /\ t = [playing |-> FALSE, started |-> FALSE, anchor |-> FALSE, pending |-> P!None, expected |-> P!None, early |-> 0,
                         quick |-> FALSE, until |-> P!None, dropping |-> FALSE, waited |-> FALSE]
                /\ lead = 0 /\ ring = {} /\ sender = [at |-> "stopped", dropped |-> FALSE] /\ out = P!Silence /\ faults = 0
StreamNext ==
        /\ UNCHANGED part
        /\ \/ part = "resend" /\ ResendNext
              /\ UNCHANGED ptpVars /\ UNCHANGED playoutVars /\ UNCHANGED lifeVars /\ UNCHANGED vars /\
                 UNCHANGED dacpVars
           \/ part = "clock" /\ PtpNext
              /\ UNCHANGED resendVars /\ UNCHANGED playoutVars /\ UNCHANGED lifeVars /\ UNCHANGED vars /\
                 UNCHANGED dacpVars
           \/ part = "playout" /\ P!Next
              /\ UNCHANGED resendVars /\ UNCHANGED ptpVars /\ UNCHANGED lifeVars /\ UNCHANGED vars /\
                 UNCHANGED dacpVars
           \/ part = "life" /\ L!Next
              /\ UNCHANGED resendVars /\ UNCHANGED ptpVars /\ UNCHANGED playoutVars /\ UNCHANGED vars /\
                 UNCHANGED dacpVars
           \/ part = "pairing" /\ Next
              /\ UNCHANGED resendVars /\ UNCHANGED ptpVars /\ UNCHANGED playoutVars /\ UNCHANGED lifeVars /\
                 UNCHANGED dacpVars
           \/ part = "dacp" /\ D!Next
              /\ UNCHANGED resendVars /\ UNCHANGED ptpVars /\ UNCHANGED playoutVars /\ UNCHANGED lifeVars /\
                 UNCHANGED vars
StreamSpec == StreamInit /\ [][StreamNext]_allVars /\ ResendFairness /\ PtpFairness /\ P!Fairness /\ L!Fairness /\ Fairness /\ D!Fairness
-----------------------------------------------------------------------------
\* The properties of the parts, at the names they have in their modules.
Recovers == P!Recovers
StopsClean == L!StopsClean
Decided == D!Decided
=============================================================================
