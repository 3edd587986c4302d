---------------------------- MODULE JitterQueue ----------------------------
(***************************************************************************)
(* What the jitter buffer promises its two users, without slots, stacks,   *)
(* locks or semaphores: a bounded queue of timestamps kept in order under  *)
(* Cmp.  A full queue loses its oldest entry to a new one; the reader      *)
(* always gets the oldest entry and nobody touches it until it is done;    *)
(* a flush empties the queue but not the reader's hand.                    *)
(***************************************************************************)
EXTENDS Integers, Sequences, SequencesExt

CONSTANTS
  Stamps,     \* the timestamps
  Limit,      \* entries the queue holds
  Nothing,    \* the reader's hand is empty
  Cmp(_, _)   \* negative, zero or positive: older, equal or newer

VARIABLES queue, hand

Ordered(q) == \A i, j \in 1 .. Len(q) : i < j => Cmp(q[i], q[j]) <= 0

Init == queue = <<>> /\ hand = Nothing

(* The entries of q with t somewhere among them, in order.                 *)
PutInto(q, t) ==
  /\ \E p \in 1 .. Len(q) + 1 : queue' = InsertAt(q, p, t)
  /\ Ordered(queue')
  /\ UNCHANGED hand

Put(t)     == Len(queue) < Limit /\ PutInto(queue, t)
PutFull(t) == Len(queue) = Limit /\ PutInto(Tail(queue), t)

Get ==
  /\ hand = Nothing
  /\ queue # <<>>
  /\ hand' = Head(queue)
  /\ queue' = Tail(queue)

Done == hand # Nothing /\ hand' = Nothing /\ UNCHANGED queue

Clear == queue' = <<>> /\ UNCHANGED hand

Next == \/ \E t \in Stamps : Put(t) \/ PutFull(t)
        \/ Get \/ Done \/ Clear

Spec == Init /\ [][Next]_<<queue, hand>>
=============================================================================
