---------------------------- MODULE AudioBuffer ----------------------------
(***************************************************************************)
(* The jitter buffer between the stream receiver and the playback task     *)
(* (main/audio/audio_buffer.c): a pool of Capacity frame slots, an index   *)
(* array `sorted' in RTP order, a stack of free slots, both under one      *)
(* spinlock, and a counting semaphore `data_ready' that the producer gives *)
(* and the consumer takes OUTSIDE that lock.                               *)
(*                                                                         *)
(* Three tasks use it: the producer (the buffered-stream task or the       *)
(* realtime receiver) queues decoded frames in chunks; the consumer        *)
(* (playback_task, inside audio_timing_read) takes one frame, copies it    *)
(* and returns its slot, and runs the deferred flush; the control task     *)
(* (the RTSP handlers and the control receiver) flushes.  Each critical    *)
(* section is one step and so is each semaphore call, so every             *)
(* interleaving the two cores can produce is a behaviour.                  *)
(***************************************************************************)
EXTENDS Integers, Sequences, FiniteSets, SequencesExt

CONSTANTS
  Capacity,     \* frames the pool holds (MAX_RING_BUFFER_FRAMES)
  StampMod,     \* RTP timestamps count modulo this (2^32 in the code)
  Starts,       \* timestamps a decoded frame may start at
  MaxChunks,    \* chunks a decoded frame is split into, at most
  MaxQueued,    \* bound: calls of audio_buffer_queue_decoded
  MaxFlushes,   \* bound: calls of audio_buffer_flush
  None          \* no slot

Slots  == 0 .. Capacity - 1
Stamps == 0 .. StampMod - 1
Tasks  == {"control", "playback"}      \* the tasks that flush

(* The timestamps that can be in the buffer together.                      *)
Window == {(s + k) % StampMod : s \in Starts, k \in 0 .. MaxChunks - 1}

(* ts_cmp: the signed difference of two wrapping timestamps.               *)
TsCmp(a, b) ==
  LET d == (a - b) % StampMod
  IN  IF d < StampMod \div 2 THEN d ELSE d - StampMod

ASSUME CapacityAssumption ==
  /\ Capacity \in Nat \ {0}
  /\ StampMod \in Nat \ {0}
  /\ Starts \subseteq Stamps
  /\ MaxChunks \in Nat \ {0}
  /\ MaxQueued \in Nat
  /\ MaxFlushes \in Nat
  /\ None \notin Slots

(* What a sender keeps within half of the number circle is totally ordered *)
(* by ts_cmp; the buffer relies on it.                                     *)
ASSUME WindowAssumption ==
  \A a, b, c \in Window :
    /\ TsCmp(a, b) < 0 => TsCmp(b, a) > 0
    /\ TsCmp(a, b) >= 0 => TsCmp(b, a) <= 0
    /\ TsCmp(a, b) <= 0 /\ TsCmp(b, c) <= 0 => TsCmp(a, c) <= 0

VARIABLES
  sorted,   \* slots of the queued frames, oldest first (sorted[], count)
  free,     \* the free stack, top last (free_stack[], free_top)
  stamp,    \* stamp[s]: rtp_timestamp in the header of slot s
  tokens,   \* the count of the semaphore data_ready
  prod,     \* the producer: where it is in queue_decoded
  cons,     \* the consumer: where it is in take ... return
  held,     \* the slot the consumer has taken and not yet returned
  draining, \* the tasks between the two halves of audio_buffer_flush
  late,     \* history: frames inserted since the last clear while a flush drained
  queued,   \* bound: queue_decoded calls so far
  flushes   \* bound: flushes so far

vars == <<sorted, free, stamp, tokens, prod, cons, held, draining, late,
          queued, flushes>>

-----------------------------------------------------------------------------
Idle == [pc |-> "idle", at |-> 0, left |-> 0]

Init ==
  /\ sorted = <<>>
  /\ free = [i \in 1 .. Capacity |-> i - 1]
  /\ stamp = [s \in Slots |-> 0]
  /\ tokens = 0
  /\ prod = Idle
  /\ cons = "idle"
  /\ held = None
  /\ draining = {}
  /\ late = 0
  /\ queued = 0
  /\ flushes = 0

-----------------------------------------------------------------------------
(* The producer.                                                           *)

(* audio_buffer_queue_decoded: a decoded frame of n chunks from timestamp  *)
(* t on; the loop then queues them one by one.                             *)
QueueDecoded(t, n) ==
  /\ prod.pc = "idle"
  /\ queued < MaxQueued
  /\ queued' = queued + 1
  /\ prod' = [pc |-> "chunk", at |-> t, left |-> n]
  /\ UNCHANGED <<sorted, free, stamp, tokens, cons, held, draining, late,
                 flushes>>

(* MUTANT of InsertPos: timestamps compared without the wrap.              *)
InsertPosUnsigned(seq, t) ==
  1 + Cardinality({i \in 1 .. Len(seq) : stamp[seq[i]] < t})

(* sorted_insert_pos: behind every frame older than t, before the others.  *)
InsertPos(seq, t) ==
  1 + Cardinality({i \in 1 .. Len(seq) : TsCmp(stamp[seq[i]], t) < 0})

(* MUTANT of BinarySearchPos: steps over frames of the same timestamp.     *)
BinarySearchUpper(seq, t) ==
  LET search[r \in (0 .. Len(seq)) \X (0 .. Len(seq))] ==
        LET lo == r[1]
            hi == r[2]
            mid == lo + (hi - lo) \div 2
        IN  IF lo >= hi THEN lo
            ELSE IF TsCmp(stamp[seq[mid + 1]], t) <= 0 THEN search[<<mid + 1, hi>>]
            ELSE search[<<lo, mid>>]
  IN  search[<<0, Len(seq)>>] + 1

(* The binary search that computes it, over the array from index 0.        *)
BinarySearchPos(seq, t) ==
  LET search[r \in (0 .. Len(seq)) \X (0 .. Len(seq))] ==
        LET lo == r[1]
            hi == r[2]
            mid == lo + (hi - lo) \div 2
        IN  IF lo >= hi THEN lo
            ELSE IF TsCmp(stamp[seq[mid + 1]], t) < 0 THEN search[<<mid + 1, hi>>]
            ELSE search[<<lo, mid>>]
  IN  search[<<0, Len(seq)>>] + 1

(* Pop the top free slot of pool, fill it with the chunk and put it in its *)
(* place in seq.                                                           *)
Insert(seq, pool) ==
  LET slot == pool[Len(pool)]
  IN  /\ free' = SubSeq(pool, 1, Len(pool) - 1)
      /\ stamp' = [stamp EXCEPT ![slot] = prod.at]
      /\ sorted' = InsertAt(seq, InsertPos(seq, prod.at), slot)
      /\ prod' = [prod EXCEPT !.pc = "give"]
      /\ late' = IF draining = {} THEN late ELSE late + 1
      /\ UNCHANGED <<cons, held, draining, queued, flushes>>

(* queue_chunk, room in the buffer and a free slot.                        *)
InsertChunk ==
  /\ prod.pc = "chunk"
  /\ Len(sorted) < Capacity
  /\ free # <<>>
  /\ Insert(sorted, free)
  /\ UNCHANGED tokens

(* MUTANT of EvictAndInsertChunk: the token of the dropped frame is left.  *)
EvictKeepingToken ==
  /\ prod.pc = "chunk"
  /\ Len(sorted) >= Capacity
  /\ Insert(Tail(sorted), Append(free, Head(sorted)))
  /\ UNCHANGED tokens

(* queue_chunk at capacity: the oldest frame is dropped and, still under   *)
(* the lock, one token is taken if there is one; its slot is the one       *)
(* reused.                                                                 *)
EvictAndInsertChunk ==
  /\ prod.pc = "chunk"
  /\ Len(sorted) >= Capacity
  /\ Insert(Tail(sorted), Append(free, Head(sorted)))
  /\ tokens' = IF tokens > 0 THEN tokens - 1 ELSE 0

(* MUTANT of RefuseChunk: takes a token for the chunk it drops.            *)
RefuseTakingToken ==
  /\ prod.pc = "chunk"
  /\ Len(sorted) < Capacity
  /\ free = <<>>
  /\ prod' = Idle
  /\ tokens' = IF tokens > 0 THEN tokens - 1 ELSE 0
  /\ UNCHANGED <<sorted, free, stamp, cons, held, draining, late, queued,
                 flushes>>

(* queue_chunk below capacity without a free slot: the chunk and the rest  *)
(* of the decoded frame are dropped.                                       *)
RefuseChunk ==
  /\ prod.pc = "chunk"
  /\ Len(sorted) < Capacity
  /\ free = <<>>
  /\ prod' = Idle
  /\ UNCHANGED <<sorted, free, stamp, tokens, cons, held, draining, late,
                 queued, flushes>>

(* The loop of queue_decoded: on to the next chunk, or out.                *)
NextChunk == IF prod.left > 1
             THEN [pc |-> "chunk", at |-> (prod.at + 1) % StampMod,
                   left |-> prod.left - 1]
             ELSE Idle

(* MUTANT of GiveToken: one token per decoded frame instead of per chunk.  *)
GiveOncePerFrame ==
  /\ prod.pc = "give"
  /\ tokens' = IF prod.left > 1 THEN tokens ELSE tokens + 1
  /\ prod' = NextChunk
  /\ UNCHANGED <<sorted, free, stamp, cons, held, draining, late, queued,
                 flushes>>

(* MUTANT of GiveToken: a semaphore without a maximum.                     *)
GiveUnbounded ==
  /\ prod.pc = "give"
  /\ tokens' = tokens + 1
  /\ prod' = NextChunk
  /\ UNCHANGED <<sorted, free, stamp, cons, held, draining, late, queued,
                 flushes>>

(* xSemaphoreGive after the unlock (it fails at the maximum count), then   *)
(* the next chunk of the frame or the end of queue_decoded.                *)
GiveToken ==
  /\ prod.pc = "give"
  /\ tokens' = IF tokens < Capacity THEN tokens + 1 ELSE tokens
  /\ prod' = NextChunk
  /\ UNCHANGED <<sorted, free, stamp, cons, held, draining, late, queued,
                 flushes>>

-----------------------------------------------------------------------------
(* The consumer.                                                           *)

(* audio_buffer_take, first half: the semaphore.                           *)
TakeToken ==
  /\ cons = "idle"
  /\ "playback" \notin draining
  /\ tokens > 0
  /\ tokens' = tokens - 1
  /\ cons' = "took"
  /\ UNCHANGED <<sorted, free, stamp, prod, held, draining, late, queued,
                 flushes>>

(* MUTANT of TakeFrame: the slot is back on the stack while it is read.    *)
TakeFrameReturned ==
  /\ cons = "took"
  /\ sorted # <<>>
  /\ held' = Head(sorted)
  /\ sorted' = Tail(sorted)
  /\ free' = Append(free, Head(sorted))
  /\ cons' = "holding"
  /\ UNCHANGED <<stamp, tokens, prod, draining, late, queued, flushes>>

(* audio_buffer_take, second half: the oldest frame leaves the index.      *)
TakeFrame ==
  /\ cons = "took"
  /\ sorted # <<>>
  /\ held' = Head(sorted)
  /\ sorted' = Tail(sorted)
  /\ cons' = "holding"
  /\ UNCHANGED <<free, stamp, tokens, prod, draining, late, queued, flushes>>

(* ... or count == 0: the token was for a frame that is gone.              *)
TakeNothing ==
  /\ cons = "took"
  /\ sorted = <<>>
  /\ cons' = "idle"
  /\ UNCHANGED <<sorted, free, stamp, tokens, prod, held, draining, late,
                 queued, flushes>>

(* audio_buffer_return.                                                    *)
ReturnSlot ==
  /\ cons = "holding"
  /\ free' = Append(free, held)
  /\ held' = None
  /\ cons' = "idle"
  /\ UNCHANGED <<sorted, stamp, tokens, prod, draining, late, queued, flushes>>

-----------------------------------------------------------------------------
(* audio_buffer_flush, by the control task at any time or by the consumer  *)
(* itself (deferred flush) once it has returned its frame.                 *)

(* MUTANT of Clear: the count is not reset.                                *)
ClearKeepingCount(task) ==
  /\ task \notin draining
  /\ task = "playback" => cons = "idle"
  /\ flushes < MaxFlushes
  /\ flushes' = flushes + 1
  /\ free' = free \o sorted
  /\ late' = 0
  /\ draining' = draining \cup {task}
  /\ UNCHANGED <<sorted, stamp, tokens, prod, cons, held, queued>>

(* First half, under the lock: every queued slot goes back to the stack.   *)
Clear(task) ==
  /\ task \notin draining
  /\ task = "playback" => cons = "idle"
  /\ flushes < MaxFlushes
  /\ flushes' = flushes + 1
  /\ free' = free \o sorted
  /\ sorted' = <<>>
  /\ late' = 0
  /\ draining' = draining \cup {task}
  /\ UNCHANGED <<stamp, tokens, prod, cons, held, queued>>

(* Second half, outside the lock: take tokens until there is none.         *)
DrainToken(task) ==
  /\ task \in draining
  /\ tokens > 0
  /\ tokens' = tokens - 1
  /\ UNCHANGED <<sorted, free, stamp, prod, cons, held, draining, late,
                 queued, flushes>>

DrainDone(task) ==
  /\ task \in draining
  /\ tokens = 0
  /\ draining' = draining \ {task}
  /\ UNCHANGED <<sorted, free, stamp, tokens, prod, cons, held, late, queued,
                 flushes>>

-----------------------------------------------------------------------------
Produce == \/ \E t \in Starts, n \in 1 .. MaxChunks : QueueDecoded(t, n)
           \/ InsertChunk \/ EvictAndInsertChunk \/ RefuseChunk \/ GiveToken

Consume == TakeToken \/ TakeFrame \/ TakeNothing \/ ReturnSlot

Flush(task) == Clear(task) \/ DrainToken(task) \/ DrainDone(task)

Next == Produce \/ Consume \/ \E task \in Tasks : Flush(task)

Spec == Init /\ [][Next]_vars

(* The tasks are never starved: a chunk that is being queued, a flush in   *)
(* progress and a playback task that reads all get processor time.         *)
Fairness ==
  /\ WF_vars(InsertChunk \/ EvictAndInsertChunk \/ RefuseChunk \/ GiveToken)
  /\ WF_vars(Consume)
  /\ \A task \in Tasks : WF_vars(DrainToken(task) \/ DrainDone(task))

FairSpec == Spec /\ Fairness

-----------------------------------------------------------------------------
(* Properties.                                                             *)

(* Type invariant of the buffer and of the three tasks' positions.         *)
TypeOK ==
  /\ sorted \in Seq(Slots)
  /\ free \in Seq(Slots)
  /\ stamp \in [Slots -> Stamps]
  /\ tokens \in 0 .. Capacity
  /\ prod \in [pc : {"idle", "chunk", "give"}, at : Stamps, left : Nat]
  /\ cons \in {"idle", "took", "holding"}
  /\ held \in Slots \cup {None}
  /\ draining \subseteq Tasks
  /\ late \in Nat /\ queued \in Nat /\ flushes \in Nat

(* The consumer owns a slot exactly while it is between take and return.   *)
HeldIffHolding == (cons = "holding") <=> (held # None)

Holding == IF held = None THEN 0 ELSE 1

(* No slot is ever leaked and free_stack never overruns its array: queued, *)
(* free and held slots add up to the pool.                                 *)
SlotAccounting == Len(sorted) + Len(free) + Holding = Capacity

(* No slot of a queue q, a free stack f and a hand h has two owners.       *)
OwnedOnce(q, f, h) ==
  /\ \A i, j \in 1 .. Len(q) : q[i] = q[j] => i = j
  /\ \A i, j \in 1 .. Len(f) : f[i] = f[j] => i = j
  /\ \A i \in 1 .. Len(q), j \in 1 .. Len(f) : q[i] # f[j]
  /\ \A i \in 1 .. Len(q) : q[i] # h
  /\ \A i \in 1 .. Len(f) : f[i] # h

(* The pool is conserved: nothing leaks, nothing is returned twice, no     *)
(* frame is rewritten while the consumer copies it.                        *)
SlotConservation ==
  HeldIffHolding /\ SlotAccounting /\ OwnedOnce(sorted, free, held)

(* The index stays in RTP order across the timestamp wrap, whatever the    *)
(* order of arrival: the binary search and the "oldest" and "newest" peeks *)
(* depend on it.                                                           *)
SortedByRtp ==
  \A i, j \in 1 .. Len(sorted) :
    i < j => TsCmp(stamp[sorted[i]], stamp[sorted[j]]) <= 0

(* On every buffer the program can build, wrap and equal timestamps        *)
(* included, the binary search finds the place InsertPos names.            *)
SearchFindsInsertPos ==
  \A t \in Window : BinarySearchPos(sorted, t) = InsertPos(sorted, t)

(* Tokens given, or about to be given or used, by the two sides.           *)
Pending == (IF prod.pc = "give" THEN 1 ELSE 0) + (IF cons = "took" THEN 1 ELSE 0)

(* At most as many frames are without a token as were inserted while the   *)
(* last flush was draining the semaphore: nothing else loses a token.      *)
FewStranded == Len(sorted) - (tokens + Pending) <= late

(* Until the first flush, overflow included, the semaphore counts the      *)
(* frames exactly.                                                         *)
TokensExactBeforeFlush == flushes = 0 => tokens + Pending = Len(sorted)

(* What the comments of queue_chunk and audio_buffer_take say: the         *)
(* semaphore is kept in sync with the count, so that a frame in the buffer *)
(* can be taken.  A flush that drains the token of a frame queued behind   *)
(* its clear breaks it: the frame stays until others push it out.          *)
SemaphoreInSync ==
  (prod.pc = "idle" /\ cons = "idle" /\ draining = {}) => tokens >= Len(sorted)

(* To its users the buffer is an ordered queue: slots, tokens and the lock *)
(* do not show.  A frame leaves oldest first, the frame being copied out   *)
(* is never rewritten, and nothing but overflow, take and flush removes    *)
(* one.                                                                    *)
Queue == INSTANCE JitterQueue WITH
           Limit <- Capacity, Nothing <- None, Cmp <- TsCmp,
           queue <- [i \in 1 .. Len(sorted) |-> stamp[sorted[i]]],
           hand  <- IF held = None THEN None ELSE stamp[held]

IsJitterQueue == Queue!Spec

(* A queued frame is eventually played, displaced or flushed: none stays   *)
(* in the buffer for want of a token.                                      *)
NoFrameStuck == \A s \in Slots : (s \in ToSet(sorted)) ~> (s \notin ToSet(sorted))
=============================================================================
