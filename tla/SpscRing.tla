------------------------------ MODULE SpscRing ------------------------------
(***************************************************************************)
(* The lock-free ring of runtime/include/spsc_ring.h, through which the    *)
(* SDL audio callback (the producer) hands every mixed sample to the HTTP  *)
(* threads that stream /mirror/audio (the consumers).                      *)
(*                                                                         *)
(* Every access to the shared cells w_, r_ and buf_ is a step of its own,  *)
(* so that producer and consumer interleave between any two of them.  The  *)
(* acquire and release orders of the code make the accesses of one         *)
(* producer and one consumer sequentially consistent: the order of the     *)
(* steps of a thread is the order of its statements.                       *)
(***************************************************************************)
EXTENDS Naturals, Sequences

CONSTANTS
  Cap,        \* slots of the ring; one is always left free
  Samples,    \* the sample values
  Consumers,  \* the threads that call drain() and size()
  MaxDrains,  \* the values of drain()'s argument max
  MaxPushes   \* bound on the number of calls of push()

ASSUME RingAssumption ==
  /\ Cap \in Nat /\ Cap >= 2
  /\ Samples # {}
  /\ MaxDrains \subseteq Nat \ {0}  \* boardghost_audio_drain returns early on 0
  /\ MaxPushes \in Nat

Slots == 0 .. Cap - 1
Silence == CHOOSE v \in Samples : TRUE  \* static storage starts out zeroed

VARIABLES
  buf,       \* buf_
  w,         \* w_: the next slot the producer fills
  r,         \* r_: the next slot a consumer takes
  ppc,       \* the producer: "idle", or in push() at "load", "write", "store"
  pv,        \* the argument of the push() in progress
  pushes,    \* calls of push() so far (bounds the model)
  cpc,       \* where each consumer is: "idle", "loadW", "copy", or "size"
  cr,        \* each consumer's local r
  cw,        \* each consumer's snapshot of w
  cmax,      \* the argument max of the drain() in progress
  dst,       \* what the drain() in progress has copied
  sized,     \* what each consumer's last size() returned, with the fill then
  accepted,  \* history: every sample that push() published
  out,       \* history: every sample that a drain() returned
  dropped    \* history: how many samples push() refused

prodVars == <<ppc, pv, pushes>>
consVars == <<cpc, cr, cw, cmax, dst, sized>>
hist == <<accepted, out, dropped>>
vars == <<buf, w, r, prodVars, consVars, hist>>

(***************************************************************************)
(* (i + 1) & (Cap - 1) and (a - b) & (Cap - 1) on slots, for a Cap that is *)
(* a power of two.                                                         *)
(***************************************************************************)
NextSlot(i) == IF i + 1 = Cap THEN 0 ELSE i + 1
Dist(a, b) == IF a >= b THEN a - b ELSE a + Cap - b
SlotPlus(i, k) == IF i + k < Cap THEN i + k ELSE i + k - Cap

Init ==
  /\ buf = [i \in Slots |-> Silence]
  /\ w = 0 /\ r = 0
  /\ ppc = "idle" /\ pv = Silence /\ pushes = 0
  /\ cpc = [c \in Consumers |-> "idle"]
  /\ cr = [c \in Consumers |-> 0]
  /\ cw = [c \in Consumers |-> 0]
  /\ cmax = [c \in Consumers |-> 0]
  /\ dst = [c \in Consumers |-> <<>>]
  /\ sized = [c \in Consumers |-> [returned |-> 0, fill |-> 0]]
  /\ accepted = <<>> /\ out = <<>> /\ dropped = 0

-----------------------------------------------------------------------------
(* push(): only the producer writes w_, so its relaxed load of w_ needs no *)
(* step of its own.                                                        *)

PushCall(v) ==
  /\ ppc = "idle" /\ pushes < MaxPushes
  /\ ppc' = "load" /\ pv' = v /\ pushes' = pushes + 1
  /\ UNCHANGED <<buf, w, r, consVars, hist>>

\* Mutant of PushFull: a full ring makes room by dropping the oldest sample.
PushFull_DropOldest ==
  /\ ppc = "load" /\ NextSlot(w) = r
  /\ r' = NextSlot(r)
  /\ ppc' = "write"
  /\ UNCHANGED <<buf, w, pv, pushes, consVars, hist>>

PushFull ==
  /\ ppc = "load" /\ NextSlot(w) = r
  /\ ppc' = "idle"
  /\ dropped' = dropped + 1
  /\ UNCHANGED <<buf, w, r, pv, pushes, consVars, accepted, out>>

PushRoom ==
  /\ ppc = "load" /\ NextSlot(w) # r
  /\ ppc' = "write"
  /\ UNCHANGED <<buf, w, r, pv, pushes, consVars, hist>>

PushWrite ==
  /\ ppc = "write"
  /\ buf' = [buf EXCEPT ![w] = pv]
  /\ ppc' = "store"
  /\ UNCHANGED <<w, r, pv, pushes, consVars, hist>>

PushStore ==
  /\ ppc = "store"
  /\ w' = NextSlot(w)
  /\ accepted' = Append(accepted, pv)
  /\ ppc' = "idle"
  /\ UNCHANGED <<buf, r, pv, pushes, consVars, out, dropped>>

-----------------------------------------------------------------------------
(* drain(): the local r is loaded first, then the snapshot of w.           *)

DrainCall(c, m) ==
  /\ cpc[c] = "idle"
  /\ cpc' = [cpc EXCEPT ![c] = "loadW"]
  /\ cr' = [cr EXCEPT ![c] = r]
  /\ cmax' = [cmax EXCEPT ![c] = m]
  /\ dst' = [dst EXCEPT ![c] = <<>>]
  /\ UNCHANGED <<buf, w, r, prodVars, cw, sized, hist>>

\* Mutant of DrainLoadW: the slots are given back before they are copied.
DrainLoadW_EarlyRelease(c) ==
  /\ cpc[c] = "loadW"
  /\ cw' = [cw EXCEPT ![c] = w]
  /\ r' = w
  /\ cpc' = [cpc EXCEPT ![c] = "copy"]
  /\ UNCHANGED <<buf, w, prodVars, cr, cmax, dst, sized, hist>>

DrainLoadW(c) ==
  /\ cpc[c] = "loadW"
  /\ cw' = [cw EXCEPT ![c] = w]
  /\ cpc' = [cpc EXCEPT ![c] = "copy"]
  /\ UNCHANGED <<buf, w, r, prodVars, cr, cmax, dst, sized, hist>>

\* Mutant of DrainMore: the loop stops one sample short of the snapshot.
DrainMore_OneShort(c) ==
  Len(dst[c]) < cmax[c] /\ cr[c] # cw[c] /\ NextSlot(cr[c]) # cw[c]

DrainMore(c) == Len(dst[c]) < cmax[c] /\ cr[c] # cw[c]

DrainCopy(c) ==
  /\ cpc[c] = "copy" /\ DrainMore(c)
  /\ dst' = [dst EXCEPT ![c] = Append(@, buf[cr[c]])]
  /\ cr' = [cr EXCEPT ![c] = NextSlot(@)]
  /\ UNCHANGED <<buf, w, r, prodVars, cpc, cw, cmax, sized, hist>>

\* Mutant of DrainStore: everything in the snapshot is given back, copied or
\* not.
DrainStore_SkipsRest(c) ==
  /\ cpc[c] = "copy" /\ ~DrainMore(c)
  /\ r' = cw[c]
  /\ out' = out \o dst[c]
  /\ cpc' = [cpc EXCEPT ![c] = "idle"]
  /\ dst' = [dst EXCEPT ![c] = <<>>]
  /\ UNCHANGED <<buf, w, prodVars, cr, cw, cmax, sized, accepted, dropped>>

DrainStore(c) ==
  /\ cpc[c] = "copy" /\ ~DrainMore(c)
  /\ r' = cr[c]
  /\ out' = out \o dst[c]
  /\ cpc' = [cpc EXCEPT ![c] = "idle"]
  /\ dst' = [dst EXCEPT ![c] = <<>>]
  /\ UNCHANGED <<buf, w, prodVars, cr, cw, cmax, sized, accepted, dropped>>

-----------------------------------------------------------------------------
(* size(): w_ is loaded before r_.                                         *)

SizeCall(c) ==
  /\ cpc[c] = "idle"
  /\ cw' = [cw EXCEPT ![c] = w]
  /\ cpc' = [cpc EXCEPT ![c] = "size"]
  /\ UNCHANGED <<buf, w, r, prodVars, cr, cmax, dst, sized, hist>>

SizeReturn(c) ==
  /\ cpc[c] = "size"
  /\ sized' = [sized EXCEPT ![c] =
                 [returned |-> Dist(cw[c], r), fill |-> Dist(w, r)]]
  /\ cpc' = [cpc EXCEPT ![c] = "idle"]
  /\ UNCHANGED <<buf, w, r, prodVars, cr, cw, cmax, dst, hist>>

-----------------------------------------------------------------------------
Producer ==
  \/ \E v \in Samples : PushCall(v)
  \/ PushFull
  \/ PushRoom
  \/ PushWrite
  \/ PushStore

Drain(c) ==
  \/ \E m \in MaxDrains : DrainCall(c, m)
  \/ DrainLoadW(c)
  \/ DrainCopy(c)
  \/ DrainStore(c)

Consumer(c) == Drain(c) \/ SizeCall(c) \/ SizeReturn(c)

Next == Producer \/ \E c \in Consumers : Consumer(c)

Spec == Init /\ [][Next]_vars

(***************************************************************************)
(* A streaming client calls drain() every 20 ms for as long as it is       *)
(* connected (sim_mirror.cpp lines 327-335), whatever else its thread does *)
(* in between: the call is strongly fair and what it starts completes.     *)
(* The audio callback owes nothing.                                        *)
(***************************************************************************)
FairSpec ==
  /\ Spec
  /\ \A c \in Consumers :
       /\ SF_vars(\E m \in MaxDrains : DrainCall(c, m))
       /\ WF_vars(DrainLoadW(c) \/ DrainCopy(c) \/ DrainStore(c))
       /\ WF_vars(SizeReturn(c))

-----------------------------------------------------------------------------
(* The queue that the ring represents: the slots from r up to w.           *)
Contents == [k \in 1 .. Dist(w, r) |-> buf[SlotPlus(r, k - 1)]]

Queue == INSTANCE BoundedQueue
           WITH Limit <- Cap - 1, q <- Contents, delivered <- out

\* The ring implements the bounded FIFO that drops the new sample when, and
\* only when, Cap - 1 samples are waiting (spsc_ring.h lines 6-11).
RingIsBoundedQueue == Queue!Spec

RingTypeOK ==
  /\ buf \in [Slots -> Samples]
  /\ w \in Slots /\ r \in Slots
  /\ ppc \in {"idle", "load", "write", "store"}
  /\ pv \in Samples /\ pushes \in Nat
  /\ cpc \in [Consumers -> {"idle", "loadW", "copy", "size"}]
  /\ cr \in [Consumers -> Slots] /\ cw \in [Consumers -> Slots]
  /\ cmax \in [Consumers -> Nat]
  /\ dst \in [Consumers -> Seq(Samples)]
  /\ sized \in [Consumers -> [returned : Slots, fill : Slots]]
  /\ accepted \in Seq(Samples) /\ out \in Seq(Samples)
  /\ dropped \in Nat

\* What the consumer has received is a prefix of what the producer
\* published: no sample is lost, repeated, torn or reordered between the
\* audio callback and the stream (the contract at the head of spsc_ring.h).
DeliveredInOrder ==
  /\ Len(out) <= Len(accepted)
  /\ \A k \in 1 .. Len(out) : out[k] = accepted[k]

\* The slot push() is filling is never a slot that a drain() in progress has
\* still to read: the plain accesses to buf_ are free of data races.
NoSlotRace ==
  ppc \in {"write", "store"} =>
    \A c \in Consumers : cpc[c] = "copy" => Dist(w, cr[c]) >= Dist(cw[c], cr[c])

\* size() called by the consumer never promises more than the ring holds at
\* the moment it returns ("consumer-safe", spsc_ring.h line 49).
SizeIsLowerBound == \A c \in Consumers : sized[c].returned <= sized[c].fill

(***************************************************************************)
(* The inductive invariant for a single consumer.  WaitingSamples ties the *)
(* slots from r to w to the history; PendingPush says what push() knows    *)
(* between its accesses; PendingDrain what a drain() in progress has       *)
(* copied and that its snapshot of w is behind w but not behind r.         *)
(***************************************************************************)
WaitingSamples ==
  /\ Len(accepted) = Len(out) + Dist(w, r)
  /\ \A i \in Slots :
       Dist(i, r) < Dist(w, r) => buf[i] = accepted[Len(out) + 1 + Dist(i, r)]

PendingPush ==
  /\ ppc \in {"write", "store"} => NextSlot(w) # r
  /\ ppc = "store" => buf[w] = pv

PendingDrain(c) ==
  /\ cpc[c] = "loadW" => cr[c] = r /\ dst[c] = <<>>
  /\ cpc[c] = "copy" =>
       /\ Len(dst[c]) = Dist(cr[c], r)
       /\ Dist(cr[c], r) <= Dist(cw[c], r)
       /\ Dist(cw[c], r) <= Dist(w, r)
       /\ \A k \in 1 .. Len(dst[c]) : dst[c][k] = accepted[Len(out) + k]
  /\ cpc[c] = "size" => Dist(cw[c], r) <= Dist(w, r)

\* Between any two accesses of the audio callback and of the streaming
\* thread, the slots from r to w hold exactly the published samples that
\* were not delivered yet, in order.
RingInv ==
  /\ RingTypeOK
  /\ WaitingSamples
  /\ PendingPush
  /\ \A c \in Consumers : PendingDrain(c)
  /\ DeliveredInOrder

\* Every published sample reaches the stream while a client keeps draining:
\* the consumer never stalls on a ring that is not empty.
EverySampleDelivered ==
  \A n \in 1 .. MaxPushes : Len(accepted) >= n ~> Len(out) >= n
=============================================================================
