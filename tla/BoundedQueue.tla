---------------------------- MODULE BoundedQueue ----------------------------
(***************************************************************************)
(* What spsc_ring.h promises to its two ends: a FIFO of at most Limit      *)
(* samples that drops the NEW sample exactly when it is full, and hands    *)
(* out a batch from its front.  The detailed ring implements it.           *)
(***************************************************************************)
EXTENDS Naturals, Sequences

CONSTANTS Samples, Limit

VARIABLES q, delivered, dropped

qvars == <<q, delivered, dropped>>

Init == q = <<>> /\ delivered = <<>> /\ dropped = 0

Accept ==
  /\ Len(q) < Limit
  /\ \E v \in Samples : q' = Append(q, v)
  /\ UNCHANGED <<delivered, dropped>>

Drop ==
  /\ Len(q) = Limit
  /\ dropped' = dropped + 1
  /\ UNCHANGED <<q, delivered>>

Deliver ==
  \E k \in 1 .. Len(q) :
    /\ delivered' = delivered \o SubSeq(q, 1, k)
    /\ q' = SubSeq(q, k + 1, Len(q))
    /\ UNCHANGED dropped

Spec == Init /\ [][Accept \/ Drop \/ Deliver]_qvars
=============================================================================
