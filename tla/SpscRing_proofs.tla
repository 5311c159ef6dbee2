--------------------------- MODULE SpscRing_proofs ---------------------------
(***************************************************************************)
(* What the ring guarantees for every capacity, sample set and batch size, *)
(* as long as one thread drains it.                                        *)
(***************************************************************************)
EXTENDS SpscRing, SequenceTheorems, TLAPS

\* The slot arithmetic: distances along the ring stay below Cap, one step
\* forward adds one to a distance that is not already maximal, and two slots
\* at the same distance are the same slot.
LEMMA DistBounds ==
  ASSUME NEW a \in Slots, NEW b \in Slots
  PROVE  /\ Dist(a, b) \in Slots
         /\ NextSlot(a) \in Slots
         /\ Dist(a, b) = 0 <=> a = b
         /\ NextSlot(a) # b => Dist(NextSlot(a), b) = Dist(a, b) + 1
  BY RingAssumption DEF Slots, Dist, NextSlot

LEMMA DistSplit ==
  ASSUME NEW a \in Slots, NEW b \in Slots, NEW c \in Slots,
         Dist(b, c) <= Dist(a, c)
  PROVE  Dist(a, b) = Dist(a, c) - Dist(b, c)
  BY RingAssumption DEF Slots, Dist

LEMMA DistInjective ==
  ASSUME NEW a \in Slots, NEW b \in Slots, NEW c \in Slots,
         Dist(a, c) = Dist(b, c)
  PROVE  a = b
  BY RingAssumption DEF Slots, Dist

\* A slot that lies between b and d, seen from b, lies between c and d, seen
\* from c, when b itself does.
LEMMA DistThrough ==
  ASSUME NEW a \in Slots, NEW b \in Slots, NEW c \in Slots, NEW d \in Slots,
         Dist(b, c) <= Dist(d, c), Dist(a, b) < Dist(d, b)
  PROVE  /\ Dist(a, c) = Dist(a, b) + Dist(b, c)
         /\ Dist(a, c) < Dist(d, c)
  BY RingAssumption DEF Slots, Dist

\* In the initial state the ring is empty and nothing is in progress.
LEMMA InitRingInv == Init => RingInv
  <1> SUFFICES ASSUME Init PROVE RingInv
    OBVIOUS
  <1>0. Silence \in Samples
    BY RingAssumption DEF Silence
  <1>1. 0 \in Slots
    BY RingAssumption DEF Slots
  <1>2. RingTypeOK
    BY <1>0, <1>1 DEF Init, RingTypeOK
  <1>3. Dist(0, 0) = 0
    BY DEF Dist
  <1>4. WaitingSamples
    BY <1>3, RingAssumption DEF Init, WaitingSamples, Slots, Dist
  <1>5. PendingPush /\ DeliveredInOrder /\ \A c \in Consumers : PendingDrain(c)
    BY DEF Init, PendingPush, PendingDrain, DeliveredInOrder
  <1> QED
    BY <1>2, <1>4, <1>5 DEF RingInv

\* Every step keeps the types.
LEMMA TypeStep ==
  ASSUME RingTypeOK, [Next]_vars
  PROVE  RingTypeOK'
  <1> USE RingAssumption DEF RingTypeOK
  <1>1. ASSUME NEW v \in Samples, PushCall(v) PROVE RingTypeOK'
    BY <1>1 DEF PushCall, consVars, hist
  <1>2. CASE PushFull
    BY <1>2 DEF PushFull, consVars
  <1>3. CASE PushRoom
    BY <1>3 DEF PushRoom, consVars, hist
  <1>4. CASE PushWrite
    BY <1>4 DEF PushWrite, consVars, hist
  <1>5. CASE PushStore
    <2>1. NextSlot(w) \in Slots
      BY DistBounds
    <2>2. Append(accepted, pv) \in Seq(Samples)
      OBVIOUS
    <2> QED
      BY <1>5, <2>1, <2>2 DEF PushStore, consVars
  <1>6. ASSUME NEW c \in Consumers, NEW m \in MaxDrains, DrainCall(c, m)
        PROVE  RingTypeOK'
    BY <1>6 DEF DrainCall, prodVars, hist
  <1>7. ASSUME NEW c \in Consumers, DrainLoadW(c) PROVE RingTypeOK'
    BY <1>7 DEF DrainLoadW, prodVars, hist
  <1>8. ASSUME NEW c \in Consumers, DrainCopy(c) PROVE RingTypeOK'
    <2>1. NextSlot(cr[c]) \in Slots
      BY DistBounds
    <2>2. Append(dst[c], buf[cr[c]]) \in Seq(Samples)
      OBVIOUS
    <2> QED
      BY <1>8, <2>1, <2>2 DEF DrainCopy, prodVars, hist
  <1>9. ASSUME NEW c \in Consumers, DrainStore(c) PROVE RingTypeOK'
    BY <1>9 DEF DrainStore, prodVars
  <1>10. ASSUME NEW c \in Consumers, SizeCall(c) PROVE RingTypeOK'
    BY <1>10 DEF SizeCall, prodVars, hist
  <1>11. ASSUME NEW c \in Consumers, SizeReturn(c) PROVE RingTypeOK'
    <2>1. Dist(cw[c], r) \in Slots /\ Dist(w, r) \in Slots
      BY DistBounds
    <2> QED
      BY <1>11, <2>1 DEF SizeReturn, prodVars, hist
  <1>12. CASE UNCHANGED vars
    BY <1>12 DEF vars, prodVars, consVars, hist
  <1> QED
    BY <1>1, <1>2, <1>3, <1>4, <1>5, <1>6, <1>7, <1>8, <1>9, <1>10, <1>11,
       <1>12 DEF Next, Producer, Consumer, Drain

\* The variables always have their types, with any number of consumers.
THEOREM RingTypes == Spec => []RingTypeOK
  <1>1. Init => RingTypeOK
    BY InitRingInv DEF RingInv
  <1> QED
    BY <1>1, TypeStep, PTL DEF Spec

-----------------------------------------------------------------------------
(* The steps of push() and the invariant.                                  *)

\* push() writes a slot that is not waiting, so nothing waiting changes.
LEMMA WriteStep ==
  ASSUME RingInv, PushWrite
  PROVE  RingInv'
  <1> USE DEF RingInv
  <1>1. RingTypeOK'
    BY TypeStep DEF Next, Producer
  <1>2. /\ w \in Slots /\ r \in Slots /\ NextSlot(w) # r /\ ppc = "write"
        /\ buf' = [buf EXCEPT ![w] = pv] /\ buf \in [Slots -> Samples]
        /\ UNCHANGED <<w, r, pv, accepted, out, cpc, cr, cw, dst>>
    BY DEF PushWrite, consVars, hist, RingTypeOK, PendingPush
  <1>3. WaitingSamples'
    <2> SUFFICES ASSUME NEW i \in Slots, Dist(i, r) < Dist(w, r)
                 PROVE  buf'[i] = accepted[Len(out) + 1 + Dist(i, r)]
      BY <1>2 DEF WaitingSamples, Dist
    <2>1. i # w
      BY <1>2, DistBounds DEF Slots
    <2> QED
      BY <1>2, <2>1 DEF WaitingSamples
  <1>4. PendingPush'
    BY <1>2 DEF PendingPush, NextSlot
  <1>5. ASSUME NEW c \in Consumers PROVE PendingDrain(c)'
    BY <1>2, <1>5 DEF PendingDrain, Dist
  <1>6. DeliveredInOrder'
    BY <1>2 DEF DeliveredInOrder
  <1> QED
    BY <1>1, <1>3, <1>4, <1>5, <1>6

\* Publishing makes the written slot the last waiting one.
LEMMA StoreStep ==
  ASSUME RingInv, PushStore
  PROVE  RingInv'
  <1> USE DEF RingInv
  <1>1. RingTypeOK'
    BY TypeStep DEF Next, Producer
  <1>2. /\ w \in Slots /\ r \in Slots /\ NextSlot(w) # r /\ buf[w] = pv
        /\ pv \in Samples /\ accepted \in Seq(Samples) /\ out \in Seq(Samples)
        /\ w' = NextSlot(w) /\ accepted' = Append(accepted, pv)
        /\ ppc' = "idle"
        /\ UNCHANGED <<buf, r, out, cpc, cr, cw, dst>>
    BY DEF PushStore, consVars, RingTypeOK, PendingPush
  <1>3. /\ Dist(w', r) = Dist(w, r) + 1
        /\ Dist(w, r) \in Nat
        /\ Len(out) \in Nat
        /\ Len(accepted) = Len(out) + Dist(w, r)
        /\ Len(accepted') = Len(accepted) + 1
        /\ accepted'[Len(accepted) + 1] = pv
        /\ \A k \in 1 .. Len(accepted) : accepted'[k] = accepted[k]
    <2>1. Dist(w', r) = Dist(w, r) + 1 /\ Dist(w, r) \in Nat
      BY <1>2, DistBounds DEF Slots
    <2>2. Len(accepted) = Len(out) + Dist(w, r)
      BY DEF WaitingSamples
    <2> QED
      BY <1>2, <2>1, <2>2
  <1>4. WaitingSamples'
    <2>1. SUFFICES ASSUME NEW i \in Slots, Dist(i, r) < Dist(w, r) + 1
                   PROVE  buf[i] = accepted'[Len(out) + 1 + Dist(i, r)]
      <3>1. /\ UNCHANGED <<r, buf, out>>
            /\ Dist(w', r') = Dist(w, r) + 1
            /\ Len(accepted') = Len(out) + Dist(w, r) + 1
        BY <1>2, <1>3
      <3> QED
        BY <3>1, <1>3 DEF WaitingSamples
    <2>2. Dist(i, r) \in Nat
      BY <1>2, DistBounds DEF Slots
    <2>3. CASE Dist(i, r) = Dist(w, r)
      <3>1. i = w
        BY <1>2, <2>3, DistInjective
      <3> QED
        BY <1>2, <1>3, <2>3, <3>1
    <2>4. CASE Dist(i, r) < Dist(w, r)
      <3>1. buf[i] = accepted[Len(out) + 1 + Dist(i, r)]
        BY <2>4 DEF WaitingSamples
      <3>2. Len(out) + 1 + Dist(i, r) \in 1 .. Len(accepted)
        BY <1>3, <2>2, <2>4
      <3> QED
        BY ONLY <1>3, <3>1, <3>2
    <2> QED
      BY ONLY <1>3, <2>1, <2>2, <2>3, <2>4
  <1>5. PendingPush'
    BY <1>2 DEF PendingPush
  <1>6. ASSUME NEW c \in Consumers PROVE PendingDrain(c)'
    <2>1. cr[c] \in Slots /\ cw[c] \in Slots /\ dst[c] \in Seq(Samples)
      BY DEF RingTypeOK
    <2>2. Dist(cr[c], r) \in Nat /\ Dist(cw[c], r) \in Nat
      <3>1. Dist(cr[c], r) \in Slots /\ Dist(cw[c], r) \in Slots
        BY <1>2, <2>1, DistBounds
      <3> QED
        BY <3>1, RingAssumption DEF Slots
    <2>3. UNCHANGED <<Dist(cr[c], r), Dist(cw[c], r)>>
      BY <1>2 DEF Dist
    <2>4. ASSUME cpc[c] = "copy", NEW k \in 1 .. Len(dst[c])
          PROVE  dst[c][k] = accepted'[Len(out) + k]
      <3>1. Len(dst[c]) <= Dist(w, r) /\ Len(dst[c]) \in Nat
        <4>1. /\ Len(dst[c]) = Dist(cr[c], r) /\ Dist(cr[c], r) <= Dist(cw[c], r)
              /\ Dist(cw[c], r) <= Dist(w, r)
          BY <2>4 DEF PendingDrain
        <4> QED
          BY ONLY <1>3, <2>2, <4>1
      <3>2. Len(out) + k \in 1 .. Len(accepted)
        BY <1>3, <3>1
      <3> QED
        BY <1>3, <2>4, <3>2 DEF PendingDrain
    <2>5. PendingDrain(c) /\ UNCHANGED <<cpc, cr, cw, dst, r, out>>
      BY <1>2
    <2>6. Dist(w', r') = Dist(w, r) + 1 /\ Dist(w, r) \in Nat
      BY ONLY <1>3, <2>5
    <2>7. cpc'[c] = "loadW" => cr'[c] = r' /\ dst'[c] = <<>>
      BY ONLY <2>5 DEF PendingDrain
    <2>8. Dist(cr'[c], r') = Dist(cr[c], r) /\ Dist(cw'[c], r') = Dist(cw[c], r)
      BY ONLY <2>5
    <2>9. Dist(cw[c], r) <= Dist(w, r) => Dist(cw'[c], r') <= Dist(w', r')
      BY ONLY <2>2, <2>6, <2>8
    <2>10. cpc'[c] = "copy" => /\ Len(dst'[c]) = Dist(cr'[c], r')
                              /\ Dist(cr'[c], r') <= Dist(cw'[c], r')
                              /\ Dist(cw'[c], r') <= Dist(w', r')
      BY ONLY <2>5, <2>8, <2>9 DEF PendingDrain
    <2>11. cpc'[c] = "copy" => \A k \in 1 .. Len(dst'[c]) : dst'[c][k] = accepted'[Len(out') + k]
      BY ONLY <2>4, <2>5
    <2>12. cpc'[c] = "size" => Dist(cw'[c], r') <= Dist(w', r')
      BY ONLY <2>5, <2>9 DEF PendingDrain
    <2> QED
      BY ONLY <2>7, <2>10, <2>11, <2>12 DEF PendingDrain
  <1>7. DeliveredInOrder'
    BY <1>2, <1>3 DEF DeliveredInOrder
  <1> QED
    BY <1>1, <1>4, <1>5, <1>6, <1>7

-----------------------------------------------------------------------------
(* The steps of drain() and the invariant.                                 *)

\* Copying takes the next waiting sample, which the producer cannot touch.
LEMMA CopyStep ==
  ASSUME RingInv, NEW c \in Consumers, DrainCopy(c)
  PROVE  RingInv'
  <1> USE DEF RingInv
  <1>1. RingTypeOK'
    BY TypeStep DEF Next, Consumer, Drain
  <1>2. /\ w \in Slots /\ r \in Slots /\ cr[c] \in Slots /\ cw[c] \in Slots
        /\ dst[c] \in Seq(Samples) /\ buf \in [Slots -> Samples]
        /\ out \in Seq(Samples) /\ cpc[c] = "copy" /\ cr[c] # cw[c]
        /\ dst' = [dst EXCEPT ![c] = Append(dst[c], buf[cr[c]])]
        /\ cr' = [cr EXCEPT ![c] = NextSlot(cr[c])]
        /\ cr \in [Consumers -> Slots] /\ dst \in [Consumers -> Seq(Samples)]
        /\ UNCHANGED <<buf, w, r, ppc, pv, accepted, out, cpc, cw>>
    BY DEF DrainCopy, DrainMore, prodVars, hist, RingTypeOK
  <1>3. WaitingSamples' /\ PendingPush' /\ DeliveredInOrder'
    BY <1>2 DEF WaitingSamples, PendingPush, DeliveredInOrder, Dist, NextSlot
  <1>4. ASSUME NEW d \in Consumers, d # c PROVE PendingDrain(d)'
    BY <1>2, <1>4 DEF PendingDrain, Dist
  <1>5. PendingDrain(c)'
    <2>1. /\ Dist(cr[c], r) \in Slots /\ Dist(cw[c], r) \in Slots
          /\ Dist(w, r) \in Slots
      BY <1>2, DistBounds
    <2>2. /\ Len(dst[c]) = Dist(cr[c], r)
          /\ Dist(cr[c], r) <= Dist(cw[c], r)
          /\ Dist(cw[c], r) <= Dist(w, r)
      BY <1>2 DEF PendingDrain
    <2>3. Dist(cr[c], r) # Dist(cw[c], r)
      BY <1>2, DistInjective
    <2>4. Dist(cr[c], r) < Dist(cw[c], r)
      BY <2>1, <2>2, <2>3 DEF Slots
    <2>5. buf[cr[c]] = accepted[Len(out) + 1 + Dist(cr[c], r)]
      <3>1. Dist(cr[c], r) < Dist(w, r)
        BY <2>1, <2>2, <2>4, RingAssumption DEF Slots
      <3> QED
        BY <1>2, <3>1 DEF WaitingSamples
    <2>6. NextSlot(cr[c]) # r
      <3> SUFFICES ASSUME NextSlot(cr[c]) = r PROVE FALSE
        OBVIOUS
      <3> QED
        BY <1>2, <2>4, RingAssumption DEF NextSlot, Dist, Slots
    <2>7. Dist(NextSlot(cr[c]), r) = Dist(cr[c], r) + 1
      BY <1>2, <2>6, DistBounds
    <2>8. cr'[c] = NextSlot(cr[c]) /\ dst'[c] = Append(dst[c], buf[cr[c]])
      BY <1>2
    <2>9. UNCHANGED <<r, w, cw, cpc, out, accepted, Dist(cw[c], r), Dist(w, r)>>
      BY <1>2 DEF Dist
    <2>10. Dist(cr[c], r)' = Dist(cr[c], r) + 1
      BY <2>7, <2>8, <2>9 DEF Dist
    <2>11. Len(dst'[c]) = Len(dst[c]) + 1
      BY <1>2, <2>8
    <2>12. ASSUME NEW k \in 1 .. Len(dst'[c])
           PROVE  dst'[c][k] = accepted[Len(out) + k]
      <3>1. CASE k = Len(dst[c]) + 1
        BY <1>2, <2>1, <2>2, <2>5, <2>8, <3>1 DEF Slots
      <3>2. CASE k # Len(dst[c]) + 1
        <4>1. k \in 1 .. Len(dst[c])
          BY <1>2, <2>11, <3>2
        <4> QED
          BY <1>2, <2>8, <4>1 DEF PendingDrain
      <3> QED
        BY <3>1, <3>2
    <2> QED
      BY <1>2, <2>1, <2>2, <2>4, <2>9, <2>10, <2>11, <2>12
      DEF PendingDrain, Slots
  <1> QED
    BY <1>1, <1>3, <1>4, <1>5

\* Returning a batch moves r past exactly the samples it copied; it needs
\* the consumer to be alone, because a second drain() in progress would
\* still count from the old r.
LEMMA ReturnStep ==
  ASSUME RingInv, NEW c \in Consumers, Consumers = {c}, DrainStore(c)
  PROVE  RingInv'
  <1> USE DEF RingInv
  <1>1. RingTypeOK'
    BY TypeStep DEF Next, Consumer, Drain
  <1>2. /\ w \in Slots /\ r \in Slots /\ cr[c] \in Slots /\ cw[c] \in Slots
        /\ dst[c] \in Seq(Samples) /\ buf \in [Slots -> Samples]
        /\ out \in Seq(Samples) /\ accepted \in Seq(Samples)
        /\ cpc[c] = "copy" /\ cpc' = [cpc EXCEPT ![c] = "idle"]
        /\ cpc \in [Consumers -> {"idle", "loadW", "copy", "size"}]
        /\ r' = cr[c] /\ out' = out \o dst[c]
        /\ UNCHANGED <<buf, w, ppc, pv, accepted, cr, cw>>
    BY DEF DrainStore, prodVars, RingTypeOK
  <1>3. /\ Dist(cr[c], r) \in Slots /\ Dist(cw[c], r) \in Slots
        /\ Dist(w, r) \in Slots
    BY <1>2, DistBounds
  <1>4. /\ Len(dst[c]) = Dist(cr[c], r)
        /\ Dist(cr[c], r) <= Dist(w, r)
        /\ \A k \in 1 .. Len(dst[c]) : dst[c][k] = accepted[Len(out) + k]
    <2>1. /\ Len(dst[c]) = Dist(cr[c], r)
          /\ Dist(cr[c], r) <= Dist(cw[c], r)
          /\ Dist(cw[c], r) <= Dist(w, r)
      BY <1>2 DEF PendingDrain
    <2>2. \A k \in 1 .. Len(dst[c]) : dst[c][k] = accepted[Len(out) + k]
      BY <1>2 DEF PendingDrain
    <2>3. Dist(cr[c], r) <= Dist(w, r)
      BY <1>3, <2>1, RingAssumption DEF Slots
    <2> QED
      BY <2>1, <2>2, <2>3
  <1>5. /\ Len(out') = Len(out) + Len(dst[c])
        /\ Len(accepted) = Len(out) + Dist(w, r)
        /\ Len(out) \in Nat /\ Len(dst[c]) \in Nat
    BY <1>2 DEF WaitingSamples
  <1>6. Dist(w, cr[c]) = Dist(w, r) - Dist(cr[c], r)
    BY <1>2, <1>4, DistSplit
  <1>7. WaitingSamples'
    <2>1. UNCHANGED <<accepted, buf, w>> /\ Dist(w', r') = Dist(w, cr[c])
      BY <1>2
    <2>2. Len(accepted) = Len(out') + Dist(w, cr[c])
      BY <1>3, <1>4, <1>5, <1>6 DEF Slots
    <2>3. ASSUME NEW i \in Slots, Dist(i, cr[c]) < Dist(w, cr[c])
          PROVE  buf[i] = accepted[Len(out') + 1 + Dist(i, cr[c])]
      <3>1. Dist(i, r) = Dist(i, cr[c]) + Dist(cr[c], r)
        BY <1>2, <1>4, <2>3, DistThrough
      <3>2. Dist(i, r) < Dist(w, r)
        BY <1>2, <1>4, <2>3, DistThrough
      <3>3. buf[i] = accepted[Len(out) + 1 + Dist(i, r)]
        BY <3>2 DEF WaitingSamples
      <3>4. Dist(i, cr[c]) \in Slots
        BY <1>2, DistBounds
      <3>5. Len(out) + 1 + Dist(i, r) = Len(out') + 1 + Dist(i, cr[c])
        BY <1>3, <1>4, <1>5, <3>1, <3>4, RingAssumption DEF Slots
      <3> QED
        BY <3>3, <3>5
    <2>4. ASSUME NEW i \in Slots, Dist(i, r') < Dist(w', r')
          PROVE  buf'[i] = accepted'[Len(out') + 1 + Dist(i, r')]
      BY <1>2, <2>1, <2>3, <2>4
    <2> QED
      BY <2>1, <2>2, <2>4 DEF WaitingSamples
  <1>8. PendingPush'
    <2>1. ASSUME NextSlot(w) # r PROVE NextSlot(w) # cr[c]
      BY <1>2, <1>4, <2>1, RingAssumption DEF NextSlot, Dist, Slots
    <2> QED
      BY <1>2, <2>1 DEF PendingPush, NextSlot
  <1>9. PendingDrain(c)'
    BY <1>2 DEF PendingDrain
  <1>10. DeliveredInOrder'
    <2>1. Len(out') <= Len(accepted)
      BY <1>3, <1>4, <1>5 DEF Slots
    <2>2. ASSUME NEW k \in 1 .. Len(out') PROVE out'[k] = accepted[k]
      <3>1. CASE k <= Len(out)
        <4>1. out'[k] = out[k] /\ k \in 1 .. Len(out)
          BY <1>2, <1>5, <3>1
        <4> QED
          BY <4>1 DEF DeliveredInOrder
      <3>2. CASE k > Len(out)
        <4>1. out'[k] = dst[c][k - Len(out)] /\ k - Len(out) \in 1 .. Len(dst[c])
          BY <1>2, <1>5, <3>2
        <4>2. dst[c][k - Len(out)] = accepted[Len(out) + (k - Len(out))]
          BY <1>4, <4>1
        <4> QED
          BY <1>5, <4>1, <4>2
      <3> QED
        BY <1>5, <3>1, <3>2
    <2> QED
      BY <1>2, <2>1, <2>2 DEF DeliveredInOrder
  <1> QED
    BY <1>1, <1>7, <1>8, <1>9, <1>10

-----------------------------------------------------------------------------
(* The theorems.                                                           *)

\* Every step of one producer and one consumer preserves the invariant.
LEMMA RingInvStep ==
  ASSUME NEW s, Consumers = {s}, RingInv, [Next]_vars
  PROVE  RingInv'
  <1> USE DEF RingInv
  <1>1. RingTypeOK'
    BY TypeStep
  <1>2. ASSUME UNCHANGED <<buf, w, r, ppc, accepted, out>>
        PROVE  WaitingSamples' /\ DeliveredInOrder'
    BY <1>2 DEF WaitingSamples, DeliveredInOrder, Dist
  <1>3. ASSUME NEW v \in Samples, PushCall(v) PROVE RingInv'
    BY <1>1, <1>3 DEF PushCall, WaitingSamples, PendingPush, PendingDrain,
       DeliveredInOrder, Dist, consVars, hist
  <1>4. CASE PushFull
    BY <1>1, <1>4 DEF PushFull, WaitingSamples, PendingPush, PendingDrain,
       DeliveredInOrder, Dist, consVars
  <1>5. CASE PushRoom
    BY <1>1, <1>5 DEF PushRoom, WaitingSamples, PendingPush, PendingDrain,
       DeliveredInOrder, Dist, NextSlot, consVars, hist
  <1>6. ASSUME NEW c \in Consumers, NEW m \in MaxDrains, DrainCall(c, m)
        PROVE  RingInv'
    <2>1. cr'[c] = r /\ dst'[c] = <<>> /\ cpc'[c] = "loadW"
      BY <1>6 DEF DrainCall, RingTypeOK
    <2>2. PendingDrain(c)'
      BY <1>6, <2>1 DEF DrainCall, PendingDrain
    <2>3. PendingPush'
      BY <1>6 DEF DrainCall, prodVars, PendingPush, NextSlot
    <2> QED
      BY <1>1, <1>2, <1>6, <2>2, <2>3 DEF DrainCall, prodVars, hist
  <1>7. ASSUME NEW c \in Consumers, DrainLoadW(c) PROVE RingInv'
    <2>1. /\ cr[c] = r /\ dst[c] = <<>> /\ cw'[c] = w /\ cpc'[c] = "copy"
          /\ UNCHANGED <<w, r, cr, dst, out, accepted>>
          /\ w \in Slots /\ r \in Slots
      BY <1>7 DEF DrainLoadW, PendingDrain, RingTypeOK, hist
    <2>2. Dist(r, r) = 0 /\ Dist(w, r) \in Nat
      BY <2>1, DistBounds DEF Slots
    <2>3. PendingDrain(c)'
      BY <2>1, <2>2 DEF PendingDrain, Dist
    <2>4. PendingPush'
      BY <1>7 DEF DrainLoadW, prodVars, PendingPush, NextSlot
    <2> QED
      BY <1>1, <1>2, <1>7, <2>3, <2>4 DEF DrainLoadW, prodVars, hist
  <1>8. ASSUME NEW c \in Consumers, SizeCall(c) PROVE RingInv'
    <2>1. /\ cw'[c] = w /\ cpc'[c] = "size"
          /\ UNCHANGED <<w, r>> /\ w \in Slots /\ r \in Slots
      BY <1>8 DEF SizeCall, RingTypeOK
    <2>2. Dist(w, r) \in Nat
      BY <2>1, DistBounds DEF Slots
    <2>3. PendingDrain(c)'
      BY <2>1, <2>2 DEF PendingDrain, Dist
    <2>4. PendingPush'
      BY <1>8 DEF SizeCall, prodVars, PendingPush, NextSlot
    <2> QED
      BY <1>1, <1>2, <1>8, <2>3, <2>4 DEF SizeCall, prodVars, hist
  <1>9. ASSUME NEW c \in Consumers, SizeReturn(c) PROVE RingInv'
    <2>1. cpc'[c] = "idle"
      BY <1>9 DEF SizeReturn, RingTypeOK
    <2>2. PendingDrain(c)'
      BY <2>1 DEF PendingDrain
    <2>3. PendingPush'
      BY <1>9 DEF SizeReturn, prodVars, PendingPush, NextSlot
    <2> QED
      BY <1>1, <1>2, <1>9, <2>2, <2>3 DEF SizeReturn, prodVars, hist
  <1>10. CASE UNCHANGED vars
    BY <1>1, <1>10 DEF vars, prodVars, consVars, hist, WaitingSamples,
       PendingPush, PendingDrain, DeliveredInOrder, Dist, NextSlot
  <1> QED
    BY <1>3, <1>4, <1>5, <1>6, <1>7, <1>8, <1>9, <1>10, WriteStep, StoreStep,
       CopyStep, ReturnStep DEF Next, Producer, Consumer, Drain

\* With one consumer the slots between r and w always hold exactly the
\* published samples that the stream has not received yet.
THEOREM RingInvariant ==
  ASSUME NEW CONSTANT s, Consumers = {s}
  PROVE  Spec => []RingInv
  <1>1. Init => RingInv
    BY InitRingInv
  <1>2. RingInv /\ [Next]_vars => RingInv'
    BY RingInvStep
  <1> QED
    BY <1>1, <1>2, PTL DEF Spec

\* The stream receives a prefix of what the audio callback published.
THEOREM Delivery ==
  ASSUME NEW CONSTANT s, Consumers = {s}
  PROVE  Spec => []DeliveredInOrder
  <1>1. RingInv => DeliveredInOrder
    BY DEF RingInv
  <1> QED
    BY <1>1, RingInvariant, PTL

\* The producer never writes a slot that the consumer has still to read.
THEOREM RaceFreedom ==
  ASSUME NEW CONSTANT s, Consumers = {s}
  PROVE  Spec => []NoSlotRace
  <1>1. RingInv => NoSlotRace
    <2> SUFFICES ASSUME RingInv, NEW c \in Consumers, cpc[c] = "copy"
                 PROVE  Dist(w, cr[c]) >= Dist(cw[c], cr[c])
      BY DEF NoSlotRace
    <2>1. /\ w \in Slots /\ r \in Slots /\ cr[c] \in Slots /\ cw[c] \in Slots
          /\ Dist(cr[c], r) <= Dist(cw[c], r)
          /\ Dist(cw[c], r) <= Dist(w, r)
      BY DEF RingInv, RingTypeOK, PendingDrain
    <2> QED
      BY <2>1, RingAssumption DEF Dist, Slots
  <1> QED
    BY <1>1, RingInvariant, PTL

\* size() never promises the consumer more than the ring holds when it returns.
THEOREM SizeBound ==
  ASSUME NEW CONSTANT s, Consumers = {s}
  PROVE  Spec => []SizeIsLowerBound
  <1>1. Init => SizeIsLowerBound
    BY DEF Init, SizeIsLowerBound
  <1>2. RingInv /\ SizeIsLowerBound /\ [Next]_vars => SizeIsLowerBound'
    <2> SUFFICES ASSUME RingInv, SizeIsLowerBound, [Next]_vars,
                        NEW c \in Consumers
                 PROVE  sized'[c].returned <= sized'[c].fill
      BY DEF SizeIsLowerBound
    <2>1. CASE UNCHANGED sized
      BY <2>1 DEF SizeIsLowerBound
    <2>2. ASSUME NEW d \in Consumers, SizeReturn(d)
          PROVE  sized'[c].returned <= sized'[c].fill
      <3>1. CASE c = d
        <4>1. sized'[c] = [returned |-> Dist(cw[c], r), fill |-> Dist(w, r)]
          BY <2>2, <3>1 DEF SizeReturn, RingInv, RingTypeOK
        <4> QED
          BY <2>2, <3>1, <4>1 DEF SizeReturn, RingInv, PendingDrain
      <3>2. CASE c # d
        BY <2>2, <3>2 DEF SizeReturn, SizeIsLowerBound, RingInv, RingTypeOK
      <3> QED
        BY <3>1, <3>2
    <2>3. ASSUME Producer PROVE UNCHANGED sized
      BY <2>3 DEF Producer, PushCall, PushFull, PushRoom, PushWrite, PushStore,
                  consVars
    <2>4. ASSUME NEW d \in Consumers, Drain(d) \/ SizeCall(d)
          PROVE  UNCHANGED sized
      BY <2>4 DEF Drain, DrainCall, DrainLoadW, DrainCopy, DrainStore, SizeCall
    <2> QED
      BY <2>1, <2>2, <2>3, <2>4 DEF Next, Consumer, vars, consVars
  <1> QED
    BY <1>1, <1>2, RingInvariant, PTL DEF Spec

-----------------------------------------------------------------------------
(* The refinement of BoundedQueue.                                         *)

\* The slots from r up to w, as a queue, are what the history leaves over.
Shown ==
  /\ Contents \in Seq(Samples)
  /\ Len(accepted) = Len(out) + Len(Contents)
  /\ \A k \in 1 .. Len(Contents) : Contents[k] = accepted[Len(out) + k]

LEMMA RingShows == RingInv => Shown /\ Len(Contents) = Dist(w, r)
  <1> SUFFICES ASSUME RingInv PROVE Shown /\ Len(Contents) = Dist(w, r)
    OBVIOUS
  <1>1. /\ w \in Slots /\ r \in Slots /\ accepted \in Seq(Samples) /\ out \in Seq(Samples)
        /\ buf \in [Slots -> Samples] /\ Len(accepted) = Len(out) + Dist(w, r)
    BY DEF RingInv, RingTypeOK, WaitingSamples
  <1>2. Dist(w, r) \in Nat /\ Len(out) \in Nat
    <2>1. Dist(w, r) \in Slots
      BY <1>1, DistBounds
    <2> QED
      BY <1>1, <2>1, RingAssumption DEF Slots
  <1>3. ASSUME NEW k \in 1 .. Dist(w, r)
        PROVE  buf[SlotPlus(r, k - 1)] \in Samples
               /\ buf[SlotPlus(r, k - 1)] = accepted[Len(out) + k]
    <2>1. SlotPlus(r, k - 1) \in Slots /\ Dist(SlotPlus(r, k - 1), r) = k - 1
      BY <1>1, <1>2, RingAssumption DEF Slots, SlotPlus, Dist
    <2>2. k - 1 < Dist(w, r) /\ Len(out) + 1 + (k - 1) = Len(out) + k
      BY <1>2
    <2>3. buf[SlotPlus(r, k - 1)] = accepted[Len(out) + 1 + (k - 1)]
      BY <2>1, <2>2 DEF RingInv, WaitingSamples
    <2> QED
      BY <1>1, <2>1, <2>2, <2>3
  <1>4. Contents \in [1 .. Dist(w, r) -> Samples]
    BY <1>3 DEF Contents
  <1>5. \A k \in 1 .. Dist(w, r) : Contents[k] = accepted[Len(out) + k]
    BY <1>3 DEF Contents
  <1>6. Contents \in Seq(Samples) /\ Len(Contents) = Dist(w, r)
    BY <1>2, <1>4
  <1> QED
    BY <1>1, <1>5, <1>6 DEF Shown

\* Publishing appends to the queue, which has room.
LEMMA StoreAccepts ==
  ASSUME RingInv, Shown, Shown', PushStore
  PROVE  Queue!Accept
  <1>1. /\ w \in Slots /\ r \in Slots /\ NextSlot(w) # r /\ pv \in Samples
        /\ accepted \in Seq(Samples) /\ out \in Seq(Samples)
        /\ accepted' = Append(accepted, pv) /\ UNCHANGED <<out, dropped>>
    BY DEF PushStore, RingInv, RingTypeOK, PendingPush
  <1>2. Dist(w, r) < Cap - 1
    BY <1>1, RingAssumption DEF Dist, NextSlot, Slots
  <1>3. Len(Contents) < Cap - 1
    BY <1>2, RingShows
  <1>4. /\ Contents \in Seq(Samples) /\ Len(accepted) = Len(out) + Len(Contents)
        /\ \A k \in 1 .. Len(Contents) : Contents[k] = accepted[Len(out) + k]
    BY DEF Shown
  <1>5. /\ Contents' \in Seq(Samples) /\ Len(accepted') = Len(out) + Len(Contents')
        /\ \A k \in 1 .. Len(Contents') : Contents'[k] = accepted'[Len(out) + k]
    BY <1>1 DEF Shown
  <1>6. /\ Len(accepted') = Len(accepted) + 1 /\ accepted'[Len(accepted) + 1] = pv
        /\ \A k \in 1 .. Len(accepted) : accepted'[k] = accepted[k]
        /\ Len(accepted) \in Nat /\ Len(out) \in Nat /\ Len(Contents) \in Nat
        /\ Len(Contents') \in Nat
    <2>1. /\ Len(accepted') = Len(accepted) + 1 /\ accepted'[Len(accepted) + 1] = pv
          /\ \A k \in 1 .. Len(accepted) : accepted'[k] = accepted[k]
      BY <1>1
    <2>2. Contents \in Seq(Samples) /\ Contents' \in Seq(Samples)
      BY <1>4, <1>5
    <2>3. Len(Contents) \in Nat /\ Len(Contents') \in Nat
      BY <2>2, LenProperties
    <2>4. Len(accepted) \in Nat /\ Len(out) \in Nat
      BY <1>1
    <2> QED
      BY <2>1, <2>3, <2>4
  <1>7. Append(Contents, pv) \in Seq(Samples) /\ Len(Contents') = Len(Append(Contents, pv))
    BY <1>1, <1>4, <1>5, <1>6
  <1>8. ASSUME NEW k \in 1 .. Len(Contents') PROVE Contents'[k] = Append(Contents, pv)[k]
    <2>1. CASE k = Len(Contents) + 1
      BY <1>1, <1>4, <1>5, <1>6, <2>1
    <2>2. CASE k \in 1 .. Len(Contents)
      <3>1. Len(out) + k \in 1 .. Len(accepted)
        BY <1>4, <1>6, <2>2
      <3>2. Append(Contents, pv)[k] = Contents[k]
        BY <1>1, <1>4, <2>2
      <3> QED
        BY <1>4, <1>5, <1>6, <2>2, <3>1, <3>2
    <2> QED
      BY <1>4, <1>5, <1>6, <2>1, <2>2
  <1>9. Contents' = Append(Contents, pv)
    BY <1>5, <1>7, <1>8, SeqEqual
  <1> QED
    BY <1>1, <1>3, <1>9 DEF Queue!Accept

\* A batch that is not empty is the front of the queue, which keeps the rest.
LEMMA ReturnDelivers ==
  ASSUME RingInv, Shown, Shown', NEW c \in Consumers, DrainStore(c)
  PROVE  Queue!Deliver \/ UNCHANGED <<Contents, out, dropped>>
  <1> DEFINE n == Len(dst[c])
             front == SubSeq(Contents, 1, n)
             rest == SubSeq(Contents, n + 1, Len(Contents))
  <1>1. /\ dst[c] \in Seq(Samples) /\ out \in Seq(Samples) /\ accepted \in Seq(Samples)
        /\ out' = out \o dst[c] /\ UNCHANGED <<accepted, dropped>>
        /\ cpc[c] = "copy"
    BY DEF DrainStore, RingInv, RingTypeOK
  <1>2. \A k \in 1 .. n : dst[c][k] = accepted[Len(out) + k]
    BY <1>1 DEF RingInv, PendingDrain
  <1>3. /\ Contents \in Seq(Samples) /\ Len(accepted) = Len(out) + Len(Contents)
        /\ \A k \in 1 .. Len(Contents) : Contents[k] = accepted[Len(out) + k]
    BY DEF Shown
  <1>4. /\ Contents' \in Seq(Samples) /\ Len(accepted) = Len(out') + Len(Contents')
        /\ \A k \in 1 .. Len(Contents') : Contents'[k] = accepted[Len(out') + k]
    BY <1>1 DEF Shown
  <1>5. /\ Len(out) \in Nat /\ n \in Nat /\ Len(accepted) \in Nat /\ Len(Contents) \in Nat
        /\ Len(Contents') \in Nat /\ Len(out') = Len(out) + n
    BY <1>1, <1>3, <1>4
  <1>6. Len(Contents) = n + Len(Contents')
    BY <1>3, <1>4, <1>5
  <1>7. front = dst[c]
    <2>1. front \in Seq(Samples) /\ Len(front) = n /\ \A k \in 1 .. n : front[k] = Contents[k]
      BY <1>3, <1>5, <1>6, SMTT(30)
    <2>2. \A k \in 1 .. n : front[k] = dst[c][k]
      <3>1. \A k \in 1 .. n : k \in 1 .. Len(Contents)
        BY <1>5, <1>6
      <3> HIDE DEF front, n
      <3> QED
        BY ONLY <1>2, <1>3, <2>1, <3>1
    <2> HIDE DEF front
    <2> QED
      BY <1>1, <2>1, <2>2, SeqEqual
  <1>8. rest = Contents'
    <2>1. /\ rest \in Seq(Samples) /\ Len(rest) = Len(Contents')
          /\ \A k \in 1 .. Len(Contents') : rest[k] = Contents[n + k]
      BY <1>3, <1>5, <1>6, SMTT(30)
    <2>2. ASSUME NEW k \in 1 .. Len(Contents') PROVE rest[k] = Contents'[k]
      <3>1. n + k \in 1 .. Len(Contents) /\ Len(out') + k = Len(out) + (n + k)
        BY <1>5, <1>6
      <3>2. Contents[n + k] = accepted[Len(out) + (n + k)]
        BY <1>3, <3>1
      <3>3. Contents'[k] = accepted[Len(out') + k]
        BY <1>4
      <3> QED
        BY <2>1, <3>1, <3>2, <3>3
    <2> HIDE DEF rest
    <2> QED
      BY <1>4, <2>1, <2>2, SeqEqual
  <1>9. CASE n = 0
    <2>1. dst[c] = <<>>
      BY <1>1, <1>9
    <2>2. out' = out
      BY <1>1, <2>1
    <2>3. Len(Contents') = Len(Contents)
      BY <1>5, <1>6, <1>9
    <2>4. Contents' = Contents
      BY <1>3, <1>4, <2>2, <2>3, SeqEqual
    <2> QED
      BY <1>1, <2>2, <2>4
  <1>10. CASE n # 0
    <2>1. n \in 1 .. Len(Contents)
      BY <1>5, <1>6, <1>10
    <2> QED
      BY <1>1, <1>7, <1>8, <2>1 DEF Queue!Deliver
  <1> QED
    BY <1>9, <1>10

\* Every step of the ring is one of the queue, or leaves it as it is.
LEMMA QueueStep ==
  ASSUME RingInv, Shown, Shown', [Next]_vars
  PROVE  [Queue!Accept \/ Queue!Drop \/ Queue!Deliver]_Queue!qvars
  <1>1. ASSUME UNCHANGED <<accepted, out>> PROVE Contents' = Contents
    <2>1. /\ Contents \in Seq(Samples) /\ Contents' \in Seq(Samples)
          /\ Len(accepted) = Len(out) + Len(Contents)
          /\ Len(accepted) = Len(out) + Len(Contents')
          /\ \A k \in 1 .. Len(Contents) : Contents[k] = accepted[Len(out) + k]
          /\ \A k \in 1 .. Len(Contents') : Contents'[k] = accepted[Len(out) + k]
      BY <1>1 DEF Shown
    <2>2. Len(out) \in Nat /\ Len(Contents) \in Nat /\ Len(Contents') \in Nat
      BY <2>1 DEF RingInv, RingTypeOK
    <2>3. Len(Contents) = Len(Contents')
      BY <2>1, <2>2
    <2> QED
      BY <2>1, <2>3, SeqEqual
  <1>2. CASE UNCHANGED <<accepted, out, dropped>>
    BY <1>1, <1>2 DEF Queue!qvars
  <1>3. CASE PushFull
    <2>1. /\ w \in Slots /\ r \in Slots /\ NextSlot(w) = r /\ dropped' = dropped + 1
          /\ UNCHANGED <<accepted, out>>
      BY <1>3 DEF PushFull, RingInv, RingTypeOK
    <2>2. Dist(w, r) = Cap - 1
      BY <2>1, RingAssumption DEF Dist, NextSlot, Slots
    <2>3. Contents' = Contents /\ Len(Contents) = Cap - 1
      BY <1>1, <2>1, <2>2, RingShows
    <2> QED
      BY <2>1, <2>3 DEF Queue!Drop
  <1>4. CASE PushStore
    BY <1>4, StoreAccepts
  <1>5. ASSUME NEW c \in Consumers, DrainStore(c)
        PROVE  [Queue!Accept \/ Queue!Drop \/ Queue!Deliver]_Queue!qvars
    BY <1>5, ReturnDelivers DEF Queue!qvars
  <1>6. ASSUME NEW v \in Samples, PushCall(v) PROVE UNCHANGED <<accepted, out, dropped>>
    BY <1>6 DEF PushCall, hist
  <1>7. ASSUME PushRoom \/ PushWrite PROVE UNCHANGED <<accepted, out, dropped>>
    BY <1>7 DEF PushRoom, PushWrite, hist
  <1>8. ASSUME NEW c \in Consumers, NEW m \in MaxDrains, DrainCall(c, m)
        PROVE  UNCHANGED <<accepted, out, dropped>>
    BY <1>8 DEF DrainCall, hist
  <1>9. ASSUME NEW c \in Consumers,
               DrainLoadW(c) \/ DrainCopy(c) \/ SizeCall(c) \/ SizeReturn(c)
        PROVE  UNCHANGED <<accepted, out, dropped>>
    BY <1>9 DEF DrainLoadW, DrainCopy, SizeCall, SizeReturn, hist
  <1>10. CASE UNCHANGED vars
    BY <1>2, <1>10 DEF vars, hist
  <1> QED
    BY <1>2, <1>3, <1>4, <1>5, <1>6, <1>7, <1>8, <1>9, <1>10
       DEF Next, Producer, Consumer, Drain

\* Behind its two indices the ring is the bounded queue of the header of spsc_ring.h, for
\* every capacity, every batch size and every interleaving of push() and drain().
THEOREM RingImplementsQueue ==
  ASSUME NEW CONSTANT s, Consumers = {s}
  PROVE  Spec => RingIsBoundedQueue
  <1>1. Init => Queue!Init
    <2> SUFFICES ASSUME Init PROVE Queue!Init
      OBVIOUS
    <2>1. Dist(w, r) = 0
      BY DEF Init, Dist
    <2>2. Len(Contents) = 0 /\ Contents \in Seq(Samples)
      BY <2>1, InitRingInv, RingShows DEF Shown
    <2>3. Contents = <<>>
      BY <2>2
    <2> QED
      BY <2>3 DEF Init, Queue!Init
  <1>2. RingInv => Shown
    BY RingShows
  <1>3. RingInv /\ Shown /\ Shown' /\ [Next]_vars =>
          [Queue!Accept \/ Queue!Drop \/ Queue!Deliver]_Queue!qvars
    BY QueueStep
  <1> QED
    BY <1>1, <1>2, <1>3, RingInvariant, PTL DEF Spec, RingIsBoundedQueue, Queue!Spec
=============================================================================
