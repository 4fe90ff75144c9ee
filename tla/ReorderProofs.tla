---------------------------- MODULE ReorderProofs ----------------------------
(***************************************************************************)
(* Theorems about module Reorder, for every pool, every set of window      *)
(* sizes and every space of sequence numbers that is wide enough.          *)
(***************************************************************************)
EXTENDS Reorder, TLAPS

(* The window trails the last packet the ring released by less than two    *)
(* window sizes: when it has moved past missing packets since, it did so   *)
(* for a packet that it still holds and will release.  Needed for InOrder: *)
(* without a bound, "after" means nothing for numbers that wrap.           *)
LastSound ==
    last # NoPkt =>
       /\ init
       /\ size > 0
       /\ Dist(last, minSeq) \in 1 .. 2 * size
       /\ \/ Dist(last, minSeq) = 1
          \/ \E e \in ring : Dist(last, minSeq) + Dist(minSeq, held[e]) <= 2 * size

IInv ==
    /\ TypeOK
    /\ RingSound
    /\ NoLoss
    /\ TimerCoversOwed
    /\ LastSound

-----------------------------------------------------------------------------
(* Arithmetic of wrapping sequence numbers.                                *)

(* Distances and sums of sequence numbers are sequence numbers.            *)
LEMMA DistType ==
    ASSUME NEW a \in Seqs, NEW b \in Seqs
    PROVE  /\ Dist(a, b) \in Seqs
           /\ Dist(a, b) = 0 <=> a = b
BY SeqSpaceAssumption DEF Seqs, Dist

LEMMA PlusType ==
    ASSUME NEW a \in Seqs, NEW n \in Seqs
    PROVE  Plus(a, n) \in Seqs
BY SeqSpaceAssumption DEF Seqs, Plus

(* A number is determined by its distance.                                 *)
LEMMA DistInjective ==
    ASSUME NEW a \in Seqs, NEW b \in Seqs, NEW c \in Seqs, Dist(a, b) = Dist(a, c)
    PROVE  b = c
BY SeqSpaceAssumption DEF Seqs, Dist

(* Moving the base n places brings what is ahead n places nearer ...       *)
LEMMA DistFromPlus ==
    ASSUME NEW a \in Seqs, NEW b \in Seqs, NEW n \in Nat, n <= Dist(a, b)
    PROVE  Dist(Plus(a, n), b) = Dist(a, b) - n
BY SeqSpaceAssumption DEF Seqs, Dist, Plus

(* ... and what has been passed is the rest of the way behind.             *)
LEMMA DistToPlus ==
    ASSUME NEW a \in Seqs, NEW b \in Seqs, NEW n \in Seqs, Dist(a, b) <= n
    PROVE  Dist(b, Plus(a, n)) = n - Dist(a, b)
BY SeqSpaceAssumption DEF Seqs, Dist, Plus

(* Distances add up as long as the sum does not wrap.                      *)
LEMMA DistAdds ==
    ASSUME NEW a \in Seqs, NEW b \in Seqs, NEW c \in Seqs,
           Dist(a, b) + Dist(b, c) < SeqSpace
    PROVE  Dist(a, c) = Dist(a, b) + Dist(b, c)
BY SeqSpaceAssumption DEF Seqs, Dist

-----------------------------------------------------------------------------
(* Window sizes are small natural numbers.                                 *)
LEMMA SizeType ==
    ASSUME TypeOK
    PROVE  size \in Nat /\ 8 * size <= SeqSpace
BY SizesAssumption, SeqSpaceAssumption DEF TypeOK

LEMMA InitIInv == Init => IInv
<1> SUFFICES ASSUME Init PROVE IInv
  OBVIOUS
<1>1. TypeOK
  <2>1. 0 \in Seqs
    BY SeqSpaceAssumption, SizesAssumption DEF Seqs
  <2> QED
    BY Zenon, <2>1 DEF Init, TypeOK
<1>2. RingSound /\ NoLoss /\ TimerCoversOwed /\ LastSound
  BY DEF Init, RingSound, NoLoss, TimerCoversOwed, LastSound
<1> QED
  BY <1>1, <1>2 DEF IInv

-----------------------------------------------------------------------------
(* A packet injected at once changes neither the ring nor what is held.    *)
LEMMA DirectKeepsIInv ==
    ASSUME IInv, NEW s \in Sent, Inject("direct", {s}, {s}),
           UNCHANGED <<optSize, size, init, minSeq, held, ring, timer, last>>
    PROVE  IInv'
<1>1. TypeOK'
  BY SentAssumption DEF IInv, TypeOK, Inject
<1>2. RingSound' /\ LastSound'
  BY DEF IInv, RingSound, LastSound, Dist
<1>3. NoLoss' /\ TimerCoversOwed'
  BY DEF IInv, NoLoss, TimerCoversOwed, Inject
<1> QED
  BY <1>1, <1>2, <1>3 DEF IInv

(* Two distances inside the doubled ring add up to less than half of the   *)
(* sequence space, since the ring is at most an eighth of it.              *)
LEMMA RingsFit ==
    ASSUME NEW z \in Nat, NEW d \in 1 .. 2 * z, NEW p \in Nat, p < 2 * z, 8 * z <= SeqSpace
    PROVE  d + p # 0 /\ 2 * (d + p) < SeqSpace /\ d + p < SeqSpace
BY SeqSpaceAssumption

(* A late packet takes a free entry, which the ring does not point to.     *)
LEMMA OutOfRangeKeepsIInv ==
    ASSUME IInv, NEW s \in Sent, NEW e \in Entries, RecvOutOfRange(s, e)
    PROVE  IInv'
<1>1. s \in Seqs /\ s # NoPkt
  BY SentAssumption, NoPktAssumption
<1>2. TypeOK'
  BY <1>1 DEF IInv, TypeOK, Inject, RecvOutOfRange
<1>3. \A f \in ring : held'[f] = held[f]
  BY DEF IInv, TypeOK, RingSound, RecvOutOfRange
<1>4. RingSound'
  BY <1>3 DEF IInv, RingSound, RecvOutOfRange, Dist
<1>5. LastSound'
  BY <1>3 DEF IInv, LastSound, RecvOutOfRange, Dist
<1>6. NoLoss' /\ TimerCoversOwed'
  <2>1. \A f \in Entries : held[f] # NoPkt => held'[f] = held[f]
    BY DEF IInv, TypeOK, RecvOutOfRange
  <2>2. owed' \subseteq owed /\ owed \subseteq Seqs /\ timer' = timer
    BY DEF IInv, TypeOK, RecvOutOfRange, Inject
  <2> QED
    BY <2>1, <2>2, NoPktAssumption DEF IInv, NoLoss, TimerCoversOwed
<1> QED
  BY <1>2, <1>4, <1>5, <1>6 DEF IInv

(* After a reset of the ring and of the pool nothing is left to go wrong.  *)
LEMMA FlushedIsSound ==
    ASSUME IInv, NEW S \in SUBSET Seqs, NEW R \in SUBSET Seqs,
           owed \cup R \subseteq S, Inject("flush", S, R), ResetRing,
           held' = [e \in Entries |-> NoPkt], timer' = FALSE,
           size' \in Sizes \cup {0}, optSize' \in Sizes \cup {0}
    PROVE  IInv'
<1>1. owed' = {}
  BY DEF Inject
<1>2. TypeOK'
  <2>1. 0 \in Seqs
    BY SeqSpaceAssumption DEF Seqs
  <2> QED
    BY Zenon, <1>1, <2>1 DEF TypeOK, Inject, ResetRing
<1>3. RingSound' /\ NoLoss' /\ TimerCoversOwed' /\ LastSound'
  BY <1>1 DEF ResetRing, RingSound, NoLoss, TimerCoversOwed, LastSound
<1> QED
  BY <1>2, <1>3 DEF IInv

(* Whatever is owed is in the pool, so a forced drain pays all of it.      *)
LEMMA PoolHoldsOwed ==
    ASSUME IInv
    PROVE  /\ owed \subseteq Packets(held, Used(held))
           /\ Packets(held, Used(held)) \subseteq Seqs
<1>1. owed \subseteq Packets(held, Used(held))
  BY NoPktAssumption DEF IInv, TypeOK, NoLoss, Packets, Used
<1>2. Packets(held, Used(held)) \subseteq Seqs
  BY DEF IInv, TypeOK, Packets, Used
<1> QED
  BY <1>1, <1>2

LEMMA FlushKeepsIInv ==
    ASSUME IInv, FlushPool, size' \in Sizes \cup {0}, optSize' \in Sizes \cup {0}
    PROVE  IInv'
<1> DEFINE S == Packets(held, Used(held))
<1>1. S \in SUBSET Seqs /\ {} \in SUBSET Seqs /\ owed \cup {} \subseteq S
  BY PoolHoldsOwed
<1>2. /\ Inject("flush", S, {}) /\ ResetRing
      /\ held' = [e \in Entries |-> NoPkt] /\ timer' = FALSE
  BY DEF FlushPool
<1> HIDE DEF S
<1> QED
  BY Zenon, <1>1, <1>2, FlushedIsSound

LEMMA NoRoomKeepsIInv ==
    ASSUME IInv, NEW s \in Sent, NEW e \in Entries, RecvNoRoom(s, e)
    PROVE  IInv'
<1> DEFINE S == Packets(held, Used(held)) \cup {s}
<1>1. S \in SUBSET Seqs /\ {s} \in SUBSET Seqs /\ owed \cup {s} \subseteq S
  BY PoolHoldsOwed, SentAssumption
<1>2. size' \in Sizes \cup {0} /\ optSize' \in Sizes \cup {0}
  BY DEF IInv, TypeOK, RecvNoRoom
<1> QED
  BY Zenon, <1>1, <1>2, FlushedIsSound DEF RecvNoRoom

(* A resize forgets the ring and leaves the pool and the timer alone.      *)
LEMMA ReloadKeepsIInv ==
    ASSUME IInv, NEW n \in Sizes \cup {0}, NEW restart \in BOOLEAN,
           Reload(n, restart)
    PROVE  IInv'
<1>1. size' \in Sizes \cup {0} /\ optSize' \in Sizes \cup {0}
  BY DEF IInv, TypeOK, Reload
<1>2. CASE restart /\ size' > 0
  BY <1>1, <1>2, FlushKeepsIInv DEF Reload
<1>3. CASE ~(restart /\ size' > 0)
  <2>1. /\ Inject("none", {}, {})
        /\ UNCHANGED <<held, timer>>
        /\ n = 0 => UNCHANGED <<size, init, minSeq, ring, last>>
        /\ n # 0 => ResetRing
    BY <1>3 DEF Reload
  <2>2. owed' = owed
    BY <2>1 DEF Inject
  <2>3. TypeOK'
    <3>1. 0 \in Seqs
      BY SeqSpaceAssumption DEF Seqs
    <3> QED
      BY Zenon, <1>1, <2>1, <2>2, <3>1 DEF IInv, TypeOK, ResetRing, Inject
  <2>4. NoLoss' /\ TimerCoversOwed'
    BY SMTT(30), <2>1, <2>2 DEF IInv, NoLoss, TimerCoversOwed
  <2>5. RingSound' /\ LastSound'
    BY <2>1 DEF IInv, RingSound, LastSound, ResetRing, Dist
  <2> QED
    BY <2>3, <2>4, <2>5 DEF IInv
<1> QED
  BY <1>2, <1>3

-----------------------------------------------------------------------------
(* A packet stored in the ring, and the drain that follows: the inductive  *)
(* invariant is kept and the release is in order.                          *)
LEMMA InsertKeepsIInv ==
    ASSUME IInv, NEW s \in Sent, NEW e \in Entries, RecvInsert(s, e)
    PROVE  /\ IInv'
           /\ last # NoPkt => \A r \in out'.pkts : After(last, r)
<1> DEFINE base == Base(s)
           h    == [held EXCEPT ![e] = s]
           kept == {f \in ring : held[f] # s} \cup {e}
           pos(f) == Dist(base, h[f])
           k    == Dist(base, s)
           n    == Forced(k)
<1>1. PICK adv \in n .. 2 * size :
        /\ ~ \E f \in kept : pos(f) = adv
        /\ \A j \in n .. adv - 1 : \E f \in kept : pos(f) = j
        /\ LET released == {f \in kept : pos(f) < adv}
           IN  /\ minSeq' = Plus(base, adv)
               /\ ring' = kept \ released
               /\ held' = [f \in Entries |-> IF f \in released THEN NoPkt ELSE h[f]]
               /\ Inject("ring", Packets(h, released), {s})
               /\ \/ released = {} /\ last' = last
                  \/ \E f \in released :
                        /\ \A g \in released : pos(g) <= pos(f)
                        /\ last' = h[f]
  BY Zenon DEF RecvInsert, DrainTimer
<1> DEFINE released == {f \in kept : pos(f) < adv}
<1>2. /\ minSeq' = Plus(base, adv)
      /\ ring' = kept \ released
      /\ held' = [f \in Entries |-> IF f \in released THEN NoPkt ELSE h[f]]
      /\ Inject("ring", Packets(h, released), {s})
      /\ \/ released = {} /\ last' = last
         \/ \E f \in released :
               /\ \A g \in released : pos(g) <= pos(f)
               /\ last' = h[f]
  BY SMTT(30), <1>1
<1>3. /\ size \in Nat /\ size > 0 /\ 8 * size <= SeqSpace
      /\ size' = size /\ optSize' = optSize /\ init' = TRUE
      /\ timer' = (Used(held') # {})
      /\ held[e] = NoPkt /\ k < 2 * size
  BY SizeType DEF IInv, RecvInsert, DrainTimer
<1>4. s \in Seqs /\ s # NoPkt /\ base \in Seqs
  BY SentAssumption, NoPktAssumption DEF IInv, TypeOK, Base
<1>5. /\ h \in [Entries -> Seqs \cup {NoPkt}] /\ h[e] = s
      /\ \A f \in Entries : f # e => h[f] = held[f]
  BY SMTT(30), <1>4 DEF IInv, TypeOK
<1>6. /\ kept \subseteq Entries /\ e \in kept
      /\ \A f \in kept : f # e => /\ f \in ring /\ h[f] = held[f] /\ h[f] \in Seqs
                                 /\ h[f] # s /\ init /\ base = minSeq
                                 /\ pos(f) \in 1 .. size - 1
  <2>1. kept \subseteq Entries /\ e \in kept
    BY DEF IInv, TypeOK
  <2>2. ASSUME NEW f \in kept, f # e
        PROVE  /\ f \in ring /\ h[f] = held[f] /\ h[f] \in Seqs
               /\ h[f] # s /\ init /\ base = minSeq
               /\ pos(f) \in 1 .. size - 1
    <3>1. f \in ring /\ f \in Entries /\ held[f] # s /\ h[f] = held[f]
      BY <2>1, <2>2, <1>5
    <3>2. init /\ held[f] # NoPkt /\ Dist(minSeq, held[f]) \in 1 .. size - 1
      BY SMTT(30), <3>1 DEF IInv, RingSound
    <3> QED
      BY <3>1, <3>2, <1>5 DEF Base
  <2> QED
    BY <2>1, <2>2
<1>7. /\ k \in Nat /\ n \in Nat /\ n <= size /\ k - n <= size - 1
      /\ adv \in Seqs /\ adv \in Nat /\ n <= adv /\ adv <= 2 * size
      /\ (n > 0 => k = n + size - 1)
  <2>1. k \in Nat
    BY SMTT(30), <1>4, DistType DEF Seqs
  <2>2. n \in Nat /\ n <= size /\ k - n <= size - 1 /\ (n > 0 => k = n + size - 1)
    BY SMTT(30), <2>1, <1>3 DEF Forced
  <2>3. adv \in Nat /\ n <= adv /\ adv <= 2 * size
    BY SMTT(30), <2>2, <1>3
  <2> QED
    BY <2>1, <2>2, <2>3, <1>3, SeqSpaceAssumption DEF Seqs
<1>8. /\ pos(e) = k
      /\ \A f \in kept : /\ pos(f) \in Nat /\ pos(f) # adv /\ pos(f) < 2 * size
                         /\ h[f] \in Seqs /\ h[f] # NoPkt
  BY SMTT(30), <1>1, <1>3, <1>4, <1>5, <1>6, <1>7, NoPktAssumption
<1>9. /\ minSeq' \in Seqs
      /\ \A f \in kept \ released : /\ pos(f) > adv
                                    /\ Dist(minSeq', h[f]) = pos(f) - adv
                                    /\ pos(f) - adv \in 1 .. size - 1
      /\ \A f \in released : /\ pos(f) < adv
                             /\ Dist(h[f], minSeq') = adv - pos(f)
  <2>1. minSeq' \in Seqs
    BY Zenon, <1>2, <1>4, <1>7, PlusType
  <2>2. ASSUME NEW f \in kept \ released
        PROVE  /\ pos(f) > adv
               /\ Dist(minSeq', h[f]) = pos(f) - adv
               /\ pos(f) - adv \in 1 .. size - 1
    <3>1. pos(f) > adv /\ pos(f) \in Nat /\ h[f] \in Seqs
      BY <1>7, <1>8
    <3>2. Dist(Plus(base, adv), h[f]) = pos(f) - adv
      <4>1. h[f] \in Seqs /\ base \in Seqs /\ adv \in Nat /\ adv <= Dist(base, h[f])
        BY SMTT(30), <3>1, <1>4, <1>7
      <4> HIDE DEF h, base, n
      <4> QED
        BY SMTT(30), <4>1, DistFromPlus
    <3>3. pos(f) - adv <= size - 1
      BY SMTT(30), <3>1, <1>3, <1>6, <1>7, <1>8
    <3> QED
      BY SMTT(30), <3>1, <3>2, <3>3, <1>2, <1>3, <1>7
  <2>3. ASSUME NEW f \in released
        PROVE  pos(f) < adv /\ Dist(h[f], minSeq') = adv - pos(f)
    <3>1. pos(f) < adv /\ h[f] \in Seqs /\ pos(f) \in Nat
      BY <1>8
    <3>2. Dist(h[f], Plus(base, adv)) = adv - pos(f)
      <4>1. h[f] \in Seqs /\ base \in Seqs /\ adv \in Seqs /\ Dist(base, h[f]) <= adv
        BY SMTT(30), <3>1, <1>4, <1>7
      <4> HIDE DEF h, base, n
      <4> QED
        BY ZenonT(30), <4>1, DistToPlus
    <3> QED
      BY SMTT(30), <3>1, <3>2, <1>2
  <2> QED
    BY SMTT(30), <2>1, <2>2, <2>3
<1>10. /\ \A f \in kept \ released : held'[f] = h[f]
       /\ \A f \in Entries \ released : held'[f] = h[f]
       /\ held' \in [Entries -> Seqs \cup {NoPkt}]
  BY SMTT(30), <1>2, <1>5, <1>6
<1>11. RingSound'
  <2>1. \A f \in ring' : held'[f] # NoPkt /\ Dist(minSeq', held'[f]) \in 1 .. size' - 1
    BY SMTT(30), <1>2, <1>3, <1>8, <1>9, <1>10
  <2>2. \A f, g \in ring' : held'[f] = held'[g] => f = g
    <3>1. \A f, g \in kept : h[f] = h[g] => f = g
      BY SMTT(30), <1>5, <1>6 DEF IInv, RingSound
    <3> QED
      BY SMTT(30), <3>1, <1>2, <1>10
  <2> QED
    BY SMTT(30), <2>1, <2>2, <1>3 DEF RingSound
<1> HIDE DEF base, h, kept, pos, k, n, released
<1>12. /\ out' = [via |-> "ring", pkts |-> Packets(h, released)]
       /\ owed' = (owed \cup {s}) \ Packets(h, released)
       /\ released \subseteq kept
  BY SMTT(30), <1>2 DEF Inject, released
<1>13. last' \in Seqs \cup {NoPkt}
  BY SMTT(30), <1>2, <1>8, <1>12 DEF IInv, TypeOK
<1>14. TypeOK'
  <2>1. Packets(h, released) \subseteq Seqs
    BY SMTT(30), <1>8, <1>12 DEF Packets
  <2>2. ring' \in SUBSET Entries
    BY SMTT(30), <1>2, <1>6
  <2>3. owed' \in SUBSET Seqs
    BY <1>4, <1>12 DEF IInv, TypeOK
  <2>4. timer' \in BOOLEAN
    BY <1>3
  <2> QED
    BY SMTT(30), <2>1, <2>2, <2>3, <2>4, <1>3, <1>9, <1>10, <1>12, <1>13
        DEF IInv, TypeOK
<1>15. NoLoss'
  <2> SUFFICES ASSUME NEW x \in owed' PROVE \E f \in Entries : held'[f] = x
    BY DEF NoLoss
  <2>1. x \notin Packets(h, released) /\ (x = s \/ x \in owed)
    BY <1>12
  <2>2. PICK f \in Entries : h[f] = x
    <3>1. CASE x = s
      BY <3>1, <1>5
    <3>2. CASE x \in owed
      <4>1. PICK g \in Entries : held[g] = x
        BY SMTT(30), <3>2 DEF IInv, NoLoss
      <4>2. g # e
        BY SMTT(30), <4>1, <3>2, <1>3, NoPktAssumption DEF IInv, TypeOK
      <4> QED
        BY <4>1, <4>2, <1>5
    <3> QED
      BY <2>1, <3>1, <3>2
  <2>3. f \notin released
    BY <2>1, <2>2 DEF Packets
  <2> QED
    BY <2>2, <2>3, <1>10
<1>16. TimerCoversOwed'
  <2> SUFFICES ASSUME NEW x \in owed' PROVE timer'
    BY <1>3 DEF TimerCoversOwed
  <2>1. PICK f \in Entries : held'[f] = x
    BY SMTT(30), <1>15 DEF NoLoss
  <2>2. x # NoPkt
    BY SMTT(30), <1>14, NoPktAssumption DEF TypeOK
  <2> QED
    BY ZenonT(30), <2>1, <2>2, <1>3 DEF Used
<1>17. last # NoPkt => /\ init /\ base = minSeq
                       /\ Dist(last, base) \in 1 .. 2 * size
                       /\ last \in Seqs
  BY SMTT(30) DEF IInv, LastSound, TypeOK, base, Base
<1>18. ASSUME last # NoPkt, NEW f \in kept
       PROVE  Dist(last, h[f]) = Dist(last, base) + pos(f)
  <2>1. Dist(last, base) + Dist(base, h[f]) < SeqSpace
    BY Zenon, <1>3, <1>8, <1>17, <1>18, RingsFit DEF pos
  <2> QED
    BY SMTT(30), <2>1, <1>4, <1>8, <1>17, <1>18, DistAdds DEF pos
<1>19. last # NoPkt => \A r \in out'.pkts : After(last, r)
  <2> SUFFICES ASSUME last # NoPkt, NEW f \in released
               PROVE  After(last, h[f])
    BY SMTT(30), <1>12 DEF Packets
  <2>1. Dist(last, h[f]) = Dist(last, base) + pos(f) /\ h[f] \in Seqs
    BY Zenon, <1>8, <1>12, <1>18
  <2>2. Dist(last, h[f]) # 0 /\ 2 * Dist(last, h[f]) < SeqSpace
    <3>1. f \in kept
      BY Zenon, <1>12
    <3>2. Dist(last, base) + pos(f) # 0 /\ 2 * (Dist(last, base) + pos(f)) < SeqSpace
      BY Zenon, <3>1, <1>3, <1>8, <1>17, RingsFit
    <3> QED
      BY Zenon, <3>2, <2>1
  <2>3. last # h[f]
    BY Zenon, <2>1, <2>2, <1>17, DistType
  <2> QED
    BY SMTT(30), <2>2, <2>3 DEF After
<1>20. LastSound'
  <2> SUFFICES ASSUME last' # NoPkt
               PROVE  /\ Dist(last', minSeq') \in 1 .. 2 * size
                      /\ \/ Dist(last', minSeq') = 1
                         \/ \E f \in ring' : Dist(last', minSeq') + Dist(minSeq', held'[f])
                                               <= 2 * size
    BY SMTT(30), <1>3 DEF LastSound
  <2>0. adv > n => \E g \in released : pos(g) = adv - 1
    BY SMTT(30), <1>1, <1>7 DEF released
  <2>3. adv = n /\ k = n + size - 1 =>
           e \in ring' /\ Dist(minSeq', held'[e]) = size - 1
    <3> SUFFICES ASSUME adv = n, k = n + size - 1
                 PROVE  e \in ring' /\ Dist(minSeq', held'[e]) = size - 1
      BY SMTT(30)
    <3>1. e \notin released
      BY SMTT(30), <1>3, <1>7, <1>8 DEF released
    <3>2. e \in kept \ released
      BY SMTT(30), <3>1, <1>6
    <3> QED
      BY SMTT(30), <3>2, <1>2, <1>3, <1>7, <1>8, <1>9, <1>10
  <2>1. CASE /\ released # {}
             /\ \E f \in released : (\A g \in released : pos(g) <= pos(f)) /\ last' = h[f]
    <3>1. PICK f \in released : (\A g \in released : pos(g) <= pos(f)) /\ last' = h[f]
      BY SMTT(30), <2>1
    <3>2. /\ Dist(last', minSeq') = adv - pos(f) /\ pos(f) < adv /\ pos(f) \in Nat
          /\ adv - pos(f) \in 1 .. 2 * size
      BY SMTT(30), <3>1, <1>3, <1>7, <1>8, <1>9, <1>12
    <3>3. CASE adv > n
      BY SMTT(30), <3>1, <3>2, <3>3, <2>0, <1>7, <1>8
    <3>4. CASE adv = n
      <4>1. n > 0 /\ k = n + size - 1
        BY SMTT(30), <3>2, <3>4, <1>7
      <4>2. adv - pos(f) + (size - 1) <= 2 * size
        BY SMTT(30), <3>2, <3>4, <1>3, <1>7
      <4> QED
        BY SMTT(30), <4>1, <4>2, <3>2, <3>4, <2>3
    <3> QED
      BY <3>3, <3>4, <1>7
  <2>2. CASE released = {} /\ last' = last
    <3> DEFINE d == Dist(last, base)
    <3>1. last # NoPkt /\ d \in 1 .. 2 * size /\ base = minSeq
      BY SMTT(30), <2>2, <1>17
    <3>2. adv = n
      BY SMTT(30), <2>0, <2>2, <1>7
    <3>3. Dist(base, minSeq') = adv
      BY SMTT(30), <1>2, <1>4, <1>7, DistToPlus, DistType
    <3>4. Dist(last', minSeq') = d + adv
      <4>1. Dist(last, base) + Dist(base, minSeq') < SeqSpace
        BY SMTT(30), <3>1, <3>3, <1>3, <1>7, SeqSpaceAssumption
      <4> QED
        BY SMTT(30), <4>1, <3>1, <3>3, <2>2, <1>4, <1>9, <1>17, DistAdds
    <3> HIDE DEF d
    <3>5. CASE d = 1 /\ n = 0
      BY SMTT(30), <3>1, <3>2, <3>4, <3>5, <1>3
    <3>6. CASE d = 1 /\ n > 0
      <4>1. k = n + size - 1 /\ d + adv + (size - 1) <= 2 * size
        BY SMTT(30), <3>2, <3>6, <1>3, <1>7
      <4>2. d + adv \in 1 .. 2 * size
        BY SMTT(30), <4>1, <3>1, <1>3, <1>7
      <4> QED
        BY SMTT(30), <4>1, <4>2, <3>2, <3>4, <3>6, <2>3
    <3>7. CASE \E g \in ring : d + Dist(minSeq, held[g]) <= 2 * size
      <4>1. PICK g \in kept : d + pos(g) <= 2 * size
        <5>1. PICK g \in ring : d + Dist(minSeq, held[g]) <= 2 * size
          BY SMTT(30), <3>7
        <5>2. CASE held[g] = s
          BY SMTT(30), <5>1, <5>2, <3>1, <1>5, <1>6 DEF pos
        <5>3. CASE held[g] # s
          <6>1. g \in kept
            BY SMTT(30), <5>3 DEF kept
          <6>2. h[g] = held[g]
            BY SMTT(30), <6>1, <5>3, <1>3, <1>5, <1>6, <1>4 DEF IInv, RingSound
          <6> QED
            BY SMTT(30), <6>1, <6>2, <5>1, <3>1 DEF pos
        <5> QED
          BY SMTT(30), <5>2, <5>3
      <4>2. /\ g \in ring' /\ held'[g] = h[g] /\ pos(g) \in Nat
            /\ Dist(minSeq', held'[g]) = pos(g) - adv /\ pos(g) - adv \in 1 .. size - 1
        BY SMTT(30), <2>2, <1>2, <1>8, <1>9, <1>10
      <4>3. d + adv \in 1 .. 2 * size /\ d + adv + (pos(g) - adv) <= 2 * size
        BY SMTT(30), <4>1, <4>2, <3>1, <1>3, <1>7
      <4> QED
        BY SMTT(30), <4>2, <4>3, <3>4
    <3> QED
      BY SMTT(30), <3>1, <3>5, <3>6, <3>7, <1>7 DEF IInv, LastSound, d
  <2> QED
    BY SMTT(30), <2>1, <2>2, <1>2
<1> QED
  BY <1>11, <1>14, <1>15, <1>16, <1>19, <1>20 DEF IInv

-----------------------------------------------------------------------------
(* One step per handler.  Only RecvInsert releases from the ring.          *)
LEMMA NextKeepsIInv ==
    ASSUME IInv, [Next]_vars
    PROVE  /\ IInv'
           /\ ~UNCHANGED vars /\ out'.via = "ring" /\ last # NoPkt =>
                 \A r \in out'.pkts : After(last, r)
<1>1. CASE UNCHANGED vars
  BY SMTT(30), <1>1
      DEF vars, IInv, TypeOK, RingSound, NoLoss, TimerCoversOwed, LastSound, Dist
<1>2. ASSUME NEW s \in Sent, NEW reorder \in BOOLEAN, Recv(s, reorder)
      PROVE  /\ IInv'
             /\ out'.via = "ring" /\ last # NoPkt =>
                   \A r \in out'.pkts : After(last, r)
  <2>1. CASE RecvUnordered(s, reorder)
    BY SMTT(30), <2>1, DirectKeepsIInv DEF RecvUnordered, Inject
  <2>2. CASE RecvPoolFull(s)
    BY SMTT(30), <2>2, DirectKeepsIInv DEF RecvPoolFull, Inject
  <2>3. CASE \E e \in Entries : RecvOutOfRange(s, e)
    <3>1. out'.via = "direct"
      BY SMTT(30), <2>3 DEF RecvOutOfRange, Inject
    <3> QED
      BY SMTT(30), <2>3, <3>1, OutOfRangeKeepsIInv
  <2>4. CASE \E e \in Entries : RecvNoRoom(s, e)
    <3>1. out'.via = "flush"
      BY SMTT(30), <2>4 DEF RecvNoRoom, Inject
    <3> QED
      BY SMTT(30), <2>4, <3>1, NoRoomKeepsIInv
  <2>5. CASE \E e \in Entries : RecvInsert(s, e)
    BY SMTT(30), <2>5, InsertKeepsIInv
  <2> QED
    BY ZenonT(30), <1>2, <2>1, <2>2, <2>3, <2>4, <2>5 DEF Recv
<1>3. CASE DrainTimeout \/ TunnelChange
  <2>1. FlushPool /\ size' \in Sizes \cup {0} /\ optSize' \in Sizes \cup {0}
    BY SMTT(30), <1>3 DEF DrainTimeout, TunnelChange, IInv, TypeOK
  <2>2. out'.via = "flush"
    BY <2>1 DEF FlushPool, Inject
  <2> QED
    BY SMTT(30), <2>1, <2>2, FlushKeepsIInv
<1>4. ASSUME NEW n \in Sizes \cup {0}, NEW restart \in BOOLEAN, Reload(n, restart)
      PROVE  IInv' /\ out'.via # "ring"
  <2>1. out'.via \in {"flush", "none"}
    BY <1>4 DEF Reload, FlushPool, Inject
  <2> QED
    BY SMTT(30), <1>4, <2>1, ReloadKeepsIInv
<1> QED
  BY SMTT(30), <1>1, <1>2, <1>3, <1>4 DEF Next

LEMMA IInvHolds == Spec => []IInv
BY InitIInv, NextKeepsIInv, PTL DEF Spec

(* The variables of the receive side keep their types.                     *)
THEOREM TypeCorrect == Spec => []TypeOK
<1>1. IInv => TypeOK
  BY DEF IInv
<1> QED
  BY <1>1, IInvHolds, PTL

(* No packet that was received and not yet injected into tuntap is ever    *)
(* out of the reach of the next forced drain.                              *)
THEOREM NothingLost == Spec => []NoLoss
<1>1. IInv => NoLoss
  BY DEF IInv
<1> QED
  BY <1>1, IInvHolds, PTL

(* No packet waits while the drain timer is stopped.                       *)
THEOREM WaitIsTimed == Spec => []TimerCoversOwed
<1>1. IInv => TimerCoversOwed
  BY DEF IInv
<1> QED
  BY <1>1, IInvHolds, PTL

(* The ring points to used entries only, each inside the window, each      *)
(* sequence number once, and never holds the packet it is waiting for.     *)
THEOREM RingIsSound == Spec => []RingSound
<1>1. IInv => RingSound
  BY SMTT(30) DEF IInv
<1> QED
  BY <1>1, IInvHolds, PTL

(* mlvpn_reorder_drain never goes back: between two resets of the ring,    *)
(* each release comes after all the releases before it, across the point   *)
(* where the sequence numbers wrap.                                        *)
THEOREM OrderedRelease == Spec => InOrder
<1>1. ASSUME IInv, [Next]_vars
      PROVE  [out'.via = "ring" /\ last # NoPkt =>
                 \A s \in out'.pkts : After(last, s)]_vars
  BY <1>1, NextKeepsIInv
<1> QED
  BY <1>1, IInvHolds, PTL DEF Spec, InOrder
=============================================================================
