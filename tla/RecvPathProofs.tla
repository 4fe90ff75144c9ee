--------------------------- MODULE RecvPathProofs ---------------------------
(***************************************************************************)
(* The lists of the pool stay sound for every size, and where the sizes    *)
(* are powers of two RecvPath implements module Reorder: the steps of the  *)
(* handlers, from what module RingFacts says of the rings and the lists.   *)
(***************************************************************************)
EXTENDS RingFacts, TLAPS

-----------------------------------------------------------------------------
(* The inductive invariant.  Between two handlers the entries are split    *)
(* between the two lists, ready_buf is empty, and order_buf points to used *)
(* entries, to each at most once.                                          *)
Split(f, u) ==
    /\ IsListOf(f, Entries, Range(f)) /\ IsListOf(u, Entries, Range(u))
    /\ Range(f) \cap Range(u) = {} /\ Range(f) \cup Range(u) = Entries

Settled(b, U) ==
    \/ b = NewRing(0)
    \/ \E n \in Sizes : RingOK(b, n, U) /\ b.rhead = b.rtail

IInv ==
    /\ ~fatal
    /\ Split(free, used)
    /\ Settled(buf, Range(used))

LEMMA NewRingOK ==
    ASSUME RingFacts, NEW n \in Sizes, NEW U
    PROVE  RingOK(NewRing(n), n, U) /\ NewRing(n).rhead = NewRing(n).rtail
<1>1. n \in Nat \ {0} /\ Turn(n) \in 1 .. n /\ SeqSpace \in Nat /\ 8 * n <= SeqSpace
  BY Zenon DEF RingFacts, TurnFact
<1>2. 0 \in 0 .. n - 1 /\ 0 \in 0 .. Turn(n) - 1 /\ 0 \in Seqs
  BY SMT, <1>1 DEF Seqs
<1> DEFINE o == [i \in 0 .. n - 1 |-> NoPkt]
           b == NewRing(n)
<1>3. o \in [0 .. n - 1 -> Slots] /\ \A i \in 0 .. n - 1 : o[i] = NoPkt
  BY Zenon DEF Slots
<1>4. /\ b.order = o /\ b.ohead = 0 /\ b.rhead = 0 /\ b.rtail = 0
      /\ b \in Rings(n)
  <2> HIDE DEF o
  <2> QED
    BY Zenon, <1>2, <1>3 DEF NewRing, Rings, o
<1> HIDE DEF b, o
<1>5. RingOK(b, n, U)
  BY Zenon, <1>2, <1>3, <1>4 DEF RingOK
<1> QED
  BY Zenon, <1>4, <1>5 DEF b

LEMMA NoRing ==
    /\ NewRing(0).size = 0 /\ NewRing(0).rhead = NewRing(0).rtail
    /\ \A n \in Sizes : NewRing(n).size = n
BY Zenon DEF NewRing

LEMMA SettledSize ==
    ASSUME NEW b, NEW U, Settled(b, U)
    PROVE  b.size \in Sizes \cup {0} /\ b.rhead = b.rtail
<1>1. CASE b = NewRing(0)
  BY Zenon, <1>1, NoRing
<1>2. ASSUME NEW n \in Sizes, RingOK(b, n, U), b.rhead = b.rtail PROVE b.size \in Sizes
  BY Zenon, <1>2 DEF RingOK, Rings
<1> QED
  BY Zenon, <1>1, <1>2 DEF Settled

LEMMA SettledRing ==
    ASSUME NEW b, NEW U, Settled(b, U), b.size > 0
    PROVE  b.size \in Sizes /\ RingOK(b, b.size, U) /\ b.rhead = b.rtail
<1>1. b # NewRing(0)
  <2>1. ~(0 > 0)
    BY SMT
  <2> QED
    BY Zenon, <2>1, NoRing
<1>2. PICK n \in Sizes : RingOK(b, n, U) /\ b.rhead = b.rtail
  BY Zenon, <1>1 DEF Settled
<1>3. b.size = n
  BY Zenon, <1>2 DEF RingOK, Rings
<1> QED
  BY Zenon, <1>2, <1>3

LEMMA NewSettled ==
    ASSUME RingFacts, NEW n \in Sizes \cup {0}, NEW U
    PROVE  Settled(NewRing(n), U)
BY Zenon, NewRingOK DEF Settled

LEMMA Widen ==
    ASSUME NEW n \in Sizes, NEW b, NEW U, NEW W, RingOK(b, n, U),
           \A i \in 0 .. n - 1 : b.order[i] # NoPkt /\ b.order[i] \in U => b.order[i] \in W
    PROVE  RingOK(b, n, W)
BY Zenon DEF RingOK

(* What mlvpn_freebuffer_get does to the lists.                            *)
LEMMA GetOK ==
    ASSUME RingFacts, NEW f, NEW u, Split(f, u), f # <<>>
    PROVE  /\ Head(f) \in Entries /\ Head(f) \notin Range(u)
           /\ Split(Tail(f), Append(u, Head(f)))
           /\ Range(Append(u, Head(f))) = Range(u) \cup {Head(f)}
<1> DEFINE e == Head(f)
           t == Tail(f)
           v == Append(u, e)
<1>1. /\ f \in Seq(Entries) /\ IsInjective(f) /\ u \in Seq(Entries) /\ IsInjective(u)
      /\ Range(f) \cap Range(u) = {} /\ Range(f) \cup Range(u) = Entries
  BY Zenon DEF Split, IsListOf
<1>2. e \in Range(f) /\ e \in Entries /\ IsListOf(t, Entries, Range(f) \ {e})
  BY Zenon, <1>1 DEF RingFacts, TailOKFact
<1> HIDE DEF e, t
<1>3. e \notin Range(u)
  BY Zenon, <1>1, <1>2
<1>4. IsListOf(v, Entries, Range(u) \cup {e})
  BY Zenon, <1>1, <1>2, <1>3 DEF RingFacts, AppendFact
<1> HIDE DEF v
<1>5. Range(t) = Range(f) \ {e} /\ Range(v) = Range(u) \cup {e}
  BY Zenon, <1>2, <1>4 DEF IsListOf
<1>6. Range(t) \cap Range(v) = {} /\ Range(t) \cup Range(v) = Entries
  BY Zenon, <1>1, <1>2, <1>5
<1>7. Split(t, v)
  BY Zenon, <1>2, <1>4, <1>5, <1>6 DEF Split
<1> QED
  BY Zenon, <1>2, <1>3, <1>5, <1>7 DEF e, t, v

(* What mlvpn_freebuffer_free does to them for the entries of d.           *)
LEMMA PutBack ==
    ASSUME RingFacts, NEW f, NEW u, Split(f, u), NEW d \in Seq(Entries), IsInjective(d), Range(d) \subseteq Range(u)
    PROVE  IsListOf(Reversed(d) \o f, Entries, Range(d) \cup Range(f))
<1> DEFINE r == Reversed(d)
<1>1. f \in Seq(Entries) /\ IsInjective(f) /\ Range(f) \cap Range(u) = {}
  BY Zenon DEF Split, IsListOf
<1>2. IsListOf(r, Entries, Range(d))
  BY Zenon DEF RingFacts, ReversedOKFact
<1> HIDE DEF r
<1>3. r \in Seq(Entries) /\ IsInjective(r) /\ Range(r) = Range(d)
  BY Zenon, <1>2 DEF IsListOf
<1>4. Range(r) \cap Range(f) = {}
  BY Zenon, <1>1, <1>3
<1>5. IsListOf(r \o f, Entries, Range(r) \cup Range(f))
  BY Zenon, <1>1, <1>3, <1>4 DEF RingFacts, ConcatOKFact
<1> QED
  BY Zenon, <1>3, <1>5 DEF r

LEMMA FreeOK ==
    ASSUME RingFacts, NEW f, NEW u, Split(f, u), NEW d \in Seq(Entries), IsInjective(d), Range(d) \subseteq Range(u)
    PROVE  /\ Split(Reversed(d) \o f, Without(u, Range(d)))
           /\ Range(Without(u, Range(d))) = Range(u) \ Range(d)
<1> DEFINE g == Reversed(d) \o f
           v == Without(u, Range(d))
<1>1. /\ u \in Seq(Entries) /\ IsInjective(u)
      /\ Range(f) \cap Range(u) = {} /\ Range(f) \cup Range(u) = Entries
  BY Zenon DEF Split, IsListOf
<1>2. IsListOf(g, Entries, Range(d) \cup Range(f))
  BY Zenon, PutBack
<1>3. IsListOf(v, Entries, Range(u) \ Range(d))
  BY Zenon, <1>1 DEF RingFacts, WithoutOKFact
<1> HIDE DEF g, v
<1>4. Range(g) = Range(d) \cup Range(f) /\ Range(v) = Range(u) \ Range(d)
  BY Zenon, <1>2, <1>3 DEF IsListOf
<1>5. Range(g) \cap Range(v) = {} /\ Range(g) \cup Range(v) = Entries
  BY Zenon, <1>1, <1>4
<1> QED
  BY Zenon, <1>2, <1>3, <1>4, <1>5 DEF Split, g, v

LEMMA FlushOK ==
    ASSUME RingFacts, NEW f, NEW u, Split(f, u)
    PROVE  Split(Reversed(u) \o f, <<>>)
<1> DEFINE g == Reversed(u) \o f
<1>1. u \in Seq(Entries) /\ IsInjective(u) /\ Range(f) \cup Range(u) = Entries
  BY Zenon DEF Split, IsListOf
<1>2. IsListOf(g, Entries, Range(u) \cup Range(f))
  BY Zenon, <1>1, PutBack
<1> HIDE DEF g
<1>3. <<>> \in Seq(Entries) /\ Range(<<>>) = {} /\ IsInjective(<<>>)
  BY SMT DEF Range, IsInjective
<1>4. Range(g) = Entries /\ IsListOf(<<>>, Entries, Range(<<>>))
  BY Zenon, <1>1, <1>2, <1>3 DEF IsListOf
<1> QED
  BY Zenon, <1>2, <1>3, <1>4 DEF Split, IsListOf, g

-----------------------------------------------------------------------------
(* The two drains.                                                         *)

LEMMA ForcedDrainOK ==
    ASSUME RingFacts, NEW f, NEW u, NEW p, NEW b, NEW rec, Split(f, u), b.size \in Sizes \cup {0},
           ForcedDrain(f, u, p, b, rec)
    PROVE  Split(free', used') /\ Settled(buf', Range(used'))
<1>1. free' = Reversed(u) \o f /\ used' = <<>> /\ buf' = NewRing(b.size)
  BY Zenon DEF ForcedDrain
<1>2. Split(Reversed(u) \o f, <<>>)
  BY Zenon, FlushOK
<1> DEFINE U == Range(used')
           n == b.size
<1> HIDE DEF U, n
<1>3. Settled(NewRing(n), U)
  BY Zenon, NewSettled DEF n
<1> QED
  BY Zenon, <1>1, <1>2, <1>3 DEF U, n

LEMMA OrderedDrainOK ==
    ASSUME RingFacts, NEW f, NEW u, NEW p, NEW b, NEW rec, Split(f, u), NEW n \in Sizes,
           RingOK(b, n, Range(u)), WaitOK(b, n, Range(u)), OrderedDrain(f, u, p, b, rec)
    PROVE  ~fatal' /\ Split(free', used') /\ Settled(buf', Range(used'))
<1> DEFINE d == Drain(b).pkts
           q == Drain(b).ring
           U == Range(u)
           g == Reversed(d) \o f
           v == Without(u, Range(d))
<1>1. /\ free' = g /\ used' = v /\ buf' = q
      /\ fatal' = ~(Range(d) \subseteq U /\ IsInjective(d))
  BY Zenon DEF OrderedDrain
<1>2. U \in SUBSET Entries
  BY Zenon DEF Split
<1>3. /\ RingOK(q, n, U) /\ q.rhead = q.rtail /\ d \in Seq(Entries) /\ TakenOK(q, d, n, U)
  BY Zenon, <1>2 DEF RingFacts, DrainedOKFact
<1> HIDE DEF d, q
<1>4. /\ IsInjective(d) /\ Range(d) \subseteq U /\ \A i \in 0 .. n - 1 : q.order[i] \notin Range(d)
  BY Zenon, <1>3 DEF TakenOK
<1>5. Split(g, v) /\ Range(v) = U \ Range(d)
  BY ZenonT(30), <1>3, <1>4, FreeOK
<1> HIDE DEF U, g, v
<1>6. \A i \in 0 .. n - 1 : q.order[i] # NoPkt /\ q.order[i] \in U => q.order[i] \in Range(v)
  BY Zenon, <1>4, <1>5
<1>7. RingOK(q, n, Range(v))
  <2> DEFINE W == Range(v)
  <2> HIDE DEF W
  <2>1. \A i \in 0 .. n - 1 : q.order[i] # NoPkt /\ q.order[i] \in U => q.order[i] \in W
    BY Zenon, <1>6 DEF W
  <2>2. RingOK(q, n, W)
    BY Zenon, <1>3, <2>1, Widen
  <2> QED
    BY Zenon, <2>2 DEF W
<1>8. Settled(q, Range(v))
  BY Zenon, <1>3, <1>7 DEF Settled
<1> QED
  BY Zenon, <1>1, <1>4, <1>5, <1>8

-----------------------------------------------------------------------------
(* Every step keeps the invariant.                                         *)

LEMMA InitInvariant ==
    ASSUME RingFacts, Init
    PROVE  IInv
<1>1. free = Pool /\ used = <<>> /\ fatal = FALSE /\ buf = NewRing(optSize) /\ optSize \in Sizes \cup {0}
  BY Zenon DEF Init
<1>2. <<>> \in Seq(Entries) /\ Range(<<>>) = {} /\ IsInjective(<<>>)
  BY SMT DEF Range, IsInjective
<1>3. Split(Pool, <<>>)
  BY Zenon, <1>2, PoolAssumption DEF Split, IsListOf, Entries
<1>4. Settled(NewRing(optSize), Range(<<>>))
  <2> DEFINE U == Range(<<>>)
  <2> HIDE DEF U
  <2>1. Settled(NewRing(optSize), U)
    BY Zenon, <1>1, NewSettled
  <2> QED
    BY Zenon, <2>1 DEF U
<1> QED
  BY Zenon, <1>1, <1>3, <1>4 DEF IInv

LEMMA KeptInvariant ==
    ASSUME IInv, UNCHANGED buf, UNCHANGED free, UNCHANGED used, UNCHANGED fatal
    PROVE  IInv'
<1>1. ~fatal' /\ Split(free', used') /\ Settled(buf', Range(used'))
  BY Zenon DEF IInv
<1> QED
  BY Zenon, <1>1 DEF IInv

LEMMA RecvInsertedInvariant ==
    ASSUME RingFacts, IInv, NEW s \in Seqs, RecvInserted(s)
    PROVE  IInv'
<1> DEFINE e == Head(free)
           r == Insert(buf, e, s)
           n == buf.size
<1>1. Split(free, used) /\ Settled(buf, Range(used)) /\ buf.size > 0 /\ free # <<>>
  BY Zenon DEF IInv, RecvInserted
<1>2. n \in Sizes /\ RingOK(buf, n, Range(used)) /\ buf.rhead = buf.rtail
  BY Zenon, <1>1, SettledRing
<1>3. /\ e \in Entries /\ e \notin Range(used) /\ Split(Tail(free), GotUsed)
      /\ Range(GotUsed) = Range(used) \cup {e}
  BY Zenon, <1>1, GetOK DEF GotUsed
<1>4. r.ret = 0 /\ OrderedDrain(Tail(free), GotUsed, Copied(s), r.ring, {s})
  BY Zenon DEF RecvInserted
<1> HIDE DEF e, n
<1>5. r.ret = 0 => RingOK(r.ring, n, Range(used) \cup {e}) /\ WaitOK(r.ring, n, Range(used) \cup {e})
  BY Zenon, <1>2, <1>3 DEF RingFacts, InsertOKFact
<1> HIDE DEF r
<1>6. RingOK(r.ring, n, Range(GotUsed)) /\ WaitOK(r.ring, n, Range(GotUsed))
  BY Zenon, <1>3, <1>4, <1>5
<1>7. ~fatal' /\ Split(free', used') /\ Settled(buf', Range(used'))
  BY ZenonT(30), <1>2, <1>3, <1>4, <1>6, OrderedDrainOK
<1> QED
  BY Zenon, <1>7 DEF IInv

LEMMA RecvNoRoomInvariant ==
    ASSUME RingFacts, IInv, NEW s \in Seqs, RecvNoRoom(s)
    PROVE  IInv'
<1>1. Split(free, used) /\ Settled(buf, Range(used)) /\ free # <<>> /\ ~fatal
  BY Zenon DEF IInv, RecvNoRoom
<1>2. buf.size \in Sizes \cup {0}
  BY Zenon, <1>1, SettledSize
<1>3. Split(Tail(free), GotUsed)
  BY Zenon, <1>1, GetOK DEF GotUsed
<1>4. ForcedDrain(Tail(free), GotUsed, Copied(s), buf, {s}) /\ fatal' = fatal
  BY Zenon DEF RecvNoRoom
<1>5. Split(free', used') /\ Settled(buf', Range(used'))
  BY Zenon, <1>2, <1>3, <1>4, ForcedDrainOK
<1> QED
  BY Zenon, <1>1, <1>4, <1>5 DEF IInv

LEMMA RecvOutOfRangeInvariant ==
    ASSUME RingFacts, IInv, NEW s \in Seqs, RecvOutOfRange(s)
    PROVE  IInv'
<1> DEFINE e == Head(free)
           r == Insert(buf, e, s)
           n == buf.size
<1>1. Split(free, used) /\ Settled(buf, Range(used)) /\ buf.size > 0 /\ free # <<>> /\ ~fatal
  BY Zenon DEF IInv, RecvOutOfRange
<1>2. n \in Sizes /\ RingOK(buf, n, Range(used)) /\ buf.rhead = buf.rtail
  BY Zenon, <1>1, SettledRing
<1>3. /\ e \in Entries /\ e \notin Range(used) /\ Split(Tail(free), GotUsed)
      /\ Range(GotUsed) = Range(used) \cup {e}
  BY Zenon, <1>1, GetOK DEF GotUsed
<1>4. /\ r.ret = -2 /\ buf' = r.ring /\ free' = Tail(free) /\ used' = GotUsed
      /\ fatal' = fatal
  BY Zenon DEF RecvOutOfRange
<1> HIDE DEF e, n
<1>5. r.ret = -2 => RingOK(r.ring, n, Range(used)) /\ r.ring.rhead = r.ring.rtail
  BY SMT, <1>2, <1>3 DEF RingFacts, InsertOKFact
<1> DEFINE q == r.ring
           U == Range(used)
           W == Range(GotUsed)
<1>6. RingOK(q, n, U) /\ q.rhead = q.rtail /\ W = U \cup {e}
  BY Zenon, <1>3, <1>4, <1>5
<1> HIDE DEF q, U, W
<1>7. RingOK(q, n, W)
  BY Zenon, <1>2, <1>6, Widen
<1>8. Settled(q, W)
  BY Zenon, <1>2, <1>6, <1>7 DEF Settled
<1> QED
  BY Zenon, <1>1, <1>3, <1>4, <1>8 DEF IInv, q, W

LEMMA DrainInvariant ==
    ASSUME RingFacts, IInv, NEW b, NEW rec, b.size \in Sizes \cup {0},
           ForcedDrain(free, used, pkt, b, rec), UNCHANGED fatal
    PROVE  IInv'
<1>1. Split(free', used') /\ Settled(buf', Range(used'))
  BY Zenon, ForcedDrainOK DEF IInv
<1> QED
  BY Zenon, <1>1 DEF IInv

LEMMA ReloadInvariant ==
    ASSUME RingFacts, IInv, NEW n \in Sizes \cup {0}, NEW restart, Reload(n, restart)
    PROVE  IInv'
<1> DEFINE b == IF n = 0 THEN buf ELSE NewRing(n)
<1>1. Settled(b, Range(used))
  <2> DEFINE U == Range(used)
  <2>1. Settled(buf, U)
    BY Zenon DEF IInv
  <2> HIDE DEF U
  <2>2. Settled(NewRing(n), U)
    BY Zenon, NewSettled
  <2> QED
    BY Zenon, <2>1, <2>2 DEF U
<1>2. b.size \in Sizes \cup {0}
  BY Zenon, <1>1, SettledSize
<1>3. /\ UNCHANGED fatal
      /\ \/ ForcedDrain(free, used, pkt, b, {})
         \/ buf' = b /\ UNCHANGED <<free, used>>
  BY Zenon DEF Reload
<1> HIDE DEF b
<1>4. CASE ForcedDrain(free, used, pkt, b, {})
  BY Zenon, <1>2, <1>3, <1>4, DrainInvariant
<1>5. CASE buf' = b /\ UNCHANGED <<free, used>>
  BY Zenon, <1>1, <1>3, <1>5 DEF IInv
<1> QED
  BY Zenon, <1>3, <1>4, <1>5

LEMMA NextInvariant ==
    ASSUME RingFacts, IInv, [Next]_vars
    PROVE  IInv'
<1>1. ASSUME NEW s \in Sent, NEW reorder \in BOOLEAN, Recv(s, reorder) PROVE IInv'
  <2>1. s \in Seqs
    BY Zenon, SentAssumption
  <2>2. CASE RecvUnordered(s, reorder)
    BY Zenon, <2>2, KeptInvariant DEF RecvUnordered
  <2>3. CASE RecvPoolFull(s)
    BY Zenon, <2>3, KeptInvariant DEF RecvPoolFull
  <2>4. CASE RecvInserted(s)
    BY Zenon, <2>1, <2>4, RecvInsertedInvariant
  <2>5. CASE RecvNoRoom(s)
    BY ZenonT(30), <2>1, <2>5, RecvNoRoomInvariant
  <2>6. CASE RecvOutOfRange(s)
    BY Zenon, <2>1, <2>6, RecvOutOfRangeInvariant
  <2> QED
    BY ZenonT(30), <1>1, <2>2, <2>3, <2>4, <2>5, <2>6 DEF Recv
<1>2. buf.size \in Sizes \cup {0}
  <2> DEFINE U == Range(used)
  <2>1. Settled(buf, U)
    BY Zenon DEF IInv
  <2> HIDE DEF U
  <2> QED
    BY Zenon, <2>1, SettledSize
<1>3. CASE DrainTimeout
  BY Zenon, <1>2, <1>3, DrainInvariant DEF DrainTimeout
<1>4. CASE TunnelChange
  BY Zenon, <1>2, <1>4, DrainInvariant DEF TunnelChange
<1>5. ASSUME NEW n \in Sizes \cup {0}, NEW restart \in BOOLEAN, Reload(n, restart) PROVE IInv'
  BY Zenon, <1>5, ReloadInvariant
<1>6. CASE UNCHANGED vars
  BY Zenon, <1>6, KeptInvariant DEF vars
<1> QED
  BY Zenon, <1>1, <1>3, <1>4, <1>5, <1>6 DEF Next

LEMMA InvariantSound ==
    ASSUME RingFacts, IInv
    PROVE  NeverFatal /\ PoolSound
<1>1. /\ free \in Seq(Entries) /\ IsInjective(free) /\ used \in Seq(Entries) /\ IsInjective(used)
      /\ Range(free) \cap Range(used) = {} /\ Range(free) \cup Range(used) = Entries
      /\ ~fatal /\ Settled(buf, Range(used))
  BY Zenon DEF IInv, Split, IsListOf
<1>2. IsListOf(free \o used, Entries, Range(free) \cup Range(used))
  BY Zenon, <1>1 DEF RingFacts, ConcatOKFact
<1>3. buf.rhead = buf.rtail
  BY Zenon, <1>1, SettledSize
<1> QED
  BY Zenon, <1>1, <1>2, <1>3 DEF IsListOf, NeverFatal, PoolSound

LEMMA PoolAlways ==
    ASSUME RingFacts
    PROVE  Spec => [](NeverFatal /\ PoolSound)
<1>1. Init => IInv
  BY Zenon, InitInvariant
<1>2. IInv /\ [Next]_vars => IInv'
  BY Zenon, NextInvariant
<1>3. IInv => NeverFatal /\ PoolSound
  BY Zenon, InvariantSound
<1> QED
  BY <1>1, <1>2, <1>3, PTL DEF Spec

-----------------------------------------------------------------------------
(* The refinement, step by step.                                           *)

LEMMA RangeOf ==
    ASSUME NEW S, NEW q \in Seq(S)
    PROVE  Range(q) = {q[i] : i \in 1 .. Len(q)}
<1>1. DOMAIN q = 1 .. Len(q)
  BY SMT
<1> QED
  BY Zenon, <1>1 DEF Range

LEMMA RangeSingle ==
    ASSUME NEW s
    PROVE  Range(<<s>>) = {s}
<1>1. DOMAIN <<s>> = {1} /\ <<s>>[1] = s
  BY SMT
<1> QED
  BY Zenon, <1>1 DEF Range

LEMMA RangeEmpty == Range(<<>>) = {}
<1>1. DOMAIN <<>> = {}
  BY SMT
<1> QED
  BY Zenon, <1>1 DEF Range

LEMMA NewRingIs ==
    ASSUME NEW n
    PROVE  /\ NewRing(n).size = n /\ NewRing(n).init = FALSE /\ NewRing(n).min = 0
           /\ RingOf(NewRing(n)) = {} /\ NewRing(n).order = [i \in 0 .. n - 1 |-> NoPkt]
           /\ NewRing(n).ohead = 0
<1>1. /\ NewRing(n).size = n /\ NewRing(n).init = FALSE /\ NewRing(n).min = 0
      /\ NewRing(n).order = [i \in 0 .. n - 1 |-> NoPkt] /\ NewRing(n).ohead = 0
  BY Zenon DEF NewRing
<1> DEFINE o == [i \in 0 .. n - 1 |-> NoPkt]
<1>2. {o[i] : i \in DOMAIN o} \ {NoPkt} = {}
  BY Zenon
<1> QED
  BY Zenon, <1>1, <1>2 DEF RingOf

LEMMA InitRefines == Init => Window!Init
<1> SUFFICES ASSUME Init PROVE Window!Init
  OBVIOUS
<1>1. /\ buf.size = optSize /\ buf.init = FALSE /\ buf.min = 0 /\ RingOf(buf) = {}
  BY Zenon, NewRingIs DEF Init
<1>2. out.via = "none" /\ out.pkts = <<>>
  BY SMT DEF Init
<1>3. [via |-> out.via, pkts |-> Range(out.pkts)] = [via |-> "none", pkts |-> {}]
  BY Zenon, <1>2, RangeEmpty
<1> QED
  BY Zenon, <1>1, <1>3 DEF Init, Window!Init, RingOf

LEMMA UnorderedRefines ==
    ASSUME NEW s, NEW reorder, RecvUnordered(s, reorder)
    PROVE  Window!RecvUnordered(s, reorder)
<1>1. out'.via = "direct" /\ Range(out'.pkts) = {s} /\ owed' = (owed \cup {s}) \ {s}
  <2>1. out' = [via |-> "direct", pkts |-> <<s>>] /\ owed' = (owed \cup {s}) \ Range(<<s>>)
    BY Zenon DEF RecvUnordered, Inject
  <2>2. out'.via = "direct" /\ out'.pkts = <<s>>
    BY SMT, <2>1
  <2> QED
    BY Zenon, <2>1, <2>2, RangeSingle
<1> QED
  BY Zenon, <1>1 DEF RecvUnordered, Window!RecvUnordered, Window!Inject

LEMMA InjectRefines ==
    ASSUME NEW via, NEW q, NEW rec, Inject(via, q, rec)
    PROVE  Window!Inject(via, Range(q), rec)
<1>1. out' = [via |-> via, pkts |-> q] /\ owed' = (owed \cup rec) \ Range(q)
  BY Zenon DEF Inject
<1>2. out'.via = via /\ out'.pkts = q
  BY Zenon, <1>1
<1> QED
  BY Zenon, <1>1, <1>2 DEF Window!Inject

(* The used entries are those that hold a packet.                          *)
Holds(p, u) ==
    /\ p \in [Entries -> Seqs \cup {NoPkt}]
    /\ \A e \in Entries : p[e] # NoPkt <=> e \in Range(u)

LEMMA UsedIs ==
    ASSUME NEW p, NEW u \in Seq(Entries), Holds(p, u)
    PROVE  Window!Used(p) = Range(u)
<1>1. Range(u) \subseteq Entries
  <2>1. \A i \in DOMAIN u : u[i] \in Entries
    BY SMT
  <2> QED
    BY Zenon, <2>1 DEF Range
<1> QED
  BY Zenon, <1>1 DEF Holds, Window!Used

(* An empty ring holds nothing.                                            *)
PlacedIn(b, p) ==
    b.size > 0 =>
       /\ SlotsOK(b, b.size, RingOf(b), Ahead(b.min, p), 0)
       /\ AtHead(b) = NoPkt
       /\ ~b.init => RingOf(b) = {}

LEMMA NewPlaced ==
    ASSUME NEW n \in Sizes \cup {0}, NEW p
    PROVE  PlacedIn(NewRing(n), p)
<1> DEFINE b == NewRing(n)
<1>1. /\ b.size = n /\ RingOf(b) = {} /\ b.order = [i \in 0 .. n - 1 |-> NoPkt]
      /\ b.ohead = 0
  BY Zenon, NewRingIs
<1> HIDE DEF b
<1>2. CASE n > 0
  <2>1. n \in Nat \ {0} /\ 0 \in 0 .. n - 1
    BY SMT, <1>2, SizesAssumption
  <2>2. \A i \in 0 .. n - 1 : b.order[i] = NoPkt
    BY Zenon, <1>1
  <2>3. AtHead(b) = NoPkt
    BY Zenon, <1>1, <2>1, <2>2 DEF AtHead
  <2>4. SlotsOK(b, n, {}, Ahead(b.min, p), 0)
    BY Zenon, <2>2 DEF SlotsOK
  <2> QED
    BY Zenon, <1>1, <2>3, <2>4 DEF PlacedIn, b
<1> QED
  BY Zenon, <1>1, <1>2 DEF PlacedIn, b

(* The invariant: between two handlers each packet is where its distance   *)
(* says, and the place of the next one is empty.                           *)
RInv == IInv /\ Holds(pkt, used) /\ PlacedIn(buf, pkt)

(* mlvpn_rtun_reorder_drain(0).                                            *)
IsFlush(p, u, n, rec) ==
    /\ Window!Inject("flush", Window!Packets(p, Range(u)), rec)
    /\ pkt' = [e \in Entries |-> NoPkt]
    /\ timer' = FALSE
    /\ Window!ResetRing
    /\ buf'.size = n

LEMMA FlushRefines ==
    ASSUME NEW f, NEW u \in Seq(Entries), NEW p, NEW b, NEW rec, ForcedDrain(f, u, p, b, rec)
    PROVE  IsFlush(p, u, b.size, rec)
<1> DEFINE q == [i \in 1 .. Len(u) |-> p[u[i]]]
<1>1. /\ Inject("flush", q, rec) /\ pkt' = [e \in Entries |-> NoPkt]
      /\ buf' = NewRing(b.size) /\ timer' = FALSE /\ last' = NoPkt
  BY Zenon DEF ForcedDrain
<1>2. Range(q) = {p[e] : e \in Range(u)}
  <2>1. Range(q) = {p[u[i]] : i \in 1 .. Len(u)}
    BY Zenon DEF Range
  <2>2. Range(u) = {u[i] : i \in 1 .. Len(u)}
    BY Zenon, RangeOf
  <2> QED
    BY Zenon, <2>1, <2>2
<1> HIDE DEF q
<1>3. Window!Inject("flush", Range(q), rec)
  BY Zenon, <1>1, InjectRefines
<1>4. buf'.size = b.size /\ buf'.init = FALSE /\ buf'.min = 0 /\ RingOf(buf') = {}
  BY Zenon, <1>1, NewRingIs
<1>5. Window!ResetRing
  BY Zenon, <1>1, <1>4 DEF Window!ResetRing, RingOf
<1> QED
  BY Zenon, <1>1, <1>2, <1>3, <1>4, <1>5 DEF IsFlush, Window!Packets

LEMMA FlushKeeps ==
    ASSUME NEW f, NEW u, NEW p, NEW b, b.size \in Sizes \cup {0}, NEW rec, ForcedDrain(f, u, p, b, rec)
    PROVE  Holds(pkt', used') /\ PlacedIn(buf', pkt')
<1>1. /\ used' = <<>> /\ pkt' = [e \in Entries |-> NoPkt] /\ buf' = NewRing(b.size)
  BY Zenon DEF ForcedDrain
<1>2. Range(used') = {}
  BY Zenon, <1>1, RangeEmpty
<1>3. Holds(pkt', used')
  <2>1. pkt' \in [Entries -> Seqs \cup {NoPkt}]
    BY Zenon, <1>1
  <2> QED
    BY Zenon, <1>1, <1>2, <2>1 DEF Holds
<1> QED
  BY Zenon, <1>1, <1>3, NewPlaced

(* What mlvpn_reorder_insert meets.                                        *)
AheadWith(s) == Ahead(BaseOf(buf, s), Copied(s))

Meets(s) ==
    /\ buf.size \in Sizes /\ Head(free) \in Entries /\ Head(free) \notin Range(used)
    /\ pkt[Head(free)] = NoPkt /\ RingOf(buf) \in SUBSET Entries /\ BaseOf(buf, s) \in Seqs
    /\ \A f \in RingOf(buf) : f \in Range(used) /\ pkt[f] \in Seqs
    /\ Ready(buf, buf.size, Range(used), RingOf(buf), AheadWith(s), Head(free), s)

LEMMA MeetsNow ==
    ASSUME RingFacts, PowersOfTwo, RInv, buf.size > 0, free # <<>>, NEW s \in Seqs
    PROVE  Meets(s)
<1> DEFINE n == buf.size
           e == Head(free)
           U == Range(used)
           K == RingOf(buf)
           base == BaseOf(buf, s)
           P == AheadWith(s)
           Q == Ahead(buf.min, pkt)
<1>1. /\ Split(free, used) /\ Settled(buf, U) /\ Holds(pkt, used)
      /\ SlotsOK(buf, n, K, Q, 0) /\ AtHead(buf) = NoPkt /\ (~buf.init => K = {})
  BY Zenon DEF RInv, IInv, PlacedIn
<1>2. n \in Sizes /\ RingOK(buf, n, U) /\ buf.rhead = buf.rtail
  BY Zenon, <1>1, SettledRing
<1>3. e \in Entries /\ e \notin U
  BY Zenon, <1>1, GetOK
<1>4. U \subseteq Entries /\ pkt \in [Entries -> Seqs \cup {NoPkt}] /\ \A f \in Entries : pkt[f] # NoPkt <=> f \in U
  BY Zenon, <1>1 DEF Split, Holds
<1>5. /\ buf \in Rings(n) /\ buf.order \in [0 .. n - 1 -> Slots] /\ buf.ohead \in 0 .. n - 1 /\ buf.min \in Seqs
      /\ \A i \in 0 .. n - 1 : buf.order[i] # NoPkt => buf.order[i] \in U
  BY Zenon, <1>2 DEF RingOK, Rings
<1>6. n \in Nat \ {0}
  BY Zenon, <1>2 DEF RingFacts, SizeFact
<1>7. base \in Seqs
  BY Zenon, <1>2 DEF RingFacts, InsertIsFact
<1>8. \A f \in K : f # NoPkt /\ \E i \in 0 .. n - 1 : buf.order[i] = f
  BY Zenon, <1>5 DEF RingOf
<1> HIDE DEF n, e, U, K
<1>9. \A f \in K : f \in U /\ pkt[f] \in Seqs /\ f # e
  <2>1. K \subseteq U
    BY Zenon, <1>5, <1>8
  <2> QED
    BY Zenon, <1>3, <1>4, <2>1
<1>10. \A f \in K : P[f] = Q[f]
  <2> SUFFICES ASSUME NEW f \in K PROVE P[f] = Q[f]
    OBVIOUS
  <2>1. buf.init
    BY Zenon, <1>1
  <2>2. f \in Entries /\ f # e
    BY Zenon, <1>4, <1>9
  <2>3. P[f] = Window!Dist(base, Copied(s)[f]) /\ Q[f] = Window!Dist(buf.min, pkt[f])
    BY Zenon, <2>2 DEF AheadWith, Ahead
  <2>4. Copied(s)[f] = pkt[f]
    BY Zenon, <1>4, <2>2 DEF Copied, e
  <2> QED
    BY Zenon, <2>1, <2>3, <2>4 DEF BaseOf
<1>11. P[e] = Window!Dist(base, s)
  <2>1. Copied(s)[e] = s
    BY Zenon, <1>3, <1>4 DEF Copied, e
  <2> QED
    BY Zenon, <1>3, <2>1 DEF AheadWith, Ahead
<1> HIDE DEF P, Q
<1>12. SlotsOK(buf, n, K, P, 0)
  <2>1. /\ \A i \in 0 .. n - 1 : buf.order[i] # NoPkt =>
              buf.order[i] \in K /\ Q[buf.order[i]] = 0 + Gap(n, buf.ohead, i)
        /\ \A f \in K : Q[f] >= 0 => \E i \in 0 .. n - 1 : buf.order[i] = f
    BY Zenon, <1>1 DEF SlotsOK
  <2> QED
    BY Zenon, <1>10, <2>1 DEF SlotsOK
<1>13. \A f \in K : P[f] \in 1 .. n - 1
  <2> SUFFICES ASSUME NEW f \in K PROVE P[f] \in 1 .. n - 1
    OBVIOUS
  <2>1. PICK i \in 0 .. n - 1 : buf.order[i] = f
    BY Zenon, <1>8
  <2>2. P[f] = 0 + Gap(n, buf.ohead, i)
    BY Zenon, <1>8, <1>12, <2>1 DEF SlotsOK
  <2>3. i # buf.ohead
    BY Zenon, <1>1, <1>8, <2>1 DEF AtHead
  <2> DEFINE h == buf.ohead
  <2>4. h \in 0 .. n - 1 /\ i # h /\ P[f] = 0 + Gap(n, h, i)
    BY Zenon, <1>5, <2>2, <2>3 DEF n
  <2> HIDE DEF h
  <2> QED
    BY SMT, <1>6, <2>4 DEF Gap
<1>14. Ready(buf, n, U, K, P, e, s)
  BY Zenon, <1>2, <1>9, <1>11, <1>12, <1>13 DEF Ready, n, U
<1> QED
  BY Zenon, <1>2, <1>3, <1>4, <1>7, <1>9, <1>14 DEF Meets, n, e, U, K, P

ForcedBy(n, d) == IF d < n THEN 0 ELSE d + 1 - n

(* What mlvpn_reorder_insert returns, r, of a packet d places ahead.       *)
Returns(r, n, K, P, base, d, q) ==
    /\ r.ret = 0 =>
          /\ d < 2 * n /\ ~(n = 1 /\ d = 1)
          /\ \E a \in Nat : IsInserted(r.ring, n, K, P, ForcedBy(n, d), a, base)
    /\ r.ret = -1 => n = 1 /\ d = 1
    /\ r.ret = -2 => d >= 2 * n /\ r.ring = q

LEMMA InsertReturns ==
    ASSUME RingFacts, PowersOfTwo, NEW s \in Seqs, Meets(s)
    PROVE  Returns(Insert(buf, Head(free), s), buf.size, Kept(RingOf(buf), AheadWith(s), Head(free)),
                   AheadWith(s), BaseOf(buf, s), Window!Dist(BaseOf(buf, s), s), Based(buf, s))
<1> DEFINE n == buf.size
           e == Head(free)
           U == Range(used)
           K == RingOf(buf)
           base == BaseOf(buf, s)
           P == AheadWith(s)
           d == Window!Dist(base, s)
           r == Insert(buf, e, s)
           q == Based(buf, s)
<1>1. n \in Sizes /\ e \in Entries /\ K \in SUBSET Entries /\ Ready(buf, n, U, K, P, e, s)
  BY Zenon DEF Meets
<1>2. n \in Nat \ {0} /\ SeqSpace \in Nat
  BY Zenon, <1>1 DEF RingFacts, SizeFact
<1>3. RingOK(buf, n, U) /\ buf.rhead = buf.rtail /\ P[e] = d
  BY Zenon, <1>1 DEF Ready
<1>4. d \in Seqs
  BY Zenon, <1>1, <1>3 DEF RingFacts, InsertIsFact
<1>5. d \in Nat
  BY SMT, <1>2, <1>4 DEF Seqs
<1> HIDE DEF n, e, U, K, P
<1>6. 0 # -1 /\ 0 # -2 /\ -1 # -2
  OBVIOUS
<1>7. CASE d < n
  <2>1. r.ret = 0 /\ IsInserted(r.ring, n, Kept(K, P, e), P, 0, 0, base)
    BY Zenon, <1>1, <1>3, <1>7 DEF RingFacts, InsertNearFact
  <2>2. d < 2 * n /\ ~(n = 1 /\ d = 1)
    <3> HIDE DEF d
    <3> QED
      BY SMT, <1>2, <1>5, <1>7
  <2>3. ForcedBy(n, d) = 0
    BY Zenon, <1>7 DEF ForcedBy
  <2> HIDE DEF r, d, base
  <2> QED
    BY Zenon, <1>6, <2>1, <2>2, <2>3 DEF Returns, r, d, base, n, e, K, P
<1>8. CASE d >= 2 * n
  <2>1. r = [ring |-> q, ret |-> -2]
    BY SMT, <1>1, <1>3, <1>8 DEF RingFacts, InsertFarFact
  <2> HIDE DEF r, d, q
  <2>2. r.ret = -2 /\ r.ring = q
    BY Zenon, <2>1
  <2> QED
    BY Zenon, <1>6, <1>8, <2>2 DEF Returns, r, d, q, n, e
<1>9. CASE d \in n .. 2 * n - 1 /\ n # 1
  <2>1. /\ r.ret = 0
        /\ \E a \in Nat : IsInserted(r.ring, n, Kept(K, P, e), P, P[e] + 1 - n, a, base)
    BY Zenon, <1>1, <1>3, <1>9 DEF RingFacts, InsertOverFact
  <2> HIDE DEF r, d, base
  <2>2. d < 2 * n /\ ~(n = 1 /\ d = 1) /\ ~(d < n)
    BY SMT, <1>2, <1>5, <1>9
  <2>3. ForcedBy(n, d) = P[e] + 1 - n
    BY Zenon, <1>3, <2>2 DEF ForcedBy
  <2> QED
    BY Zenon, <1>6, <2>1, <2>2, <2>3 DEF Returns, r, d, base, n, e, K, P
<1>10. CASE d \in n .. 2 * n - 1 /\ n = 1
  <2>1. d = 1 /\ n < 2
    BY SMT, <1>5, <1>10
  <2>2. P[e] = 1
    BY Zenon, <1>3, <2>1
  <2>3. r.ret = -1
    BY Zenon, <1>1, <2>1, <2>2 DEF RingFacts, InsertNoRoomFact
  <2> HIDE DEF r, d
  <2> QED
    BY Zenon, <1>6, <1>10, <2>1, <2>3 DEF Returns, r, d, n, e
<1>11. d < n \/ d >= 2 * n \/ d \in n .. 2 * n - 1
  <2> HIDE DEF d
  <2> QED
    BY SMT, <1>2, <1>5
<1> QED
  BY Zenon, <1>7, <1>8, <1>9, <1>10, <1>11

LEMMA PoolFullRefines ==
    ASSUME RInv, NEW s, RecvPoolFull(s)
    PROVE  Window!RecvPoolFull(s)
<1>1. Split(free, used) /\ Holds(pkt, used) /\ free = <<>>
  BY Zenon DEF RInv, IInv, RecvPoolFull
<1>2. used \in Seq(Entries) /\ Range(used) = Entries
  <2>1. Range(free) = {}
    BY Zenon, <1>1, RangeEmpty
  <2> QED
    BY Zenon, <1>1, <2>1 DEF Split, IsListOf
<1>3. Window!Used(pkt) = Entries
  BY Zenon, <1>1, <1>2, UsedIs
<1>4. Window!Inject("direct", Range(<<s>>), {s})
  <2>1. Inject("direct", <<s>>, {s})
    BY Zenon DEF RecvPoolFull
  <2> DEFINE q == <<s>>
             rec == {s}
             via == "direct"
  <2> HIDE DEF q, rec, via
  <2>2. Inject(via, q, rec)
    BY Zenon, <2>1 DEF q, rec, via
  <2>3. Window!Inject(via, Range(q), rec)
    BY Zenon, <2>2, InjectRefines
  <2> QED
    BY Zenon, <2>3 DEF q, rec, via
<1>5. Window!Inject("direct", {s}, {s})
  BY Zenon, <1>4, RangeSingle
<1> QED
  BY Zenon, <1>3, <1>5 DEF RecvPoolFull, Window!RecvPoolFull

(* The packets and the used list after mlvpn_freebuffer_get and the copy.  *)
LEMMA CopiedHolds ==
    ASSUME RingFacts, RInv, free # <<>>, NEW s \in Seqs
    PROVE  /\ Holds(Copied(s), GotUsed) /\ Split(Tail(free), GotUsed)
           /\ GotUsed \in Seq(Entries) /\ Range(GotUsed) = Range(used) \cup {Head(free)}
           /\ Head(free) \in Entries /\ Copied(s)[Head(free)] = s
           /\ \A f \in Entries : f # Head(free) => Copied(s)[f] = pkt[f]
<1> DEFINE e == Head(free)
           u == GotUsed
<1>1. Split(free, used) /\ Holds(pkt, used)
  BY Zenon DEF RInv, IInv
<1>2. /\ e \in Entries /\ e \notin Range(used) /\ Split(Tail(free), u)
      /\ Range(u) = Range(used) \cup {e}
  BY Zenon, <1>1, GetOK DEF GotUsed
<1>3. u \in Seq(Entries)
  BY Zenon, <1>2 DEF Split, IsListOf
<1>4. pkt \in [Entries -> Seqs \cup {NoPkt}] /\ \A f \in Entries : pkt[f] # NoPkt <=> f \in Range(used)
  BY Zenon, <1>1 DEF Holds
<1> HIDE DEF e, u
<1>5. Copied(s) = [pkt EXCEPT ![e] = s]
  BY Zenon DEF Copied, e
<1> DEFINE h == Copied(s)
<1> HIDE DEF h
<1>6. /\ h \in [Entries -> Seqs \cup {NoPkt}] /\ h[e] = s
      /\ \A f \in Entries : f # e => h[f] = pkt[f]
  BY Zenon, <1>2, <1>4, <1>5 DEF h
<1>7. s # NoPkt
  BY Zenon, SentAssumption
<1>8. Holds(h, u)
  BY Zenon, <1>2, <1>4, <1>6, <1>7 DEF Holds
<1> QED
  BY Zenon, <1>2, <1>3, <1>6, <1>8 DEF e, u, h

LEMMA NoRoomRefines ==
    ASSUME RingFacts, PowersOfTwo, RInv, NEW s \in Seqs, RecvNoRoom(s)
    PROVE  /\ Head(free) \in Entries /\ Window!RecvNoRoom(s, Head(free))
           /\ Holds(pkt', used') /\ PlacedIn(buf', pkt')
<1> DEFINE e == Head(free)
           h == Copied(s)
           u == GotUsed
           rec == {s}
<1>1. /\ buf.size > 0 /\ free # <<>> /\ Insert(buf, Head(free), s).ret = -1
      /\ ForcedDrain(Tail(free), u, h, buf, rec) /\ UNCHANGED optSize
  BY Zenon DEF RecvNoRoom
<1>2. Meets(s)
  BY Zenon, <1>1, MeetsNow
<1>3. buf.size \in Sizes /\ e \in Entries /\ pkt[e] = NoPkt
  BY Zenon, <1>2 DEF Meets
<1>4. buf.size = 1 /\ Window!Dist(BaseOf(buf, s), s) = 1
  BY Zenon, <1>1, <1>2, InsertReturns DEF Returns
<1>5. /\ Holds(h, u) /\ u \in Seq(Entries) /\ Range(u) = Range(used) \cup {e}
      /\ h[e] = s /\ \A f \in Entries : f # e => h[f] = pkt[f]
  BY Zenon, <1>1, CopiedHolds
<1>6. used \in Seq(Entries) /\ Range(used) \subseteq Entries /\ Holds(pkt, used) /\ e \notin Range(used)
  BY Zenon, <1>2 DEF RInv, IInv, Split, IsListOf, Meets
<1>7. Window!Used(pkt) = Range(used)
  BY Zenon, <1>6, UsedIs
<1> HIDE DEF h, u, rec, e
<1>8. IsFlush(h, u, buf.size, rec)
  BY Zenon, <1>1, <1>5, FlushRefines
<1>9. Window!Packets(h, Range(u)) = Window!Packets(pkt, Range(used)) \cup {s}
  <2>1. \A f \in Range(used) : h[f] = pkt[f]
    BY Zenon, <1>5, <1>6
  <2>2. {h[f] : f \in Range(u)} = {pkt[f] : f \in Range(used)} \cup {s}
    <3> DEFINE D == Range(used)
    <3>1. Range(u) = D \cup {e} /\ h[e] = s /\ \A f \in D : h[f] = pkt[f]
      BY Zenon, <1>5, <2>1
    <3> HIDE DEF D
    <3>2. {h[f] : f \in D \cup {e}} = {pkt[f] : f \in D} \cup {s}
      BY SMT, <3>1
    <3> QED
      BY Zenon, <3>1, <3>2 DEF D
  <2> QED
    BY Zenon, <2>2 DEF Window!Packets
<1>10. Window!NoRoom(Window!Dist(Window!Base(s), s))
  BY Zenon, <1>4 DEF Window!NoRoom, Window!Base, BaseOf
<1>11. Window!RecvNoRoom(s, e)
  BY Zenon, <1>1, <1>3, <1>7, <1>8, <1>9, <1>10 DEF IsFlush, Window!RecvNoRoom, rec
<1>12. Holds(pkt', used') /\ PlacedIn(buf', pkt')
  BY Zenon, <1>1, <1>3, FlushKeeps
<1> QED
  BY Zenon, <1>3, <1>11, <1>12 DEF e

LEMMA OutOfRangeRefines ==
    ASSUME RingFacts, PowersOfTwo, RInv, NEW s \in Seqs, RecvOutOfRange(s)
    PROVE  /\ Head(free) \in Entries /\ Window!RecvOutOfRange(s, Head(free))
           /\ Holds(pkt', used') /\ PlacedIn(buf', pkt')
<1> DEFINE e == Head(free)
           n == buf.size
           d == Window!Dist(BaseOf(buf, s), s)
           r == Insert(buf, e, s)
<1>1. /\ n > 0 /\ free # <<>> /\ r.ret = -2 /\ buf' = r.ring
      /\ used' = GotUsed /\ pkt' = Copied(s) /\ Inject("direct", <<s>>, {s})
      /\ UNCHANGED optSize /\ UNCHANGED timer /\ UNCHANGED last
  BY Zenon DEF RecvOutOfRange
<1>2. Meets(s)
  BY Zenon, <1>1, MeetsNow
<1>3. /\ n \in Sizes /\ e \in Entries /\ pkt[e] = NoPkt
      /\ SlotsOK(buf, n, RingOf(buf), AheadWith(s), 0)
  BY Zenon, <1>2 DEF Meets, Ready
<1>4. d >= 2 * n /\ r.ring = Based(buf, s)
  BY Zenon, <1>1, <1>2, InsertReturns DEF Returns
<1>5. buf.init
  <2> SUFFICES ASSUME ~buf.init PROVE FALSE
    OBVIOUS
  <2>1. Window!Dist(s, s) >= 2 * n
    BY Zenon, <1>4 DEF BaseOf
  <2>2. n \in Nat \ {0} /\ SeqSpace \in Nat
    BY Zenon, <1>3 DEF RingFacts, SizeFact
  <2> HIDE DEF n
  <2> QED
    BY SMT, <2>1, <2>2 DEF Window!Dist, Seqs
<1>6. buf' = buf
  BY Zenon, <1>1, <1>4, <1>5 DEF Based
<1>7. Window!Inject("direct", {s}, {s})
  <2> DEFINE q == <<s>>
             rec == {s}
             via == "direct"
  <2> HIDE DEF q, rec, via
  <2>1. Inject(via, q, rec)
    BY Zenon, <1>1 DEF q, rec, via
  <2>2. Window!Inject(via, Range(q), rec)
    BY Zenon, <2>1, InjectRefines
  <2> QED
    BY Zenon, <2>2, RangeSingle DEF q, rec, via
<1>8. Window!RecvOutOfRange(s, e)
  <2>1. Window!Dist(Window!Base(s), s) >= 2 * buf.size
    BY Zenon, <1>4 DEF Window!Base, BaseOf
  <2>2. pkt' = [pkt EXCEPT ![e] = s]
    BY Zenon, <1>1 DEF Copied
  <2> HIDE DEF e
  <2> QED
    BY Zenon, <1>1, <1>3, <1>6, <1>7, <2>1, <2>2 DEF Window!RecvOutOfRange
<1>9. Holds(pkt', used')
  BY Zenon, <1>1, CopiedHolds
<1>10. PlacedIn(buf', pkt')
  <2>1. AheadWith(s) = Ahead(buf.min, Copied(s))
    BY Zenon, <1>5 DEF AheadWith, BaseOf
  <2>2. PlacedIn(buf, Copied(s))
    BY Zenon, <1>3, <1>5, <2>1, <1>1 DEF RInv, PlacedIn
  <2> QED
    BY Zenon, <1>1, <1>6, <2>2
<1> QED
  BY Zenon, <1>3, <1>8, <1>9, <1>10

(* The steps that only flush.                                              *)
LEMMA DrainRefines ==
    ASSUME RInv, NEW b, b.size \in Sizes \cup {0}, ForcedDrain(free, used, pkt, b, {})
    PROVE  /\ Window!FlushPool /\ buf'.size = b.size
           /\ Holds(pkt', used') /\ PlacedIn(buf', pkt')
<1> DEFINE rec == {}
<1> HIDE DEF rec
<1>1. ForcedDrain(free, used, pkt, b, rec)
  BY Zenon DEF rec
<1>2. used \in Seq(Entries) /\ Holds(pkt, used)
  BY Zenon DEF RInv, IInv, Split, IsListOf
<1>3. Window!Used(pkt) = Range(used)
  BY Zenon, <1>2, UsedIs
<1>4. IsFlush(pkt, used, b.size, rec)
  BY Zenon, <1>1, <1>2, FlushRefines
<1>5. Holds(pkt', used') /\ PlacedIn(buf', pkt')
  BY Zenon, <1>1, FlushKeeps
<1>6. Window!FlushPool
  BY Zenon, <1>3, <1>4 DEF IsFlush, Window!FlushPool, rec
<1> QED
  BY Zenon, <1>4, <1>5, <1>6 DEF IsFlush

LEMMA TimeoutRefines ==
    ASSUME RInv, DrainTimeout
    PROVE  Window!DrainTimeout /\ Holds(pkt', used') /\ PlacedIn(buf', pkt')
<1>1. buf.size \in Sizes \cup {0}
  BY Zenon, SettledSize DEF RInv, IInv
<1> QED
  BY Zenon, <1>1, DrainRefines DEF DrainTimeout, Window!DrainTimeout

LEMMA TunnelChangeRefines ==
    ASSUME RInv, TunnelChange
    PROVE  Window!TunnelChange /\ Holds(pkt', used') /\ PlacedIn(buf', pkt')
<1>1. buf.size \in Sizes \cup {0}
  BY Zenon, SettledSize DEF RInv, IInv
<1> QED
  BY Zenon, <1>1, DrainRefines DEF TunnelChange, Window!TunnelChange

LEMMA ReloadRefines ==
    ASSUME RInv, NEW n \in Sizes \cup {0}, NEW restart \in BOOLEAN, Reload(n, restart)
    PROVE  Window!Reload(n, restart) /\ Holds(pkt', used') /\ PlacedIn(buf', pkt')
<1> DEFINE b == IF n = 0 THEN buf ELSE NewRing(n)
<1>1. n # optSize /\ optSize' = n
  BY Zenon DEF Reload
<1>2. b.size = (IF n = 0 THEN buf.size ELSE n) /\ b.size \in Sizes \cup {0}
  <2>1. buf.size \in Sizes \cup {0}
    BY Zenon, SettledSize DEF RInv, IInv
  <2> QED
    BY Zenon, <2>1, NewRingIs
<1>3. CASE restart /\ b.size > 0
  <2>1. ForcedDrain(free, used, pkt, b, {})
    BY Zenon, <1>3 DEF Reload
  <2> HIDE DEF b
  <2>2. /\ Window!FlushPool /\ buf'.size = b.size
        /\ Holds(pkt', used') /\ PlacedIn(buf', pkt')
    BY Zenon, <1>2, <2>1, DrainRefines
  <2> QED
    BY Zenon, <1>1, <1>2, <1>3, <2>2 DEF Window!Reload
<1>4. CASE ~(restart /\ b.size > 0)
  <2>1. /\ buf' = b /\ last' = (IF n = 0 THEN last ELSE NoPkt) /\ Inject("none", <<>>, {})
        /\ pkt' = pkt /\ used' = used /\ timer' = timer
    BY Zenon, <1>4 DEF Reload
  <2>2. Window!Inject("none", {}, {})
    <3> DEFINE q == <<>>
               rec == {}
               via == "none"
    <3> HIDE DEF q, rec, via
    <3>1. Inject(via, q, rec)
      BY Zenon, <2>1 DEF q, rec, via
    <3>2. Window!Inject(via, Range(q), rec)
      BY Zenon, <3>1, InjectRefines
    <3>3. Range(q) = {}
      BY Zenon, RangeEmpty DEF q
    <3>4. Window!Inject(via, {}, rec)
      BY Zenon, <3>2, <3>3
    <3> QED
      BY Zenon, <3>4 DEF rec, via
  <2>3. CASE n = 0
    <3>1. buf' = buf /\ last' = last
      BY Zenon, <2>1, <2>3
    <3>2. Window!Reload(n, restart)
      BY Zenon, <1>1, <1>2, <1>4, <2>1, <2>2, <2>3, <3>1 DEF Window!Reload
    <3>3. Holds(pkt', used') /\ PlacedIn(buf', pkt')
      BY Zenon, <2>1, <3>1 DEF RInv
    <3> QED
      BY Zenon, <3>2, <3>3
  <2>4. CASE n # 0
    <3>1. buf' = NewRing(n) /\ last' = NoPkt
      BY Zenon, <2>1, <2>4
    <3>2. /\ buf'.size = n /\ buf'.init = FALSE /\ buf'.min = 0 /\ RingOf(buf') = {}
      BY Zenon, <3>1, NewRingIs
    <3>3. Window!ResetRing
      BY Zenon, <3>1, <3>2 DEF Window!ResetRing, RingOf
    <3>4. b.size = n
      BY Zenon, <1>2, <2>4
    <3>5. Window!Reload(n, restart)
      BY Zenon, <1>1, <1>4, <2>1, <2>2, <2>4, <3>2, <3>3, <3>4 DEF Window!Reload
    <3>6. Holds(pkt', used')
      BY Zenon, <2>1 DEF RInv
    <3>7. PlacedIn(buf', pkt')
      BY Zenon, <3>1, NewPlaced
    <3> QED
      BY Zenon, <3>5, <3>6, <3>7
  <2> QED
    BY Zenon, <2>3, <2>4
<1> QED
  BY Zenon, <1>3, <1>4

(* The packets that are passed leave the window, from the nearest to the   *)
(* farthest; the others stay.                                              *)
IsPassed(q, pkts, K, P, a) ==
    /\ Range(pkts) = {f \in K : P[f] < a}
    /\ RingOf(q) = K \ Range(pkts)
    /\ \A f \in K : P[f] # a
    /\ pkts # <<>> => /\ pkts[Len(pkts)] \in Range(pkts)
                      /\ \A g \in Range(pkts) : P[g] <= P[pkts[Len(pkts)]]

LEMMA Passed ==
    ASSUME RingFacts, PowersOfTwo, NEW n \in Sizes, NEW U, NEW q, RingOK(q, n, U), NEW pkts \in Seq(Entries),
           NEW K \in SUBSET Entries, NEW P, \A f \in K : P[f] \in Nat, NEW m, NEW a \in Nat, NEW base,
           IsDrained(q, pkts, n, K, P, m, a, base)
    PROVE  IsPassed(q, pkts, K, P, a)
<1> DEFINE N == Len(pkts)
<1>1. /\ SlotsOK(q, n, K, P, a) /\ LineOK(q, pkts, n, K, P, a) /\ AtHead(q) = NoPkt
      /\ q.rhead = q.rtail
  BY Zenon DEF IsDrained
<1>2. Waiting(q, n) = {}
  BY Zenon, <1>1 DEF RingFacts, NoneWaitingFact
<1>3. /\ \A i \in 1 .. N : pkts[i] \in K /\ P[pkts[i]] < a
      /\ \A f \in K : P[f] < a => f \in Range(pkts)
      /\ \A i, j \in 1 .. N : i < j => P[pkts[i]] < P[pkts[j]]
  BY Zenon, <1>1, <1>2 DEF LineOK
<1>4. Range(pkts) = {pkts[i] : i \in 1 .. N}
  BY Zenon, RangeOf
<1>5. N \in Nat /\ (pkts # <<>> => N \in 1 .. N)
  BY SMT
<1>6. q \in Rings(n) /\ q.order \in [0 .. n - 1 -> Slots]
  BY Zenon DEF RingOK, Rings
<1>7. n \in Nat \ {0}
  BY Zenon DEF RingFacts, SizeFact
<1> HIDE DEF N
<1>8. Range(pkts) = {f \in K : P[f] < a}
  BY Zenon, <1>3, <1>4
<1>9. \A f \in K : P[f] # a
  <2>1. /\ AtHead(q) # NoPkt => AtHead(q) \in K /\ P[AtHead(q)] = a
        /\ \A f \in K : P[f] = a => AtHead(q) = f
    <3>1. SlotsOK(q, n, K, P, a) /\ q \in Rings(n)
      BY Zenon, <1>1, <1>6
    <3> QED
      BY Zenon, <3>1 DEF RingFacts, HeadIsNextFact
  <2>2. NoPkt \notin K
    BY Zenon, PoolAssumption
  <2> QED
    BY Zenon, <1>1, <2>1, <2>2
<1>10. RingOf(q) = K \ Range(pkts)
  <2>1. \A f : f \in RingOf(q) <=> f # NoPkt /\ \E i \in 0 .. n - 1 : q.order[i] = f
    BY Zenon, <1>6 DEF RingOf
  <2>2. \A f \in K : f # NoPkt
    BY Zenon, PoolAssumption
  <2>3. \A f \in K : P[f] < a \/ P[f] >= a
    BY SMT
  <2>4. ASSUME NEW f \in K \ Range(pkts) PROVE f \in RingOf(q)
    <3>1. P[f] >= a
      BY Zenon, <1>8, <2>3, <2>4
    <3>2. \E i \in 0 .. n - 1 : q.order[i] = f
      BY Zenon, <1>1, <2>4, <3>1 DEF SlotsOK
    <3> QED
      BY Zenon, <2>1, <2>2, <3>2
  <2>5. ASSUME NEW f \in RingOf(q) PROVE f \in K \ Range(pkts)
    <3>1. PICK i \in 0 .. n - 1 : q.order[i] = f /\ f # NoPkt
      BY Zenon, <2>1, <2>5
    <3>2. f \in K /\ P[f] = a + Gap(n, q.ohead, i)
      BY Zenon, <1>1, <3>1 DEF SlotsOK
    <3> DEFINE g == Gap(n, q.ohead, i)
               o == q.ohead
    <3>3. o \in 0 .. n - 1 /\ g = Gap(n, o, i)
      BY Zenon, <1>6 DEF Rings
    <3> HIDE DEF g, o
    <3>4. g \in Nat
      BY SMT, <1>7, <3>3 DEF Gap
    <3>5. P[f] = a + g
      BY Zenon, <3>2 DEF g
    <3>6. ~(P[f] < a)
      BY SMT, <3>4, <3>5
    <3> QED
      BY Zenon, <1>8, <3>2, <3>6
  <2> QED
    BY Zenon, <2>4, <2>5
<1>11. ASSUME pkts # <<>>
       PROVE  pkts[N] \in Range(pkts) /\ \A g \in Range(pkts) : P[g] <= P[pkts[N]]
  <2>1. N \in 1 .. N
    BY Zenon, <1>5, <1>11
  <2>2. pkts[N] \in Range(pkts)
    BY Zenon, <1>4, <2>1
  <2>3. ASSUME NEW g \in Range(pkts) PROVE P[g] <= P[pkts[N]]
    <3>1. PICK i \in 1 .. N : g = pkts[i]
      BY Zenon, <1>4, <2>3
    <3>2. i = N \/ i < N
      BY SMT, <1>5
    <3>3. P[pkts[i]] = P[pkts[N]] \/ P[pkts[i]] < P[pkts[N]]
      BY Zenon, <1>3, <2>1, <3>2
    <3>4. P[pkts[i]] \in Nat /\ P[pkts[N]] \in Nat
      BY Zenon, <1>3, <2>1
    <3> QED
      BY SMT, <3>1, <3>3, <3>4
  <2> QED
    BY Zenon, <2>2, <2>3
<1> QED
  BY Zenon, <1>8, <1>9, <1>10, <1>11 DEF IsPassed, N

(* A packet that mlvpn_reorder_insert takes moves the window a places.     *)
KeptWith(s) == Kept(RingOf(buf), AheadWith(s), Head(free))
DistOf(s) == Window!Dist(BaseOf(buf, s), s)
DrainedOf(s) == Drain(Insert(buf, Head(free), s).ring)

Moves(s, a) ==
    LET n == buf.size
        r == DrainedOf(s)
    IN  /\ DistOf(s) < 2 * n /\ ~(n = 1 /\ DistOf(s) = 1)
        /\ RingOK(r.ring, n, Range(GotUsed)) /\ r.pkts \in Seq(Entries)
        /\ KeptWith(s) \in SUBSET Entries /\ \A f \in KeptWith(s) : AheadWith(s)[f] \in 0 .. 2 * n - 1
        /\ IsDrained(r.ring, r.pkts, n, KeptWith(s), AheadWith(s), ForcedBy(n, DistOf(s)), a, BaseOf(buf, s))
        /\ IsPassed(r.ring, r.pkts, KeptWith(s), AheadWith(s), a)

LEMMA InsertedMoves ==
    ASSUME RingFacts, PowersOfTwo, RInv, NEW s \in Seqs, RecvInserted(s)
    PROVE  \E a \in Nat : Moves(s, a)
<1> DEFINE n == buf.size
           e == Head(free)
           K == RingOf(buf)
           P == AheadWith(s)
           L == KeptWith(s)
           d == DistOf(s)
           m == ForcedBy(n, d)
           base == BaseOf(buf, s)
           b == Insert(buf, e, s).ring
           U == Range(GotUsed)
           r == DrainedOf(s)
<1>1. n > 0 /\ free # <<>> /\ Insert(buf, e, s).ret = 0
  BY Zenon DEF RecvInserted
<1>2. Meets(s)
  BY Zenon, <1>1, MeetsNow
<1>3. /\ n \in Sizes /\ e \in Entries /\ K \in SUBSET Entries /\ base \in Seqs /\ e \notin Range(used)
      /\ Ready(buf, n, Range(used), K, P, e, s)
  BY Zenon, <1>2 DEF Meets
<1>4. /\ RingOK(buf, n, Range(used)) /\ buf.rhead = buf.rtail /\ P[e] = d
      /\ \A f \in K : P[f] \in 1 .. n - 1
  BY Zenon, <1>3 DEF Ready, DistOf
<1>5. /\ d < 2 * n /\ ~(n = 1 /\ d = 1)
      /\ \E a \in Nat : IsInserted(b, n, L, P, m, a, base)
  BY Zenon, <1>1, <1>2, InsertReturns DEF Returns, KeptWith, DistOf
<1>6. U = Range(used) \cup {e} /\ U \in SUBSET Entries
  <2>1. U = Range(used) \cup {e} /\ Split(Tail(free), GotUsed)
    BY Zenon, <1>1, CopiedHolds
  <2> QED
    BY Zenon, <2>1 DEF Split
<1>7. RingOK(b, n, U) /\ WaitOK(b, n, U)
  <2>1. RingOK(b, n, Range(used) \cup {e}) /\ WaitOK(b, n, Range(used) \cup {e})
    BY Zenon, <1>1, <1>3, <1>4 DEF RingFacts, InsertOKFact
  <2> QED
    BY Zenon, <1>6, <2>1
<1>8. L \in SUBSET Entries
  BY Zenon, <1>3 DEF KeptWith, Kept
<1>9. n \in Nat \ {0} /\ SeqSpace \in Nat
  BY Zenon, <1>3 DEF RingFacts, SizeFact
<1>10. d \in Seqs
  BY Zenon, <1>3, <1>4 DEF RingFacts, InsertIsFact, DistOf
<1>11. d \in Nat /\ m \in Nat
  <2> HIDE DEF n, d
  <2> QED
    BY SMTT(30), <1>9, <1>10 DEF Seqs, ForcedBy
<1>12. PICK start \in Nat : IsInserted(b, n, L, P, m, start, base)
  BY Zenon, <1>5
<1>13. start \in m .. n
  BY Zenon, <1>12 DEF IsInserted
<1> HIDE DEF n, d, base, b, U, L, e, P, K
<1>14. (start + n) - 1 <= 2 * n - 1 /\ d <= (start + n) - 1
  BY SMTT(30), <1>9, <1>11, <1>13 DEF ForcedBy
<1>15. \A f \in L : f = e \/ f \in K
  BY Zenon DEF L, KeptWith, Kept, e, K
<1>16. \A f \in L : P[f] \in 0 .. (start + n) - 1
  <2> SUFFICES ASSUME NEW f \in L PROVE P[f] \in 0 .. (start + n) - 1
    OBVIOUS
  <2>1. P[f] = d \/ P[f] \in 1 .. n - 1
    BY Zenon, <1>4, <1>15
  <2> QED
    BY SMT, <1>9, <1>11, <1>14, <2>1
<1>17. \A f \in L : P[f] \in 0 .. 2 * n - 1 /\ P[f] \in Nat
  <2>1. \A x \in 0 .. (start + n) - 1 : x \in 0 .. 2 * n - 1 /\ x \in Nat
    BY SMT, <1>9, <1>14
  <2> QED
    BY Zenon, <1>16, <2>1
<1> HIDE DEF m
<1>18. \E a \in Nat : IsDrained(Drain(b).ring, Drain(b).pkts, n, L, P, m, a, base)
  BY Zenon, <1>3, <1>6, <1>7, <1>8, <1>11, <1>12, <1>16 DEF RingFacts, DrainedAtFact
<1>19. r = Drain(b)
  BY Zenon DEF DrainedOf, b, e
<1> HIDE DEF r
<1>20. PICK a \in Nat : IsDrained(r.ring, r.pkts, n, L, P, m, a, base)
  BY Zenon, <1>18, <1>19
<1>21. RingOK(r.ring, n, U) /\ r.pkts \in Seq(Entries)
  <2>1. RingOK(Drain(b).ring, n, U) /\ Drain(b).pkts \in Seq(Entries)
    BY Zenon, <1>3, <1>6, <1>7 DEF RingFacts, DrainedOKFact
  <2> QED
    BY Zenon, <1>19, <2>1
<1>22. IsPassed(r.ring, r.pkts, L, P, a)
  <2> DEFINE q == r.ring
             pkts == r.pkts
  <2> HIDE DEF q, pkts
  <2>1. IsDrained(q, pkts, n, L, P, m, a, base) /\ RingOK(q, n, U) /\ pkts \in Seq(Entries)
    BY Zenon, <1>20, <1>21 DEF q, pkts
  <2>2. IsPassed(q, pkts, L, P, a)
    BY Zenon, <1>3, <1>8, <1>17, <2>1, Passed
  <2> QED
    BY Zenon, <2>2 DEF q, pkts
<1>23. Moves(s, a)
  BY Zenon, <1>5, <1>8, <1>17, <1>20, <1>21, <1>22 DEF Moves, n, L, P, d, m, base, U, r
<1> QED
  BY Zenon, <1>23

(* The handler's step, in these terms.                                     *)
Released(s) == [i \in 1 .. Len(DrainedOf(s).pkts) |-> Copied(s)[DrainedOf(s).pkts[i]]]

LEMMA InsertedIs ==
    ASSUME NEW s, RecvInserted(s)
    PROVE  /\ buf.size > 0 /\ free # <<>>
           /\ Inject("ring", Released(s), {s})
           /\ buf' = DrainedOf(s).ring
           /\ used' = Without(GotUsed, Range(DrainedOf(s).pkts))
           /\ pkt' = [f \in Entries |-> IF f \in Range(DrainedOf(s).pkts) THEN NoPkt ELSE Copied(s)[f]]
           /\ last' = (IF DrainedOf(s).pkts = <<>> THEN last ELSE Released(s)[Len(Released(s))])
           /\ timer' = (used' # <<>>) /\ UNCHANGED optSize
<1>1. /\ buf.size > 0 /\ free # <<>>
      /\ OrderedDrain(Tail(free), GotUsed, Copied(s), Insert(buf, Head(free), s).ring, {s})
      /\ timer' = (used' # <<>>) /\ UNCHANGED optSize
  BY Zenon DEF RecvInserted
<1> QED
  BY Zenon, <1>1 DEF OrderedDrain, Released, DrainedOf

LEMMA KeptFacts ==
    ASSUME RingFacts, RInv, free # <<>>, NEW s \in Seqs, Meets(s)
    PROVE  /\ \A f \in KeptWith(s) : /\ f \in Entries /\ Copied(s)[f] \in Seqs
                                     /\ AheadWith(s)[f] = Window!Dist(BaseOf(buf, s), Copied(s)[f])
           /\ KeptWith(s) = {f \in RingOf(buf) : pkt[f] # s} \cup {Head(free)}
<1> DEFINE e == Head(free)
           K == RingOf(buf)
           P == AheadWith(s)
           h == Copied(s)
           base == BaseOf(buf, s)
<1>1. /\ e \in Entries /\ e \notin Range(used) /\ K \in SUBSET Entries /\ base \in Seqs
      /\ \A f \in K : f \in Range(used) /\ pkt[f] \in Seqs
  BY Zenon DEF Meets
<1>2. h[e] = s /\ \A f \in Entries : f # e => h[f] = pkt[f]
  BY Zenon, CopiedHolds
<1>3. \A f \in Entries : P[f] = Window!Dist(base, h[f])
  BY Zenon DEF AheadWith, Ahead
<1>4. \A f \in K : f # e /\ h[f] = pkt[f] /\ h[f] \in Seqs
  BY Zenon, <1>1, <1>2
<1>5. ASSUME NEW x \in Seqs, NEW y \in Seqs
      PROVE  Window!Dist(base, x) = Window!Dist(base, y) <=> x = y
  <2> HIDE DEF base
  <2> QED
    BY SMTT(30), <1>1, SeqSpaceAssumption DEF Window!Dist, Seqs
<1>6. \A f \in K : P[f] # P[e] <=> pkt[f] # s
  <2> SUFFICES ASSUME NEW f \in K PROVE P[f] # P[e] <=> pkt[f] # s
    OBVIOUS
  <2>1. P[f] = Window!Dist(base, pkt[f]) /\ P[e] = Window!Dist(base, s) /\ pkt[f] \in Seqs
    BY Zenon, <1>1, <1>2, <1>3, <1>4
  <2>2. Window!Dist(base, pkt[f]) = Window!Dist(base, s) <=> pkt[f] = s
    BY Zenon, <1>5, <2>1
  <2> HIDE DEF base, P, K, e
  <2> QED
    BY Zenon, <2>1, <2>2
<1> HIDE DEF P, K, e, h, base
<1>7. KeptWith(s) = {f \in K : P[f] # P[e]} \cup {e}
  BY Zenon DEF KeptWith, Kept, P, K, e
<1>8. KeptWith(s) = {f \in K : pkt[f] # s} \cup {e}
  BY Zenon, <1>6, <1>7
<1>9. \A f \in KeptWith(s) : f \in Entries /\ h[f] \in Seqs /\ P[f] = Window!Dist(base, h[f])
  BY Zenon, <1>1, <1>2, <1>3, <1>4, <1>8
<1> QED
  BY Zenon, <1>8, <1>9 DEF P, K, e, h, base

LEMMA InsertedHolds ==
    ASSUME RingFacts, RInv, NEW s \in Seqs, RecvInserted(s)
    PROVE  Holds(pkt', used') /\ used' \in Seq(Entries)
<1> DEFINE D == Range(DrainedOf(s).pkts)
           u == GotUsed
           h == Copied(s)
<1>1. /\ free # <<>> /\ used' = Without(u, D)
      /\ pkt' = [f \in Entries |-> IF f \in D THEN NoPkt ELSE h[f]]
  BY Zenon, InsertedIs
<1>2. Holds(h, u) /\ Split(Tail(free), u)
  BY Zenon, <1>1, CopiedHolds
<1> HIDE DEF D, u, h
<1>3. u \in Seq(Entries) /\ IsInjective(u)
  BY Zenon, <1>2 DEF Split, IsListOf
<1>4. IsListOf(Without(u, D), Entries, Range(u) \ D)
  BY Zenon, <1>3 DEF RingFacts, WithoutOKFact
<1>5. used' \in Seq(Entries) /\ Range(used') = Range(u) \ D
  BY Zenon, <1>1, <1>4 DEF IsListOf
<1>6. \A f \in Entries : pkt'[f] # NoPkt <=> f \in Range(used')
  <2> SUFFICES ASSUME NEW f \in Entries PROVE pkt'[f] # NoPkt <=> f \in Range(used')
    OBVIOUS
  <2>1. h[f] # NoPkt <=> f \in Range(u)
    BY Zenon, <1>2 DEF Holds
  <2>2. pkt'[f] = IF f \in D THEN NoPkt ELSE h[f]
    BY Zenon, <1>1
  <2> QED
    BY Zenon, <1>5, <2>1, <2>2
<1>7. pkt' \in [Entries -> Seqs \cup {NoPkt}]
  <2>1. \A f \in Entries : (IF f \in D THEN NoPkt ELSE h[f]) \in Seqs \cup {NoPkt}
    BY Zenon, <1>2 DEF Holds
  <2> QED
    BY Zenon, <1>1, <2>1
<1> QED
  BY Zenon, <1>5, <1>6, <1>7 DEF Holds

LEMMA InsertedPlaced ==
    ASSUME RingFacts, PowersOfTwo, RInv, NEW s \in Seqs, RecvInserted(s)
    PROVE  PlacedIn(buf', pkt') /\ buf'.size = buf.size /\ buf.size \in Sizes
<1> DEFINE n == buf.size
           q == DrainedOf(s).ring
           pkts == DrainedOf(s).pkts
           L == KeptWith(s)
           P == AheadWith(s)
           h == Copied(s)
           base == BaseOf(buf, s)
           m == ForcedBy(n, DistOf(s))
<1>1. /\ buf.size > 0 /\ free # <<>> /\ buf' = q
      /\ pkt' = [f \in Entries |-> IF f \in Range(pkts) THEN NoPkt ELSE h[f]]
  BY Zenon, InsertedIs
<1>2. Meets(s)
  BY Zenon, <1>1, MeetsNow
<1>3. n \in Sizes /\ base \in Seqs
  BY Zenon, <1>2 DEF Meets
<1>4. n \in Nat \ {0} /\ SeqSpace \in Nat
  BY Zenon, <1>3 DEF RingFacts, SizeFact
<1>5. PICK a \in Nat : Moves(s, a)
  BY Zenon, InsertedMoves
<1>6. /\ RingOK(q, n, Range(GotUsed)) /\ L \in SUBSET Entries
      /\ \A f \in L : P[f] \in 0 .. 2 * n - 1
      /\ IsDrained(q, pkts, n, L, P, m, a, base)
      /\ IsPassed(q, pkts, L, P, a)
  BY Zenon, <1>5 DEF Moves
<1>7. q.size = n /\ DOMAIN q.order = 0 .. n - 1
  <2>1. q \in Rings(n)
    BY Zenon, <1>6 DEF RingOK
  <2> QED
    BY Zenon, <2>1 DEF Rings
<1>8. /\ q.init = TRUE /\ q.min = Window!Plus(base, a) /\ SlotsOK(q, n, L, P, a) /\ AtHead(q) = NoPkt
  BY Zenon, <1>6 DEF IsDrained
<1>9. /\ Range(pkts) = {f \in L : P[f] < a} /\ RingOf(q) = L \ Range(pkts)
  BY Zenon, <1>6 DEF IsPassed
<1>10. \A f \in L : f \in Entries /\ h[f] \in Seqs /\ P[f] = Window!Dist(base, h[f])
  BY Zenon, <1>1, <1>2, KeptFacts
<1> HIDE DEF n, q, pkts, L, P, h, base, m
<1>11. \A f \in RingOf(q) : Ahead(q.min, pkt')[f] = P[f] - a
  <2> SUFFICES ASSUME NEW f \in RingOf(q) PROVE Ahead(q.min, pkt')[f] = P[f] - a
    OBVIOUS
  <2>1. f \in L /\ f \notin Range(pkts) /\ ~(P[f] < a)
    BY Zenon, <1>9
  <2>2. f \in Entries /\ h[f] \in Seqs /\ P[f] = Window!Dist(base, h[f]) /\ P[f] \in 0 .. 2 * n - 1
    BY Zenon, <1>6, <1>10, <2>1
  <2>3. pkt'[f] = h[f]
    BY Zenon, <1>1, <2>1, <2>2
  <2>4. a <= P[f]
    BY SMT, <1>4, <2>1, <2>2
  <2>5. a <= Window!Dist(base, h[f])
    BY Zenon, <2>2, <2>4
  <2>6. Window!Dist(Window!Plus(base, a), h[f]) = Window!Dist(base, h[f]) - a
    BY Zenon, <1>3, <2>2, <2>5 DEF RingFacts, DistFromPlusFact
  <2>7. Ahead(q.min, pkt')[f] = Window!Dist(q.min, pkt'[f])
    BY Zenon, <2>2 DEF Ahead
  <2> QED
    BY Zenon, <1>8, <2>2, <2>3, <2>6, <2>7
<1>12. \A i \in 0 .. n - 1 : q.order[i] # NoPkt =>
          q.order[i] \in RingOf(q) /\ Ahead(q.min, pkt')[q.order[i]] = 0 + Gap(n, q.ohead, i)
  <2> SUFFICES ASSUME NEW i \in 0 .. n - 1, q.order[i] # NoPkt
               PROVE  q.order[i] \in RingOf(q) /\ Ahead(q.min, pkt')[q.order[i]] = 0 + Gap(n, q.ohead, i)
    OBVIOUS
  <2>1. q.order[i] \in RingOf(q)
    BY Zenon, <1>7 DEF RingOf
  <2>2. P[q.order[i]] = a + Gap(n, q.ohead, i)
    BY Zenon, <1>8 DEF SlotsOK
  <2>3. Ahead(q.min, pkt')[q.order[i]] = P[q.order[i]] - a
    BY Zenon, <1>11, <2>1
  <2>4. q.ohead \in 0 .. n - 1
    <3>1. q.ohead \in 0 .. Turn(n) - 1
      BY Zenon, <1>6 DEF RingOK
    <3>2. Turn(n) = n
      BY Zenon, <1>3 DEF RingFacts, SizeFact
    <3> QED
      BY Zenon, <3>1, <3>2
  <2>5. Gap(n, q.ohead, i) \in 0 .. n - 1
    BY Zenon, <1>4, <2>4 DEF RingFacts, GapFact
  <2> DEFINE g == Gap(n, q.ohead, i)
             x == Ahead(q.min, pkt')[q.order[i]]
  <2>6. x = 0 + g
    <3>1. g \in 0 .. n - 1 /\ x = (a + g) - a
      BY Zenon, <2>2, <2>3, <2>5
    <3> HIDE DEF g, x
    <3> QED
      BY SMTT(30), <1>4, <3>1
  <2> QED
    BY Zenon, <2>1, <2>6
<1>13. \A f \in RingOf(q) : \E i \in 0 .. n - 1 : q.order[i] = f
  BY Zenon, <1>7 DEF RingOf
<1>14. SlotsOK(q, n, RingOf(q), Ahead(q.min, pkt'), 0)
  BY Zenon, <1>12, <1>13 DEF SlotsOK
<1>15. PlacedIn(q, pkt')
  BY Zenon, <1>7, <1>8, <1>14 DEF PlacedIn
<1> QED
  BY Zenon, <1>1, <1>3, <1>7, <1>15 DEF n

(* What the handler releases is what the window passes.                    *)
LEMMA ReleasedIs ==
    ASSUME NEW s, DrainedOf(s).pkts \in Seq(Entries)
    PROVE  /\ Range(Released(s)) = Window!Packets(Copied(s), Range(DrainedOf(s).pkts))
           /\ Len(Released(s)) = Len(DrainedOf(s).pkts)
           /\ \A i \in 1 .. Len(DrainedOf(s).pkts) : Released(s)[i] = Copied(s)[DrainedOf(s).pkts[i]]
<1> DEFINE q == DrainedOf(s).pkts
           h == Copied(s)
           r == Released(s)
<1>1. r = [i \in 1 .. Len(q) |-> h[q[i]]] /\ q \in Seq(Entries)
  BY Zenon DEF Released
<1> HIDE DEF q, h, r
<1>2. Len(q) \in Nat /\ DOMAIN r = 1 .. Len(q) /\ \A i \in 1 .. Len(q) : r[i] = h[q[i]]
  BY <1>1
<1>3. Range(q) = {q[i] : i \in 1 .. Len(q)}
  BY Zenon, <1>1, RangeOf
<1>4. Range(r) = {r[i] : i \in 1 .. Len(q)}
  BY Zenon, <1>2 DEF Range
<1>5. {r[i] : i \in 1 .. Len(q)} = {h[f] : f \in {q[i] : i \in 1 .. Len(q)}}
  <2> DEFINE D == 1 .. Len(q)
  <2>1. \A i \in D : r[i] = h[q[i]]
    BY Zenon, <1>2
  <2> HIDE DEF D
  <2>2. {r[i] : i \in D} = {h[f] : f \in {q[i] : i \in D}}
    BY SMT, <2>1
  <2> QED
    BY Zenon, <2>2 DEF D
<1>6. Range(r) = Window!Packets(h, Range(q))
  BY Zenon, <1>3, <1>4, <1>5 DEF Window!Packets
<1>7. Len(r) = Len(q)
  BY <1>1
<1> QED
  BY Zenon, <1>2, <1>6, <1>7 DEF q, h, r

(* The part of Window!RecvInsert that moves the window.                    *)
Advances(s, h, kept, base, m, adv) ==
    LET pos(f) == Window!Dist(base, h[f])
        filled(j) == \E f \in kept : pos(f) = j
    IN  /\ ~filled(adv)
        /\ \A j \in m .. adv - 1 : filled(j)
        /\ LET released == {f \in kept : pos(f) < adv}
           IN  /\ buf'.min = Window!Plus(base, adv)
               /\ RingOf(buf)' = kept \ released
               /\ pkt' = [f \in Entries |-> IF f \in released THEN NoPkt ELSE h[f]]
               /\ Window!Inject("ring", Window!Packets(h, released), {s})
               /\ \/ released = {} /\ last' = last
                  \/ \E f \in released : /\ \A g \in released : pos(g) <= pos(f)
                                         /\ last' = h[f]

Inserts(s, e, base, d) ==
    /\ \E adv \in Window!Forced(d) .. 2 * buf.size :
          Advances(s, [pkt EXCEPT ![e] = s], {f \in RingOf(buf) : pkt[f] # s} \cup {e}, base,
                   Window!Forced(d), adv)
    /\ buf.size > 0 /\ pkt[e] = NoPkt /\ d < 2 * buf.size /\ ~Window!NoRoom(d)
    /\ buf'.init = TRUE /\ Window!DrainTimer /\ UNCHANGED optSize /\ buf'.size = buf.size

LEMMA InsertsRefines ==
    ASSUME NEW s, NEW e, Inserts(s, e, Window!Base(s), Window!Dist(Window!Base(s), s))
    PROVE  Window!RecvInsert(s, e)
BY Zenon DEF Window!RecvInsert, Inserts, Advances, RingOf

LEMMA InsertedRefines ==
    ASSUME RingFacts, PowersOfTwo, RInv, NEW s \in Seqs, RecvInserted(s)
    PROVE  /\ \E e \in Entries : Window!RecvInsert(s, e)
           /\ Holds(pkt', used') /\ PlacedIn(buf', pkt')
<1> DEFINE n == buf.size
           e == Head(free)
           r == DrainedOf(s)
           D == Range(r.pkts)
           L == KeptWith(s)
           P == AheadWith(s)
           h == Copied(s)
           base == BaseOf(buf, s)
           d == DistOf(s)
           m == ForcedBy(n, d)
           pos(f) == Window!Dist(base, h[f])
<1>1. /\ n > 0 /\ free # <<>>
      /\ Inject("ring", Released(s), {s})
      /\ buf' = r.ring
      /\ pkt' = [f \in Entries |-> IF f \in D THEN NoPkt ELSE h[f]]
      /\ last' = (IF r.pkts = <<>> THEN last ELSE Released(s)[Len(Released(s))])
      /\ timer' = (used' # <<>>) /\ UNCHANGED optSize
  BY Zenon, InsertedIs
<1>2. Meets(s)
  BY Zenon, <1>1, MeetsNow
<1>3. n \in Sizes /\ e \in Entries /\ pkt[e] = NoPkt
  BY Zenon, <1>2 DEF Meets
<1>4. PICK a \in Nat : Moves(s, a)
  BY Zenon, InsertedMoves
<1>5. /\ d < 2 * n /\ ~(n = 1 /\ d = 1) /\ r.pkts \in Seq(Entries) /\ L \in SUBSET Entries
      /\ IsDrained(r.ring, r.pkts, n, L, P, m, a, base) /\ IsPassed(r.ring, r.pkts, L, P, a)
  BY Zenon, <1>4 DEF Moves
<1>6. /\ r.ring.init = TRUE /\ r.ring.min = Window!Plus(base, a) /\ a \in m .. 2 * n
      /\ \A j \in m .. a - 1 : \E f \in L : P[f] = j
  BY Zenon, <1>5 DEF IsDrained
<1>7. /\ D = {f \in L : P[f] < a} /\ RingOf(r.ring) = L \ D /\ \A f \in L : P[f] # a
      /\ r.pkts # <<>> => r.pkts[Len(r.pkts)] \in D /\ \A g \in D : P[g] <= P[r.pkts[Len(r.pkts)]]
  BY Zenon, <1>5 DEF IsPassed
<1>8. /\ \A f \in L : P[f] = pos(f)
      /\ L = {f \in RingOf(buf) : pkt[f] # s} \cup {e}
  BY Zenon, <1>1, <1>2, KeptFacts
<1>9. PlacedIn(buf', pkt') /\ buf'.size = n
  BY Zenon, InsertedPlaced
<1>10. Holds(pkt', used') /\ used' \in Seq(Entries)
  BY Zenon, InsertedHolds
<1>11. /\ Range(Released(s)) = Window!Packets(h, D) /\ Len(Released(s)) = Len(r.pkts)
       /\ \A i \in 1 .. Len(r.pkts) : Released(s)[i] = h[r.pkts[i]]
  BY Zenon, <1>5, ReleasedIs
<1>12. Window!Forced(Window!Dist(base, s)) = m /\ ~Window!NoRoom(Window!Dist(base, s))
       /\ Window!Dist(base, s) = d /\ Window!Base(s) = base
  BY Zenon, <1>5 DEF Window!Forced, Window!NoRoom, Window!Base, ForcedBy, DistOf, BaseOf
<1> HIDE DEF n, e, r, L, P, h, base, d, m, D
<1>13. D = {f \in L : pos(f) < a}
  BY Zenon, <1>7, <1>8
<1>14. ~ \E f \in L : pos(f) = a
  BY Zenon, <1>7, <1>8
<1>15. \A j \in m .. a - 1 : \E f \in L : pos(f) = j
  <2> SUFFICES ASSUME NEW j \in m .. a - 1 PROVE \E f \in L : pos(f) = j
    OBVIOUS
  <2>1. PICK f \in L : P[f] = j
    BY Zenon, <1>6
  <2>2. pos(f) = j
    BY Zenon, <1>8, <2>1
  <2> HIDE DEF pos
  <2> QED
    BY Zenon, <2>2
<1>16. Window!Inject("ring", Window!Packets(h, D), {s})
  <2> DEFINE via == "ring"
             q == Released(s)
             rec == {s}
  <2>1. Inject(via, q, rec) /\ Range(q) = Window!Packets(h, D)
    BY Zenon, <1>1, <1>11
  <2> HIDE DEF via, q, rec
  <2>2. Window!Inject(via, Range(q), rec)
    BY Zenon, <2>1, InjectRefines
  <2> QED
    BY Zenon, <2>1, <2>2 DEF via, rec
<1>17. r.pkts = <<>> <=> D = {}
  <2>1. r.pkts = <<>> => D = {}
    BY Zenon, RangeEmpty DEF D
  <2>2. r.pkts # <<>> => D # {}
    BY Zenon, <1>7
  <2> QED
    BY Zenon, <2>1, <2>2
<1>18. \/ D = {} /\ last' = last
       \/ \E f \in D : (\A g \in D : pos(g) <= pos(f)) /\ last' = h[f]
  <2>1. CASE r.pkts = <<>>
    BY Zenon, <1>1, <1>17, <2>1
  <2>2. CASE r.pkts # <<>>
    <3> DEFINE f == r.pkts[Len(r.pkts)]
    <3>1. Len(r.pkts) \in 1 .. Len(r.pkts)
      <4> DEFINE q == r.pkts
      <4>1. q \in Seq(Entries) /\ q # <<>>
        BY Zenon, <1>5, <2>2
      <4> HIDE DEF q
      <4>2. Len(q) \in 1 .. Len(q)
        BY <4>1
      <4> QED
        BY Zenon, <4>2 DEF q
    <3>2. last' = h[f]
      BY Zenon, <1>1, <1>11, <2>2, <3>1
    <3>3. f \in D /\ \A g \in D : P[g] <= P[f]
      BY Zenon, <1>7, <2>2
    <3>4. \A g \in D : P[g] = pos(g)
      BY Zenon, <1>7, <1>8
    <3> HIDE DEF f
    <3>5. \A g \in D : pos(g) <= pos(f)
      BY Zenon, <3>3, <3>4
    <3> QED
      BY Zenon, <3>2, <3>3, <3>5
  <2> QED
    BY Zenon, <2>1, <2>2
<1>19. Window!DrainTimer
  <2>1. Window!Used(pkt') = Range(used')
    BY Zenon, <1>10, UsedIs
  <2>2. used' = <<>> <=> Range(used') = {}
    <3> DEFINE u == used'
    <3>1. u \in Seq(Entries)
      BY Zenon, <1>10
    <3> HIDE DEF u
    <3>2. u = <<>> <=> Range(u) = {}
      <4>1. u = <<>> => Range(u) = {}
        BY Zenon, RangeEmpty
      <4>2. u # <<>> => 1 \in 1 .. Len(u)
        BY <3>1
      <4>3. Range(u) = {u[i] : i \in 1 .. Len(u)}
        BY Zenon, <3>1, RangeOf
      <4> QED
        BY Zenon, <4>1, <4>2, <4>3
    <3> QED
      BY Zenon, <3>2 DEF u
  <2> QED
    BY Zenon, <1>1, <2>1, <2>2 DEF Window!DrainTimer
<1>20. h = [pkt EXCEPT ![e] = s]
  BY Zenon DEF h, Copied, e
<1>21. RingOf(buf)' = L \ D /\ buf'.min = Window!Plus(base, a) /\ buf'.init = TRUE
  BY Zenon, <1>1, <1>6, <1>7
<1>22. Advances(s, h, L, base, m, a)
  BY Zenon, <1>1, <1>13, <1>14, <1>15, <1>16, <1>18, <1>21 DEF Advances
<1>23. \E adv \in m .. 2 * n : Advances(s, h, L, base, m, adv)
  BY Zenon, <1>6, <1>22
<1>24. PICK x \in Entries : x = e
  BY Zenon, <1>3
<1>25. Inserts(s, x, base, d)
  <2> DEFINE J == {f \in RingOf(buf) : pkt[f] # s} \cup {x}
             g == [pkt EXCEPT ![x] = s]
             k == Window!Forced(d)
  <2>1. J = L /\ g = h /\ k = m /\ ~Window!NoRoom(d) /\ pkt[x] = NoPkt
    BY Zenon, <1>3, <1>8, <1>12, <1>20, <1>24
  <2> HIDE DEF J, g, k
  <2>2. \E adv \in k .. 2 * n : Advances(s, g, J, base, k, adv)
    BY Zenon, <1>23, <2>1
  <2> QED
    BY Zenon, <1>1, <1>5, <1>9, <1>19, <1>21, <2>1, <2>2 DEF Inserts, J, g, k, n
<1>26. Window!RecvInsert(s, x)
  <2>1. Inserts(s, x, Window!Base(s), Window!Dist(Window!Base(s), s))
    BY Zenon, <1>12, <1>25
  <2> QED
    BY Zenon, <2>1, InsertsRefines
<1> QED
  BY Zenon, <1>9, <1>10, <1>26

LEMMA StepRefines ==
    ASSUME RingFacts, PowersOfTwo, RInv, Next
    PROVE  Window!Next /\ Holds(pkt', used') /\ PlacedIn(buf', pkt')
<1>1. ASSUME NEW s \in Sent, NEW reorder \in BOOLEAN, Recv(s, reorder)
      PROVE  Window!Recv(s, reorder) /\ Holds(pkt', used') /\ PlacedIn(buf', pkt')
  <2>1. s \in Seqs
    BY Zenon, SentAssumption
  <2>2. Holds(pkt, used) /\ PlacedIn(buf, pkt)
    BY Zenon DEF RInv
  <2>3. CASE RecvUnordered(s, reorder)
    <3>1. Window!RecvUnordered(s, reorder)
      BY Zenon, <2>1, <2>3, UnorderedRefines
    <3>2. UNCHANGED <<pkt, used, buf>>
      BY Zenon, <2>3 DEF RecvUnordered
    <3> QED
      BY Zenon, <2>2, <3>1, <3>2 DEF Window!Recv
  <2>4. CASE reorder /\ RecvPoolFull(s)
    <3>1. Window!RecvPoolFull(s)
      BY Zenon, <2>1, <2>4, PoolFullRefines
    <3>2. UNCHANGED <<pkt, used, buf>>
      BY Zenon, <2>4 DEF RecvPoolFull
    <3> QED
      BY Zenon, <2>2, <2>4, <3>1, <3>2 DEF Window!Recv
  <2>5. CASE reorder /\ RecvInserted(s)
    <3>1. (\E e \in Entries : Window!RecvInsert(s, e)) /\ Holds(pkt', used') /\ PlacedIn(buf', pkt')
      BY Zenon, <2>1, <2>5, InsertedRefines
    <3> QED
      BY Zenon, <2>5, <3>1 DEF Window!Recv
  <2>6. CASE reorder /\ RecvNoRoom(s)
    <3>1. /\ Head(free) \in Entries /\ Window!RecvNoRoom(s, Head(free))
          /\ Holds(pkt', used') /\ PlacedIn(buf', pkt')
      BY Zenon, <2>1, <2>6, NoRoomRefines
    <3> QED
      BY Zenon, <2>6, <3>1 DEF Window!Recv
  <2>7. CASE reorder /\ RecvOutOfRange(s)
    <3>1. /\ Head(free) \in Entries /\ Window!RecvOutOfRange(s, Head(free))
          /\ Holds(pkt', used') /\ PlacedIn(buf', pkt')
      BY Zenon, <2>1, <2>7, OutOfRangeRefines
    <3> QED
      BY Zenon, <2>7, <3>1 DEF Window!Recv
  <2> QED
    BY Zenon, <1>1, <2>3, <2>4, <2>5, <2>6, <2>7 DEF Recv
<1>2. ASSUME DrainTimeout
      PROVE  Window!DrainTimeout /\ Holds(pkt', used') /\ PlacedIn(buf', pkt')
  BY Zenon, <1>2, TimeoutRefines
<1>3. ASSUME TunnelChange
      PROVE  Window!TunnelChange /\ Holds(pkt', used') /\ PlacedIn(buf', pkt')
  BY Zenon, <1>3, TunnelChangeRefines
<1>4. ASSUME NEW n \in Sizes \cup {0}, NEW restart \in BOOLEAN, Reload(n, restart)
      PROVE  Window!Reload(n, restart) /\ Holds(pkt', used') /\ PlacedIn(buf', pkt')
  BY Zenon, <1>4, ReloadRefines
<1> QED
  BY Zenon, <1>1, <1>2, <1>3, <1>4 DEF Next, Window!Next

LEMMA InitRInv ==
    ASSUME RingFacts, Init
    PROVE  RInv
<1>1. IInv
  BY Zenon, InitInvariant
<1>2. optSize \in Sizes \cup {0} /\ buf = NewRing(optSize) /\ used = <<>> /\ pkt = [e \in Entries |-> NoPkt]
  BY Zenon DEF Init
<1>3. PlacedIn(NewRing(optSize), pkt)
  BY Zenon, <1>2, NewPlaced
<1>4. Holds(pkt, used)
  <2>1. pkt \in [Entries -> Seqs \cup {NoPkt}] /\ \A e \in Entries : pkt[e] = NoPkt
    BY Zenon, <1>2
  <2>2. Range(used) = {}
    BY Zenon, <1>2, RangeEmpty
  <2> QED
    BY Zenon, <2>1, <2>2 DEF Holds
<1> QED
  BY Zenon, <1>1, <1>2, <1>3, <1>4 DEF RInv

LEMMA StepRInv ==
    ASSUME RingFacts, PowersOfTwo, RInv, [Next]_vars
    PROVE  RInv' /\ [Window!Next]_(Window!vars)
<1>1. IInv /\ Holds(pkt, used) /\ PlacedIn(buf, pkt)
  BY Zenon DEF RInv
<1>2. IInv'
  BY Zenon, <1>1, NextInvariant
<1>3. CASE Next
  <2>1. Window!Next /\ Holds(pkt', used') /\ PlacedIn(buf', pkt')
    BY Zenon, <1>3, StepRefines
  <2> QED
    BY Zenon, <1>2, <2>1 DEF RInv
<1>4. CASE UNCHANGED vars
  <2>1. UNCHANGED <<optSize, buf, free, used, pkt, timer, fatal, last, owed, out>>
    BY Zenon, <1>4 DEF vars
  <2>2. UNCHANGED Window!vars
    BY Zenon, <2>1 DEF Window!vars
  <2>3. Holds(pkt', used') /\ PlacedIn(buf', pkt')
    BY Zenon, <1>1, <2>1
  <2> QED
    BY Zenon, <1>2, <2>2, <2>3 DEF RInv
<1> QED
  BY Zenon, <1>3, <1>4

LEMMA RInvAlways ==
    ASSUME RingFacts, PowersOfTwo
    PROVE  Spec => []RInv
<1>1. Init => RInv
  BY Zenon, InitRInv
<1>2. RInv /\ [Next]_vars => RInv'
  BY Zenon, StepRInv
<1> QED
  BY <1>1, <1>2, PTL DEF Spec

LEMMA WindowImplemented ==
    ASSUME RingFacts, PowersOfTwo
    PROVE  Spec => Refines
<1>1. Init => RInv
  BY Zenon, InitRInv
<1>2. Init => Window!Init
  BY Zenon, InitRefines
<1>3. RInv /\ [Next]_vars => RInv'
  BY Zenon, StepRInv
<1>4. RInv /\ [Next]_vars => [Window!Next]_(Window!vars)
  BY Zenon, StepRInv
<1> QED
  BY <1>1, <1>2, <1>3, <1>4, PTL DEF Spec, Refines, Window!Spec

-----------------------------------------------------------------------------
(* The order in which the packets leave.                                   *)

LEMMA AtDist ==
    ASSUME NEW x \in Seqs, NEW y \in Seqs
    PROVE  y = Window!Plus(x, Window!Dist(x, y))
BY SeqSpaceAssumption DEF Seqs, Window!Dist, Window!Plus

LEMMA GapKept ==
    ASSUME RingFacts, PowersOfTwo, RInv, NEW s \in Seqs, buf.init, RecvInserted(s), Window!Dist(buf.min, s) < buf.size
    PROVE  out'.pkts = [i \in DOMAIN out'.pkts |-> Window!Plus(buf.min, i - 1)]
<1> DEFINE n == buf.size
           pkts == DrainedOf(s).pkts
           L == KeptWith(s)
           P == AheadWith(s)
           h == Copied(s)
           base == BaseOf(buf, s)
           r == Released(s)
<1>1. n > 0 /\ free # <<>> /\ out'.pkts = r
  <2>1. n > 0 /\ free # <<>> /\ Inject("ring", r, {s})
    BY Zenon, InsertedIs
  <2>2. out' = [via |-> "ring", pkts |-> r]
    BY Zenon, <2>1 DEF Inject
  <2> QED
    BY Zenon, <2>1, <2>2
<1>2. Meets(s)
  BY Zenon, <1>1, MeetsNow
<1>3. base \in Seqs /\ base = buf.min
  BY Zenon, <1>2 DEF Meets, BaseOf
<1>4. PICK a \in Nat : Moves(s, a)
  BY Zenon, InsertedMoves
<1>5. ForcedBy(n, DistOf(s)) = 0
  BY Zenon, <1>3 DEF ForcedBy, DistOf
<1>6. /\ pkts \in Seq(Entries) /\ IsDrained(DrainedOf(s).ring, pkts, n, L, P, 0, a, base)
      /\ IsPassed(DrainedOf(s).ring, pkts, L, P, a)
  BY Zenon, <1>4, <1>5 DEF Moves
<1>7. \A i \in 1 .. Len(pkts) : P[pkts[i]] = i - 1
  BY Zenon, <1>6 DEF IsDrained
<1>8. Range(pkts) = {f \in L : P[f] < a}
  BY Zenon, <1>6 DEF IsPassed
<1>9. \A f \in L : h[f] \in Seqs /\ P[f] = Window!Dist(base, h[f])
  BY Zenon, <1>1, <1>2, KeptFacts
<1>10. Range(pkts) = {pkts[i] : i \in 1 .. Len(pkts)}
  BY Zenon, <1>6, RangeOf
<1> HIDE DEF pkts, L, P, h, base
<1>11. \A i \in 1 .. Len(pkts) : h[pkts[i]] = Window!Plus(base, i - 1)
  <2> SUFFICES ASSUME NEW i \in 1 .. Len(pkts) PROVE h[pkts[i]] = Window!Plus(base, i - 1)
    OBVIOUS
  <2>1. pkts[i] \in L
    BY Zenon, <1>8, <1>10
  <2>2. h[pkts[i]] \in Seqs /\ Window!Dist(base, h[pkts[i]]) = i - 1
    BY Zenon, <1>7, <1>9, <2>1
  <2> DEFINE y == h[pkts[i]]
             k == i - 1
  <2>3. y \in Seqs /\ Window!Dist(base, y) = k
    BY Zenon, <2>2
  <2> HIDE DEF y, k
  <2>4. y = Window!Plus(base, k)
    BY Zenon, <1>3, <2>3, AtDist
  <2> QED
    BY Zenon, <2>4 DEF y, k
<1>12. r = [i \in 1 .. Len(pkts) |-> h[pkts[i]]]
  BY Zenon DEF Released, pkts, h
<1>13. r = [i \in 1 .. Len(pkts) |-> Window!Plus(base, i - 1)]
  BY Zenon, <1>11, <1>12
<1>14. DOMAIN r = 1 .. Len(pkts)
  BY Zenon, <1>12
<1> HIDE DEF r
<1> QED
  BY Zenon, <1>1, <1>3, <1>13, <1>14

LEMMA GapAwaited ==
    ASSUME RingFacts, PowersOfTwo
    PROVE  Spec => HoldsForGap
<1>1. ASSUME RInv
      PROVE  \A s \in Sent :
                /\ buf.init /\ RecvInserted(s)
                /\ Window!Dist(buf.min, s) < buf.size
                => out'.pkts = [i \in DOMAIN out'.pkts |-> Window!Plus(buf.min, i - 1)]
  <2> SUFFICES ASSUME NEW s \in Sent, buf.init, RecvInserted(s), Window!Dist(buf.min, s) < buf.size
               PROVE  out'.pkts = [i \in DOMAIN out'.pkts |-> Window!Plus(buf.min, i - 1)]
    OBVIOUS
  <2>1. s \in Seqs
    BY Zenon, SentAssumption
  <2> QED
    BY Zenon, <1>1, <2>1, GapKept
<1>2. RInv => [\A s \in Sent :
                /\ buf.init /\ RecvInserted(s)
                /\ Window!Dist(buf.min, s) < buf.size
                => out'.pkts = [i \in DOMAIN out'.pkts |-> Window!Plus(buf.min, i - 1)]]_vars
  BY Zenon, <1>1
<1>3. Spec => []RInv
  BY Zenon, RInvAlways
<1> QED
  BY <1>2, <1>3, PTL DEF Spec, HoldsForGap

(* What is proved of module Reorder, for the state of this one.            *)
WindowProofs == INSTANCE ReorderProofs WITH
    size   <- buf.size,
    init   <- buf.init,
    minSeq <- buf.min,
    held   <- pkt,
    ring   <- {buf.order[i] : i \in DOMAIN buf.order} \ {NoPkt},
    out    <- [via |-> out.via, pkts |-> Range(out.pkts)]

LEMMA SameOperators ==
    /\ WindowProofs!Seqs = Seqs
    /\ \A x, y : Window!Dist(x, y) = WindowProofs!Dist(x, y)
    /\ \A x, y : Window!After(x, y) <=> WindowProofs!After(x, y)
BY Zenon DEF Seqs, WindowProofs!Seqs, Window!Dist, WindowProofs!Dist, Window!After,
   WindowProofs!After

LEMMA SameInsert ==
    ASSUME NEW s, NEW e, Window!RecvInsert(s, e)
    PROVE  WindowProofs!RecvInsert(s, e)
BY Zenon DEF Window!RecvInsert, WindowProofs!RecvInsert, Window!Forced, WindowProofs!Forced,
       Window!Dist, WindowProofs!Dist, Window!Base, WindowProofs!Base, Window!NoRoom, WindowProofs!NoRoom,
       Window!Plus, WindowProofs!Plus, Window!Inject, WindowProofs!Inject, Window!Packets, WindowProofs!Packets,
       Window!DrainTimer, WindowProofs!DrainTimer, Window!Used, WindowProofs!Used

LEMMA SameNoRoom ==
    ASSUME NEW s, NEW e, Window!RecvNoRoom(s, e)
    PROVE  WindowProofs!RecvNoRoom(s, e)
BY Zenon DEF Window!RecvNoRoom, WindowProofs!RecvNoRoom, Window!Dist, WindowProofs!Dist,
       Window!Base, WindowProofs!Base, Window!NoRoom, WindowProofs!NoRoom, Window!Inject, WindowProofs!Inject,
       Window!Packets, WindowProofs!Packets, Window!Used, WindowProofs!Used, Window!ResetRing, WindowProofs!ResetRing

LEMMA SameRecv ==
    ASSUME NEW s, NEW reorder, Window!Recv(s, reorder)
    PROVE  WindowProofs!Recv(s, reorder)
<1>1. Window!RecvUnordered(s, reorder) => WindowProofs!RecvUnordered(s, reorder)
  BY Zenon DEF Window!RecvUnordered, WindowProofs!RecvUnordered, Window!Inject, WindowProofs!Inject
<1>2. Window!RecvPoolFull(s) => WindowProofs!RecvPoolFull(s)
  BY Zenon DEF Window!RecvPoolFull, WindowProofs!RecvPoolFull, Window!Inject, WindowProofs!Inject,
         Window!Used, WindowProofs!Used
<1>3. ASSUME NEW e, Window!RecvOutOfRange(s, e) PROVE WindowProofs!RecvOutOfRange(s, e)
  BY Zenon, <1>3 DEF Window!RecvOutOfRange, WindowProofs!RecvOutOfRange, Window!Inject,
     WindowProofs!Inject,
         Window!Dist, WindowProofs!Dist, Window!Base, WindowProofs!Base
<1> QED
  BY Zenon, <1>1, <1>2, <1>3, SameNoRoom, SameInsert DEF Window!Recv, WindowProofs!Recv

LEMMA SameFlush == Window!FlushPool => WindowProofs!FlushPool
BY Zenon DEF Window!FlushPool, WindowProofs!FlushPool, Window!Inject, WindowProofs!Inject,
       Window!Packets, WindowProofs!Packets, Window!Used, WindowProofs!Used, Window!ResetRing, WindowProofs!ResetRing

LEMMA SameNext == Window!Next => WindowProofs!Next
<1>1. Window!DrainTimeout => WindowProofs!DrainTimeout
  BY ZenonT(30), SameFlush DEF Window!DrainTimeout, WindowProofs!DrainTimeout
<1>2. Window!TunnelChange => WindowProofs!TunnelChange
  BY Zenon, SameFlush DEF Window!TunnelChange, WindowProofs!TunnelChange
<1>3. ASSUME NEW n, NEW restart, Window!Reload(n, restart) PROVE WindowProofs!Reload(n, restart)
  BY Zenon, <1>3, SameFlush DEF Window!Reload, WindowProofs!Reload, Window!Inject,
     WindowProofs!Inject,
         Window!ResetRing, WindowProofs!ResetRing
<1> QED
  BY Zenon, <1>1, <1>2, <1>3, SameRecv DEF Window!Next, WindowProofs!Next

LEMMA SameInit == Window!Init => WindowProofs!Init
BY Zenon DEF Window!Init, WindowProofs!Init

LEMMA SameVars == UNCHANGED Window!vars => UNCHANGED WindowProofs!vars
BY Zenon DEF Window!vars, WindowProofs!vars

LEMMA WindowAssumptions ==
    /\ NoPkt \notin WindowProofs!Seqs /\ Sent \subseteq WindowProofs!Seqs
    /\ SeqSpace \in Nat \ {0} /\ \A n \in Sizes : 8 * n <= SeqSpace
    /\ Sizes \subseteq Nat \ {0}
BY Zenon, SizesAssumption, SeqSpaceAssumption, SentAssumption DEF WindowProofs!Seqs, Seqs

LEMMA InitWInv ==
    ASSUME Init
    PROVE  WindowProofs!IInv
BY Zenon, InitRefines, SameInit, WindowAssumptions, WindowProofs!InitIInv

LEMMA StepWInv ==
    ASSUME RingFacts, PowersOfTwo, RInv, WindowProofs!IInv, [Next]_vars
    PROVE  WindowProofs!IInv'
<1>1. [Window!Next]_(Window!vars)
  BY Zenon, StepRInv
<1>2. [WindowProofs!Next]_(WindowProofs!vars)
  BY Zenon, <1>1, SameNext, SameVars
<1> QED
  BY Zenon, <1>2, WindowAssumptions, WindowProofs!NextKeepsIInv

(* The packets of one release, in the order of the ring.                   *)
LEMMA AfterIs ==
    ASSUME NEW n \in Sizes, NEW base \in Seqs, NEW x \in Seqs, NEW y \in Seqs,
           Window!Dist(base, x) < Window!Dist(base, y), Window!Dist(base, y) <= 2 * n
    PROVE  Window!After(x, y)
<1>1. n \in Nat /\ SeqSpace \in Nat /\ 8 * n <= SeqSpace
  BY Zenon, SizesAssumption, SeqSpaceAssumption
<1> QED
  BY SMTT(30), <1>1 DEF Window!After, Window!Dist, Seqs

LEMMA ReleaseAscends ==
    ASSUME RingFacts, PowersOfTwo, RInv, NEW s \in Seqs, RecvInserted(s)
    PROVE  /\ out'.pkts = Released(s) /\ Len(Released(s)) \in Nat
           /\ \A i \in 1 .. Len(Released(s)), j \in 1 .. Len(Released(s)) :
                 i < j => Window!After(Released(s)[i], Released(s)[j])
<1> DEFINE n == buf.size
           pkts == DrainedOf(s).pkts
           L == KeptWith(s)
           P == AheadWith(s)
           h == Copied(s)
           base == BaseOf(buf, s)
           r == Released(s)
           m == ForcedBy(n, DistOf(s))
<1>1. n > 0 /\ free # <<>> /\ out'.pkts = r
  <2>1. n > 0 /\ free # <<>> /\ Inject("ring", r, {s})
    BY Zenon, InsertedIs
  <2>2. out' = [via |-> "ring", pkts |-> r]
    BY Zenon, <2>1 DEF Inject
  <2> QED
    BY Zenon, <2>1, <2>2
<1>2. Meets(s)
  BY Zenon, <1>1, MeetsNow
<1>3. base \in Seqs /\ n \in Sizes
  BY Zenon, <1>2 DEF Meets
<1>4. PICK a \in Nat : Moves(s, a)
  BY Zenon, InsertedMoves
<1>5. /\ pkts \in Seq(Entries) /\ IsDrained(DrainedOf(s).ring, pkts, n, L, P, m, a, base)
      /\ \A f \in L : P[f] \in 0 .. 2 * n - 1
  BY Zenon, <1>4 DEF Moves
<1>6. LineOK(DrainedOf(s).ring, pkts, n, L, P, a)
  BY Zenon, <1>5 DEF IsDrained
<1>7. /\ \A i \in 1 .. Len(pkts) : pkts[i] \in L
      /\ \A i, j \in 1 .. Len(pkts) : i < j => P[pkts[i]] < P[pkts[j]]
  BY Zenon, <1>6 DEF LineOK
<1>8. \A f \in L : h[f] \in Seqs /\ P[f] = Window!Dist(base, h[f])
  BY Zenon, <1>1, <1>2, KeptFacts
<1>9. Len(r) = Len(pkts) /\ \A i \in 1 .. Len(pkts) : r[i] = h[pkts[i]]
  BY Zenon, <1>5, ReleasedIs
<1>10. n \in Nat
  BY Zenon, <1>3 DEF RingFacts, SizeFact
<1> HIDE DEF pkts, L, P, h, base, r, n, m
<1>11. \A k \in 0 .. 2 * n - 1 : k <= 2 * n
  BY SMTT(30), <1>10
<1>12. \A i, j \in 1 .. Len(pkts) : i < j => Window!After(r[i], r[j])
  <2> SUFFICES ASSUME NEW i \in 1 .. Len(pkts), NEW j \in 1 .. Len(pkts), i < j
               PROVE  Window!After(r[i], r[j])
    OBVIOUS
  <2> DEFINE x == r[i]
             y == r[j]
  <2>1. pkts[i] \in L /\ pkts[j] \in L /\ P[pkts[i]] < P[pkts[j]] /\ x = h[pkts[i]] /\ y = h[pkts[j]]
    BY Zenon, <1>7, <1>9
  <2>2. /\ x \in Seqs /\ y \in Seqs /\ P[pkts[i]] = Window!Dist(base, x) /\ P[pkts[j]] = Window!Dist(base, y)
        /\ P[pkts[j]] <= 2 * n
    BY Zenon, <1>5, <1>8, <1>11, <2>1
  <2> HIDE DEF x, y
  <2>3. Window!Dist(base, x) < Window!Dist(base, y) /\ Window!Dist(base, y) <= 2 * n
    BY Zenon, <2>1, <2>2
  <2>4. Window!After(x, y)
    BY Zenon, <1>3, <2>2, <2>3, AfterIs
  <2> QED
    BY Zenon, <2>4 DEF x, y
<1>13. Len(pkts) \in Nat
  BY <1>5
<1> QED
  BY Zenon, <1>1, <1>9, <1>12, <1>13 DEF r

LEMMA ReleaseFollows ==
    ASSUME RingFacts, PowersOfTwo, RInv, WindowProofs!IInv, NEW s \in Sent, RecvInserted(s), last # NoPkt
    PROVE  \A r \in Range(out'.pkts) : Window!After(last, r)
<1>1. s \in Seqs
  BY Zenon, SentAssumption
<1>2. PICK e \in Entries : Window!RecvInsert(s, e)
  BY Zenon, <1>1, InsertedRefines
<1>3. WindowProofs!RecvInsert(s, e)
  BY Zenon, <1>2, SameInsert
<1>4. \A r \in ([via |-> out.via, pkts |-> Range(out.pkts)]').pkts : WindowProofs!After(last, r)
  BY Zenon, <1>3, WindowAssumptions, WindowProofs!InsertKeepsIInv
<1>5. \A r \in Range(out'.pkts) : WindowProofs!After(last, r)
  BY ZenonT(30), <1>4
<1> QED
  BY Zenon, <1>5, SameOperators

Follows(p, x, q) ==
    Len(p) = Len(q) + 1 /\ p[1] = x /\ \A i \in 1 .. Len(q) : p[i + 1] = q[i]

LEMMA JoinFacts ==
    ASSUME NEW S, NEW q \in Seq(S), NEW x \in S
    PROVE  Follows(<<x>> \o q, x, q)
<1>1. Len(<<x>> \o q) = Len(q) + 1 /\ (<<x>> \o q)[1] = x
  OBVIOUS
<1>2. \A i \in 1 .. Len(q) : (<<x>> \o q)[i + 1] = q[i]
  OBVIOUS
<1> QED
  BY Zenon, <1>1, <1>2 DEF Follows

LEMMA FirstFacts ==
    ASSUME NEW S, NEW q \in Seq(S)
    PROVE  <<>> \o q = q /\ Len(q) \in Nat /\ (q # <<>> => q[1] \in Range(q))
<1>1. Range(q) = {q[i] : i \in 1 .. Len(q)}
  BY Zenon, RangeOf
<1>2. q # <<>> => 1 \in 1 .. Len(q)
  OBVIOUS
<1>3. <<>> \o q = q /\ Len(q) \in Nat
  OBVIOUS
<1> QED
  BY Zenon, <1>1, <1>2, <1>3

LEMMA ReleasedSeq ==
    ASSUME RingFacts, PowersOfTwo, RInv, NEW s \in Seqs, RecvInserted(s)
    PROVE  Released(s) \in Seq(Seqs \cup {NoPkt, last})
<1> DEFINE T == Seqs \cup {NoPkt, last}
           pkts == DrainedOf(s).pkts
           h == Copied(s)
           r == Released(s)
<1>1. free # <<>>
  BY Zenon, InsertedIs
<1>2. Holds(h, GotUsed)
  BY Zenon, <1>1, CopiedHolds
<1>3. r = [i \in 1 .. Len(pkts) |-> h[pkts[i]]]
  BY Zenon DEF Released
<1>4. PICK a \in Nat : Moves(s, a)
  BY Zenon, InsertedMoves
<1>5. pkts \in Seq(Entries)
  BY Zenon, <1>4 DEF Moves
<1> HIDE DEF pkts, h, r
<1>6. \A f \in Entries : h[f] \in T
  BY Zenon, <1>2 DEF Holds
<1> HIDE DEF T
<1>7. Len(pkts) \in Nat /\ \A i \in 1 .. Len(pkts) : pkts[i] \in Entries
  BY <1>5
<1>8. \A i \in 1 .. Len(pkts) : h[pkts[i]] \in T
  BY Zenon, <1>6, <1>7
<1>9. r \in Seq(T)
  <2> DEFINE k == Len(pkts)
             x(i) == h[pkts[i]]
  <2>1. r = [i \in 1 .. k |-> x(i)] /\ k \in Nat /\ \A i \in 1 .. k : x(i) \in T
    BY Zenon, <1>3, <1>7, <1>8
  <2> HIDE DEF k, x
  <2> QED
    BY <2>1
<1> QED
  BY Zenon, <1>9 DEF r, T

LEMMA LineAscends ==
    ASSUME RingFacts, PowersOfTwo, RInv, WindowProofs!IInv, NEW s \in Sent, RecvInserted(s)
    PROVE  LET line == (IF last = NoPkt THEN <<>> ELSE <<last>>) \o out'.pkts
           IN  \A i \in 1 .. Len(line) - 1 : Window!After(line[i], line[i + 1])
<1> DEFINE q == Released(s)
           T == Seqs \cup {NoPkt, last}
           long == <<last>> \o q
           short == <<>> \o q
<1>1. s \in Seqs
  BY Zenon, SentAssumption
<1>2. out'.pkts = q /\ q \in Seq(T) /\ last \in T
  BY Zenon, <1>1, ReleaseAscends, ReleasedSeq
<1>3. \A i, j \in 1 .. Len(q) : i < j => Window!After(q[i], q[j])
  BY Zenon, <1>1, ReleaseAscends
<1>4. last # NoPkt => \A r \in Range(q) : Window!After(last, r)
  BY Zenon, <1>2, ReleaseFollows
<1> HIDE DEF q, T
<1>5. /\ Len(long) = Len(q) + 1 /\ long[1] = last
      /\ \A i \in 1 .. Len(q) : long[i + 1] = q[i]
      /\ short = q /\ Len(q) \in Nat
      /\ q # <<>> => q[1] \in Range(q)
  <2>1. short = q /\ Len(q) \in Nat /\ (q # <<>> => q[1] \in Range(q))
    BY Zenon, <1>2, FirstFacts
  <2>2. Follows(long, last, q)
    BY Zenon, <1>2, JoinFacts
  <2> HIDE DEF long, short
  <2> QED
    BY Zenon, <2>1, <2>2 DEF Follows
<1> HIDE DEF long, short
<1>6. \A i \in 1 .. Len(q) - 1 : Window!After(q[i], q[i + 1])
  <2> SUFFICES ASSUME NEW i \in 1 .. Len(q) - 1 PROVE Window!After(q[i], q[i + 1])
    OBVIOUS
  <2>1. i \in 1 .. Len(q) /\ i + 1 \in 1 .. Len(q) /\ i < i + 1
    BY SMTT(30), <1>5
  <2> QED
    BY Zenon, <1>3, <2>1
<1>7. ASSUME last # NoPkt, NEW i \in 1 .. Len(long) - 1
      PROVE  Window!After(long[i], long[i + 1])
  <2>1. i \in 1 .. Len(q)
    BY SMT, <1>5
  <2>2. long[i + 1] = q[i]
    BY Zenon, <1>5, <2>1
  <2>3. CASE i = 1
    <3>1. q # <<>>
      <4>1. Len(q) # 0
        BY SMT, <1>5, <2>1
      <4> QED
        BY <4>1
    <3>2. Window!After(last, q[1])
      BY Zenon, <1>4, <1>5, <1>7, <3>1
    <3> QED
      BY Zenon, <1>5, <2>2, <2>3, <3>2
  <2>4. CASE i # 1
    <3> DEFINE j == i - 1
    <3>1. j \in 1 .. Len(q) - 1 /\ j \in 1 .. Len(q) /\ i = j + 1
      BY SMTT(30), <1>5, <2>1, <2>4
    <3> HIDE DEF j
    <3>2. long[j + 1] = q[j] /\ Window!After(q[j], q[j + 1])
      BY Zenon, <1>5, <1>6, <3>1
    <3> QED
      BY Zenon, <2>2, <3>1, <3>2
  <2> QED
    BY Zenon, <2>3, <2>4
<1>8. CASE last = NoPkt
  <2>1. (IF last = NoPkt THEN <<>> ELSE <<last>>) \o out'.pkts = q
    BY Zenon, <1>2, <1>5, <1>8 DEF short
  <2> QED
    BY Zenon, <1>6, <2>1
<1>9. CASE last # NoPkt
  <2>1. (IF last = NoPkt THEN <<>> ELSE <<last>>) \o out'.pkts = long
    BY Zenon, <1>2, <1>9 DEF long
  <2> QED
    BY Zenon, <1>7, <1>9, <2>1
<1> QED
  BY Zenon, <1>8, <1>9

LEMMA OnlyRing ==
    ASSUME Next, out'.via = "ring"
    PROVE  \E s \in Sent : RecvInserted(s)
<1>1. ASSUME NEW q, NEW rec
      PROVE  ~Inject("direct", q, rec) /\ ~Inject("flush", q, rec) /\ ~Inject("none", q, rec)
  BY SMT DEF Inject
<1>2. ASSUME NEW s \in Sent, NEW reorder \in BOOLEAN, Recv(s, reorder) PROVE RecvInserted(s)
  <2>1. ~RecvUnordered(s, reorder)
    BY ZenonT(30), <1>1 DEF RecvUnordered
  <2>2. ~RecvPoolFull(s)
    BY Zenon, <1>1 DEF RecvPoolFull
  <2>3. ~RecvOutOfRange(s)
    BY Zenon, <1>1 DEF RecvOutOfRange
  <2>4. ~RecvNoRoom(s)
    BY Zenon, <1>1 DEF RecvNoRoom, ForcedDrain
  <2> QED
    BY Zenon, <1>2, <2>1, <2>2, <2>3, <2>4 DEF Recv
<1>3. ~DrainTimeout /\ ~TunnelChange
  BY Zenon, <1>1 DEF DrainTimeout, TunnelChange, ForcedDrain
<1>4. ASSUME NEW n, NEW restart PROVE ~Reload(n, restart)
  BY Zenon, <1>1 DEF Reload, ForcedDrain
<1> QED
  BY Zenon, <1>2, <1>3, <1>4 DEF Next

LEMMA WInvAlways ==
    ASSUME RingFacts, PowersOfTwo
    PROVE  Spec => [](RInv /\ WindowProofs!IInv)
<1>1. Init => RInv /\ WindowProofs!IInv
  BY Zenon, InitRInv, InitWInv
<1>2. RInv /\ WindowProofs!IInv /\ [Next]_vars => RInv' /\ WindowProofs!IInv'
  BY Zenon, StepRInv, StepWInv
<1> QED
  BY <1>1, <1>2, PTL DEF Spec

LEMMA OrderKept ==
    ASSUME RingFacts, PowersOfTwo
    PROVE  Spec => ReleasedInOrder
<1>1. ASSUME RInv, WindowProofs!IInv, [Next]_vars
      PROVE  [LET line == (IF last = NoPkt THEN <<>> ELSE <<last>>) \o out'.pkts
              IN  out'.via = "ring" =>
                     \A i \in 1 .. Len(line) - 1 : Window!After(line[i], line[i + 1])]_vars
  <2>1. CASE UNCHANGED vars
    BY Zenon, <2>1
  <2>2. CASE Next
    <3> SUFFICES ASSUME out'.via = "ring"
                 PROVE  LET line == (IF last = NoPkt THEN <<>> ELSE <<last>>) \o out'.pkts
                        IN  \A i \in 1 .. Len(line) - 1 : Window!After(line[i], line[i + 1])
      BY Zenon
    <3>1. PICK s \in Sent : RecvInserted(s)
      BY Zenon, <2>2, OnlyRing
    <3> QED
      BY Zenon, <1>1, <3>1, LineAscends
  <2> QED
    BY Zenon, <1>1, <2>1, <2>2
<1>2. Spec => [](RInv /\ WindowProofs!IInv)
  BY Zenon, WInvAlways
<1> QED
  BY <1>1, <1>2, PTL DEF Spec, ReleasedInOrder

LEMMA NothingLost ==
    ASSUME RingFacts, PowersOfTwo
    PROVE  Spec => [](Window!NoLoss /\ Window!TimerCoversOwed)
<1>1. WindowProofs!IInv => Window!NoLoss /\ Window!TimerCoversOwed
  BY Zenon DEF WindowProofs!IInv, WindowProofs!NoLoss, WindowProofs!TimerCoversOwed,
         Window!NoLoss, Window!TimerCoversOwed
<1>2. Spec => [](RInv /\ WindowProofs!IInv)
  BY Zenon, WInvAlways
<1> QED
  BY <1>1, <1>2, PTL


=============================================================================
