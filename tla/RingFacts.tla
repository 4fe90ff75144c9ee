------------------------------ MODULE RingFacts ------------------------------
(***************************************************************************)
(* What the rings of ReorderRing and the lists of the pool do, as the      *)
(* proofs of RecvPathProofs use it: first for every size, then for sizes   *)
(* that are powers of two.  RingProofs proves each of the facts.           *)
(***************************************************************************)
EXTENDS RecvPath

(* Positions.  The heads of the rings go through Turn(n) places, and Gap   *)
(* counts the places from one position to another.                         *)
Turn(n) == CHOOSE c \in 1 .. n : \A x \in 0 .. c - 1 : BitAnd(x + 1, n - 1) = (x + 1) % c

Succ(c, x) == IF x + 1 < c THEN x + 1 ELSE 0

Gap(c, x, y) == IF x <= y THEN y - x ELSE y - x + c

(* The buffers, between and within handlers.                               *)
Slots == Entries \cup {NoPkt}

Rings(n) ==
    [size : {n}, init : BOOLEAN, min : Seqs,
     ohead : 0 .. n - 1, order : [0 .. n - 1 -> Slots],
     rhead : 0 .. n - 1, rtail : 0 .. n - 1, ready : [0 .. n - 1 -> Slots]]

(* The heads are where they can get to, and order_buf points to entries of *)
(* a set U, to each at most once.                                          *)
RingOK(b, n, U) ==
    /\ b \in Rings(n)
    /\ {b.ohead, b.rhead, b.rtail} \subseteq 0 .. Turn(n) - 1
    /\ \A i \in 0 .. n - 1 : b.order[i] # NoPkt => b.order[i] \in U
    /\ \A i, j \in 0 .. n - 1 : b.order[i] = b.order[j] /\ b.order[i] # NoPkt => i = j

(* The positions of ready_buf that hold a packet, and these packets: from  *)
(* U, once each, and no longer in order_buf.                               *)
Waiting(b, n) ==
    {p \in 0 .. Turn(n) - 1 : Gap(Turn(n), b.rtail, p) < Gap(Turn(n), b.rtail, b.rhead)}

WaitOK(b, n, U) ==
    /\ \A p \in Waiting(b, n) : b.ready[p] \in U \ {NoPkt}
    /\ \A p, q \in Waiting(b, n) : b.ready[p] = b.ready[q] => p = q
    /\ \A p \in Waiting(b, n), i \in 0 .. n - 1 : b.ready[p] # b.order[i]

(* The number of packets in ready_buf.                                     *)
Left(b, n) == Gap(Turn(n), b.rtail, b.rhead)

(* The ring a packet is inserted in: the first one sets where it starts.   *)
Based(b, s) == IF b.init THEN b ELSE [b EXCEPT !.init = TRUE, !.min = s]

(* q lists the elements of R, once each.                                   *)
IsListOf(q, S, R) == q \in Seq(S) /\ IsInjective(q) /\ Range(q) = R

(* What the drain has taken is from U, once each, and no longer in the     *)
(* buffers.                                                                *)
TakenOK(b, pkts, n, U) ==
    /\ IsInjective(pkts) /\ Range(pkts) \subseteq U
    /\ \A p \in Waiting(b, n) : b.ready[p] \notin Range(pkts)
    /\ \A i \in 0 .. n - 1 : b.order[i] \notin Range(pkts)

(* What a size that is a power of two is to the code: the mask takes a     *)
(* position modulo the size.                                               *)
PowersOfTwo == \A n \in Sizes : \A x \in 0 .. 2 * SeqSpace : BitAnd(x, n - 1) = x % n

(* The entries in order_buf, and how far ahead of base the packet in each  *)
(* entry is.                                                               *)
RingOf(b) == {b.order[i] : i \in DOMAIN b.order} \ {NoPkt}

Ahead(base, h) == [f \in Entries |-> Window!Dist(base, h[f])]

(* order_buf, whose head has moved a places, holds the entries of K from   *)
(* there on, each at the place its distance P gives.                       *)
SlotsOK(b, n, K, P, a) ==
    /\ \A i \in 0 .. n - 1 : b.order[i] # NoPkt =>
          b.order[i] \in K /\ P[b.order[i]] = a + Gap(n, b.ohead, i)
    /\ \A f \in K : P[f] >= a => \E i \in 0 .. n - 1 : b.order[i] = f

(* What has left order_buf is in ready_buf or, before that, among the      *)
(* packets drained, in the order of the distances.                         *)
LineOK(b, pkts, n, K, P, a) ==
    /\ \A p \in Waiting(b, n) : b.ready[p] \in K /\ P[b.ready[p]] < a
    /\ \A i \in 1 .. Len(pkts) : pkts[i] \in K /\ P[pkts[i]] < a
    /\ \A f \in K : P[f] < a => f \in Range(pkts) \/ \E p \in Waiting(b, n) : b.ready[p] = f
    /\ \A p, q \in Waiting(b, n) :
          Gap(n, b.rtail, p) < Gap(n, b.rtail, q) => P[b.ready[p]] < P[b.ready[q]]
    /\ \A i \in 1 .. Len(pkts), p \in Waiting(b, n) : P[pkts[i]] < P[b.ready[p]]
    /\ \A i, j \in 1 .. Len(pkts) : i < j => P[pkts[i]] < P[pkts[j]]

(* mlvpn_reorder_insert: entry e takes over the place of one with the same *)
(* sequence number.                                                        *)
Kept(K, P, e) == {f \in K : P[f] # P[e]} \cup {e}

BaseOf(b, s) == IF b.init THEN b.min ELSE s

(* What holds of the buffer in the state and of the distances P of its     *)
(* entries K when entry e is inserted.                                     *)
Ready(b, n, U, K, P, e, s) ==
    /\ RingOK(b, n, U) /\ b.rhead = b.rtail
    /\ SlotsOK(b, n, K, P, 0) /\ \A f \in K : P[f] \in 1 .. n - 1
    /\ e \notin K /\ P[e] = Window!Dist(BaseOf(b, s), s)

(* The four ways through mlvpn_reorder_insert.                             *)
Inserting(b, e, s, n, q, d, over) ==
    IF d < n THEN [ring |-> Put(q, d, e), ret |-> 0]
    ELSE IF d >= 2 * n THEN [ring |-> q, ret |-> -2]
    ELSE IF over.adv < d + 1 - n THEN [ring |-> over.ring, ret |-> -1]
    ELSE [ring |-> Put(over.ring, (s - over.ring.min) % SeqSpace, e), ret |-> 0]

(* What an insertion that makes the window move by a places leaves, m of   *)
(* them to make room.                                                      *)
IsInserted(q, n, K, P, m, a, base) ==
    /\ q.init = TRUE /\ q.min = Window!Plus(base, a) /\ a \in m .. n
    /\ SlotsOK(q, n, K, P, a) /\ LineOK(q, <<>>, n, K, P, a)
    /\ \A j \in m .. a - 1 : \E f \in K : P[f] = j
    /\ m = 0 => a = 0 /\ Left(q, n) = 0

(* What the drain leaves: the window has moved over every packet that was  *)
(* next in sequence, and these packets are what it returns, in order.      *)
IsDrained(q, pkts, n, K, P, m, a, base) ==
    /\ q.init = TRUE /\ q.min = Window!Plus(base, a) /\ a \in m .. 2 * n
    /\ SlotsOK(q, n, K, P, a) /\ LineOK(q, pkts, n, K, P, a)
    /\ \A j \in m .. a - 1 : \E f \in K : P[f] = j
    /\ m = 0 => Len(pkts) = a /\ \A i \in 1 .. Len(pkts) : P[pkts[i]] = i - 1
    /\ q.rtail = q.rhead /\ AtHead(q) = NoPkt

-----------------------------------------------------------------------------
(* For every size.                                                         *)

(* The heads go round Turn(n) places, and a masked position is one of the  *)
(* buffer.                                                                 *)
TurnFact ==
    \A n \in Sizes :
       /\ n \in Nat \ {0} /\ 8 * n <= SeqSpace /\ SeqSpace \in Nat
       /\ Turn(n) \in 1 .. n
       /\ \A x \in 0 .. Turn(n) - 1 :
             /\ Succ(Turn(n), x) \in 0 .. Turn(n) - 1
             /\ BitAnd(x + 1, n - 1) = Succ(Turn(n), x)
       /\ \A x \in 0 .. 2 * SeqSpace : BitAnd(x, n - 1) \in 0 .. n - 1

(* mlvpn_reorder_insert keeps both buffers sound; if it finds the packet   *)
(* out of range it leaves ready_buf empty.                                 *)
InsertOKFact ==
    \A n \in Sizes : \A U, b : \A e \in Entries, s \in Seqs :
       RingOK(b, n, U) /\ b.rhead = b.rtail /\ e \notin U =>
       LET r == Insert(b, e, s)
       IN  /\ r.ret = 0 => RingOK(r.ring, n, U \cup {e}) /\ WaitOK(r.ring, n, U \cup {e})
           /\ r.ret = -2 => RingOK(r.ring, n, U) /\ r.ring.rhead = r.ring.rtail

(* mlvpn_reorder_drain keeps both buffers sound, empties ready_buf and     *)
(* returns no entry twice.                                                 *)
DrainedOKFact ==
    \A n \in Sizes, U \in SUBSET Entries : \A b :
       RingOK(b, n, U) /\ WaitOK(b, n, U) =>
       /\ RingOK(Drain(b).ring, n, U) /\ Drain(b).ring.rhead = Drain(b).ring.rtail
       /\ Drain(b).pkts \in Seq(Entries)
       /\ TakenOK(Drain(b).ring, Drain(b).pkts, n, U)

(* The lists of the pool: an entry more at the end,                        *)
AppendFact ==
    \A S : \A q \in Seq(S), x \in S :
       IsInjective(q) /\ x \notin Range(q) =>
       IsListOf(Append(q, x), S, Range(q) \cup {x})

(* entries that leave their list,                                          *)
WithoutOKFact ==
    \A u \in Seq(Entries) : \A S :
       IsInjective(u) =>
       IsListOf(Without(u, S), Entries, Range(u) \ S)

(* entries moved to the head of a list one after the other,                *)
ReversedOKFact ==
    \A S : \A q \in Seq(S) :
       IsInjective(q) =>
       IsListOf(Reversed(q), S, Range(q))

(* a list before another,                                                  *)
ConcatOKFact ==
    \A S : \A q \in Seq(S), r \in Seq(S) :
       IsInjective(q) /\ IsInjective(r) /\ Range(q) \cap Range(r) = {} =>
       IsListOf(q \o r, S, Range(q) \cup Range(r))

(* and a list without its first entry.                                     *)
TailOKFact ==
    \A S : \A q \in Seq(S) :
       IsInjective(q) /\ q # <<>> =>
       /\ Head(q) \in Range(q) /\ Head(q) \in S
       /\ IsListOf(Tail(q), S, Range(q) \ {Head(q)})

(* Powers of two: the heads go through the whole buffer.                   *)
SizeFact ==
    \A n \in Sizes :
       PowersOfTwo =>
       n \in Nat \ {0} /\ 8 * n <= SeqSpace /\ SeqSpace \in Nat \ {0} /\ Turn(n) = n

(* Distances round a ring.                                                 *)
GapFact ==
    \A n \in Nat \ {0} : \A x \in 0 .. n - 1, y \in 0 .. n - 1 :
       /\ Gap(n, x, y) \in 0 .. n - 1
       /\ Gap(n, x, y) = 0 <=> x = y
       /\ x # y => Gap(n, Succ(n, x), y) = Gap(n, x, y) - 1

(* The entry at the head of order_buf is the one whose packet is next.     *)
HeadIsNextFact ==
    \A n \in Sizes : \A b \in Rings(n), K \in SUBSET Entries : \A P : \A a \in Nat :
       PowersOfTwo /\ SlotsOK(b, n, K, P, a) =>
       /\ AtHead(b) # NoPkt => AtHead(b) \in K /\ P[AtHead(b)] = a
       /\ \A f \in K : P[f] = a => AtHead(b) = f

(* mlvpn_reorder_insert goes one of four ways, by the distance of the      *)
(* packet.                                                                 *)
InsertIsFact ==
    \A n \in Sizes : \A U, b, e : \A s \in Seqs :
       RingOK(b, n, U) /\ b.rhead = b.rtail =>
       LET q == Based(b, s)
           d == Window!Dist(BaseOf(b, s), s)
       IN  /\ BaseOf(b, s) \in Seqs /\ d \in Seqs
           /\ Insert(b, e, s) = Inserting(b, e, s, n, q, d, FillOverflow(q, d + 1 - n))

(* ready_buf is empty when its head is its tail.                           *)
NoneWaitingFact ==
    \A n \in Sizes : \A U, b :
       PowersOfTwo /\ RingOK(b, n, U) /\ b.rhead = b.rtail =>
       Waiting(b, n) = {} /\ Left(b, n) = 0

(* A packet within the window is stored, and the window stays.             *)
InsertNearFact ==
    \A n \in Sizes : \A U, b : \A K \in SUBSET Entries : \A P : \A e \in Entries, s \in Seqs :
       PowersOfTwo /\ Ready(b, n, U, K, P, e, s) /\ P[e] < n =>
       /\ Insert(b, e, s).ret = 0
       /\ IsInserted(Insert(b, e, s).ring, n, Kept(K, P, e), P, 0, 0, BaseOf(b, s))

(* A packet two windows ahead, or behind, is out of range; only the first  *)
(* packet of all changes anything, and it is never that far.               *)
InsertFarFact ==
    \A n \in Sizes : \A U, b, e : \A s \in Seqs :
       RingOK(b, n, U) /\ b.rhead = b.rtail /\ Window!Dist(BaseOf(b, s), s) >= 2 * n =>
       Insert(b, e, s) = [ring |-> Based(b, s), ret |-> -2]

(* The distance from a window that has moved.                              *)
DistFromPlusFact ==
    \A x \in Seqs, y \in Seqs, k \in Nat :
       k <= Window!Dist(x, y) =>
       Window!Dist(Window!Plus(x, k), y) = Window!Dist(x, y) - k /\ k \in Seqs

(* A packet in the next window makes the window move, over gaps until      *)
(* there is room for it, and is stored.                                    *)
InsertOverFact ==
    \A n \in Sizes : \A U, b : \A K \in SUBSET Entries : \A P : \A e \in Entries, s \in Seqs :
       PowersOfTwo /\ n # 1 /\ Ready(b, n, U, K, P, e, s) /\ P[e] \in n .. 2 * n - 1 =>
       /\ Insert(b, e, s).ret = 0
       /\ \E a \in Nat :
             IsInserted(Insert(b, e, s).ring, n, Kept(K, P, e), P, P[e] + 1 - n, a, BaseOf(b, s))

(* A buffer of one place cannot move its window over the packet it         *)
(* expects.                                                                *)
InsertNoRoomFact ==
    \A n \in Sizes : \A U, b : \A K \in SUBSET Entries : \A P : \A e \in Entries, s \in Seqs :
       PowersOfTwo /\ n < 2 /\ Ready(b, n, U, K, P, e, s) /\ P[e] = 1 =>
       Insert(b, e, s).ret = -1

(* mlvpn_reorder_drain after an insertion returns the packets that are     *)
(* next in sequence, in order.                                             *)
DrainedAtFact ==
    \A n \in Sizes, U \in SUBSET Entries, K \in SUBSET Entries :
    \A b, P : \A m \in Nat, start \in Nat, base \in Seqs :
       /\ PowersOfTwo
       /\ RingOK(b, n, U) /\ WaitOK(b, n, U) /\ IsInserted(b, n, K, P, m, start, base)
       /\ \A f \in K : P[f] \in 0 .. (start + n) - 1
       => \E a \in Nat : IsDrained(Drain(b).ring, Drain(b).pkts, n, K, P, m, a, base)

-----------------------------------------------------------------------------
(* What RecvPathProofs takes from the rings.                               *)
RingFacts ==
    /\ TurnFact
    /\ InsertOKFact
    /\ AppendFact
    /\ DrainedOKFact
    /\ WithoutOKFact
    /\ ReversedOKFact
    /\ ConcatOKFact
    /\ TailOKFact
    /\ SizeFact
    /\ GapFact
    /\ HeadIsNextFact
    /\ InsertIsFact
    /\ NoneWaitingFact
    /\ InsertNearFact
    /\ InsertFarFact
    /\ DistFromPlusFact
    /\ InsertOverFact
    /\ InsertNoRoomFact
    /\ DrainedAtFact

=============================================================================
