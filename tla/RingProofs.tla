----------------------------- MODULE RingProofs -----------------------------
(***************************************************************************)
(* Lemmas about the rings of ReorderRing and about the lists of the pool,  *)
(* for the proofs of module RecvPathProofs.  First for every size: no      *)
(* operation of mlvpn_reorder points to one entry twice or to a free one.  *)
(* Then for sizes that are powers of two: which packets an operation       *)
(* leaves in order_buf, at which place, and which it takes out.            *)
(***************************************************************************)
EXTENDS RingFacts, WellFoundedInduction, TLAPS

-----------------------------------------------------------------------------
(* Loops.                                                                  *)

LEMMA SetInduction ==
    ASSUME NEW S, 0 \in S, \A n \in Nat : n \in S => n + 1 \in S
    PROVE  Nat \subseteq S
<1> DEFINE T == Nat \ S
           R == OpToRel(<, Nat)
<1> SUFFICES ASSUME T # {} PROVE FALSE
  OBVIOUS
<1>1. \E x \in T : \A y \in T : ~ (<<y, x>> \in R)
  <2>1. IsWellFoundedOn(R, Nat)
    BY Zenon, NatLessThanWellFounded
  <2>2. T \subseteq Nat /\ T # {}
    BY Zenon
  <2> HIDE DEF T, R
  <2> QED
    BY Zenon, <2>1, <2>2, WFMin
<1>2. PICK x \in T : \A y \in T : ~ (<<y, x>> \in R)
  BY Zenon, <1>1
<1>3. x # 0 /\ x \in Nat /\ x - 1 \in Nat
  BY SMT
<1>4. x - 1 \in S
  <2>1. SUFFICES ASSUME x - 1 \in T PROVE FALSE
     BY <1>3
  <2>2. <<x - 1, x>> \in R
     BY SMT, <1>3 DEF OpToRel
  <2> QED
    BY Zenon, <1>2, <2>1, <2>2
<1> QED
  BY SMT, <1>3, <1>4

(* What holds of every pass of a loop of N passes.                         *)
LEMMA LoopInvariant ==
    ASSUME NEW N \in Nat, NEW S, NEW f,
           f[0] \in S[0], \A k \in 1 .. N : f[k - 1] \in S[k - 1] => f[k] \in S[k]
    PROVE  \A k \in 0 .. N : f[k] \in S[k]
<1> DEFINE T == {k \in Nat : k <= N => f[k] \in S[k]}
<1>1. 0 \in T
  BY SMT
<1>2. \A k \in Nat : k \in T => k + 1 \in T
  <2> SUFFICES ASSUME NEW k \in Nat, k \in T, k + 1 <= N PROVE f[k + 1] \in S[k + 1]
    BY SMT
  <2>1. k + 1 \in 1 .. N /\ (k + 1) - 1 = k /\ f[k] \in S[k]
    BY SMT
  <2> QED
    BY Zenon, <2>1
<1> HIDE DEF T
<1>3. Nat \subseteq T
  BY Zenon, <1>1, <1>2, SetInduction
<1> QED
  BY SMT, <1>3 DEF T

(* The function of a loop exists.                                          *)
Runs(N, S, a, F) ==
    {f \in [0 .. N -> S] : f[0] = a /\ \A k \in 1 .. N : f[k] = F[f[k - 1]]}

LEMMA LoopExists ==
    ASSUME NEW N \in Nat, NEW S, NEW a \in S, NEW F \in [S -> S]
    PROVE  Runs(N, S, a, F) # {}
<1> DEFINE T == {n \in Nat : Runs(n, S, a, F) # {}}
<1>1. 0 \in T
  <2>1. [k \in 0 .. 0 |-> a] \in Runs(0, S, a, F)
    BY SMT DEF Runs
  <2> QED
    BY Zenon, <2>1
<1>2. \A n \in Nat : n \in T => n + 1 \in T
  <2> SUFFICES ASSUME NEW n \in Nat, NEW f \in Runs(n, S, a, F) PROVE Runs(n + 1, S, a, F) # {}
    BY SMT
  <2> DEFINE g == [k \in 0 .. n + 1 |-> IF k <= n THEN f[k] ELSE F[f[n]]]
  <2>1. g \in [0 .. n + 1 -> S] /\ g[0] = a
    BY SMT DEF Runs
  <2>2. ASSUME NEW k \in 1 .. n + 1 PROVE g[k] = F[g[k - 1]]
    BY SMT DEF Runs
  <2>3. g \in Runs(n + 1, S, a, F)
    BY Zenon, <2>1, <2>2 DEF Runs
  <2> QED
    BY Zenon, <2>3
<1> HIDE DEF T
<1>3. Nat \subseteq T
  BY Zenon, <1>1, <1>2, SetInduction
<1> QED
  BY Zenon, <1>3 DEF T

(* The same when the step depends on the pass.                             *)
Passes(N, S, a, F) ==
    {f \in [0 .. N -> S] : f[0] = a /\ \A k \in 1 .. N : f[k] = F[k][f[k - 1]]}

LEMMA PassesExist ==
    ASSUME NEW N \in Nat, NEW S, NEW a \in S, NEW F \in [Nat -> [S -> S]]
    PROVE  Passes(N, S, a, F) # {}
<1> DEFINE T == {n \in Nat : Passes(n, S, a, F) # {}}
<1>1. 0 \in T
  <2>1. [k \in 0 .. 0 |-> a] \in Passes(0, S, a, F)
    BY SMT DEF Passes
  <2> QED
    BY Zenon, <2>1
<1>2. \A n \in Nat : n \in T => n + 1 \in T
  <2> SUFFICES ASSUME NEW n \in Nat, NEW f \in Passes(n, S, a, F) PROVE Passes(n + 1, S, a, F) # {}
    BY SMT
  <2> DEFINE g == [k \in 0 .. n + 1 |-> IF k <= n THEN f[k] ELSE F[n + 1][f[n]]]
  <2>1. g \in [0 .. n + 1 -> S] /\ g[0] = a
    BY SMT DEF Passes
  <2>2. ASSUME NEW k \in 1 .. n + 1 PROVE g[k] = F[k][g[k - 1]]
    BY SMT DEF Passes
  <2>3. g \in Passes(n + 1, S, a, F)
    BY Zenon, <2>1, <2>2 DEF Passes
  <2> QED
    BY Zenon, <2>3
<1> HIDE DEF T
<1>3. Nat \subseteq T
  BY Zenon, <1>1, <1>2, SetInduction
<1> QED
  BY Zenon, <1>3 DEF T

-----------------------------------------------------------------------------
(* Unsigned arithmetic.                                                    *)

LEMMA ModType ==
    ASSUME NEW x \in Int, NEW n \in Nat \ {0}
    PROVE  x % n \in 0 .. n - 1
BY SMTT(30)

-----------------------------------------------------------------------------

LEMMA TurnFacts ==
    ASSUME NEW n \in Sizes
    PROVE  /\ n \in Nat \ {0} /\ 8 * n <= SeqSpace /\ SeqSpace \in Nat
           /\ Turn(n) \in 1 .. n
           /\ \A x \in 0 .. Turn(n) - 1 :
                 /\ Succ(Turn(n), x) \in 0 .. Turn(n) - 1
                 /\ BitAnd(x + 1, n - 1) = Succ(Turn(n), x)
           /\ \A x \in 0 .. 2 * SeqSpace : BitAnd(x, n - 1) \in 0 .. n - 1
<1>1. n \in Nat \ {0} /\ 8 * n <= SeqSpace /\ SeqSpace \in Nat
  BY SizesAssumption, SeqSpaceAssumption
<1>2. \E c \in 1 .. n : \A x \in 0 .. c - 1 : BitAnd(x + 1, n - 1) = (x + 1) % c
  BY Zenon, AndAssumption
<1>3. Turn(n) \in 1 .. n /\ \A x \in 0 .. Turn(n) - 1 : BitAnd(x + 1, n - 1) = (x + 1) % Turn(n)
  BY Zenon, <1>2 DEF Turn
<1>4. ASSUME NEW c \in 1 .. n, NEW x \in 0 .. c - 1
      PROVE  (x + 1) % c = Succ(c, x) /\ Succ(c, x) \in 0 .. c - 1
  <2>1. CASE x + 1 < c
    BY SMTT(30), <1>1, <2>1 DEF Succ
  <2>2. CASE x + 1 = c
    <3>1. c \in Nat \ {0}
      BY SMT, <1>1
    <3>2. c % c = 0
      BY SMTT(30), <3>1
    <3> QED
      BY SMT, <2>2, <3>1, <3>2 DEF Succ
  <2> QED
    BY SMT, <1>1, <2>1, <2>2
<1> QED
  BY Zenon, <1>1, <1>3, <1>4, AndAssumption

-----------------------------------------------------------------------------

LEMMA PopFacts ==
    ASSUME NEW n \in Sizes, NEW b \in Rings(n), b.ohead \in 0 .. Turn(n) - 1
    PROVE  /\ PopHead(b) \in Rings(n)
           /\ PopHead(b).order = [b.order EXCEPT ![b.ohead] = NoPkt]
           /\ PopHead(b).ohead = Succ(Turn(n), b.ohead)
           /\ PopHead(b).ohead \in 0 .. Turn(n) - 1
           /\ PopHead(b).rhead = b.rhead /\ PopHead(b).rtail = b.rtail
           /\ PopHead(b).ready = b.ready
           /\ PopHead(b).min = b.min /\ PopHead(b).init = b.init
<1>1. b.size = n
  BY DEF Rings
<1>2. BitAnd(b.ohead + 1, n - 1) = Succ(Turn(n), b.ohead)
  BY Zenon, TurnFacts
<1>3. Succ(Turn(n), b.ohead) \in 0 .. Turn(n) - 1
  BY Zenon, TurnFacts
<1>4. Turn(n) \in 1 .. n /\ n \in Nat
  BY Zenon, TurnFacts
<1> DEFINE o == Succ(Turn(n), b.ohead)
           w == [b.order EXCEPT ![b.ohead] = NoPkt]
<1>5. PopHead(b) = [b EXCEPT !.order = w, !.ohead = o]
  BY Zenon, <1>1, <1>2 DEF PopHead, Mask
<1>6. o \in 0 .. n - 1 /\ w \in [0 .. n - 1 -> Slots]
  BY SMT, <1>3, <1>4 DEF Rings, Slots
<1> HIDE DEF o, w
<1>7. PopHead(b) \in Rings(n)
  BY Zenon, <1>5, <1>6 DEF Rings
<1>8. /\ PopHead(b).order = w
      /\ PopHead(b).ohead = o
      /\ PopHead(b).rhead = b.rhead /\ PopHead(b).rtail = b.rtail
      /\ PopHead(b).ready = b.ready
      /\ PopHead(b).min = b.min /\ PopHead(b).init = b.init
  BY Zenon, <1>5, <1>6 DEF Rings
<1> QED
  BY Zenon, <1>3, <1>7, <1>8 DEF o, w

(* Taking the packet at the head out of order_buf.                         *)
LEMMA PopOK ==
    ASSUME NEW n \in Sizes, NEW U, NEW b, RingOK(b, n, U), WaitOK(b, n, U)
    PROVE  /\ RingOK(PopHead(b), n, U) /\ WaitOK(PopHead(b), n, U)
           /\ AtHead(b) # NoPkt => \A i \in 0 .. n - 1 : PopHead(b).order[i] # AtHead(b)
<1> DEFINE q == PopHead(b)
<1>1. b \in Rings(n) /\ b.ohead \in 0 .. Turn(n) - 1
  BY Zenon DEF RingOK
<1>2. /\ q \in Rings(n)
      /\ q.order = [b.order EXCEPT ![b.ohead] = NoPkt]
      /\ q.ohead \in 0 .. Turn(n) - 1
      /\ q.rhead = b.rhead /\ q.rtail = b.rtail /\ q.ready = b.ready
  BY Zenon, <1>1, PopFacts
<1>3. b.order \in [0 .. n - 1 -> Slots] /\ b.ohead \in 0 .. n - 1
  BY Zenon, <1>1 DEF Rings
<1> HIDE DEF q
<1>4. \A i \in 0 .. n - 1 : q.order[i] = IF i = b.ohead THEN NoPkt ELSE b.order[i]
  BY Zenon, <1>2, <1>3
<1>5. RingOK(q, n, U)
  BY ZenonT(30), <1>1, <1>2, <1>4 DEF RingOK
<1>6. Waiting(q, n) = Waiting(b, n)
  BY Zenon, <1>2 DEF Waiting
<1>7. WaitOK(q, n, U)
  BY SMT, <1>2, <1>4, <1>6, PoolAssumption DEF WaitOK
<1>8. AtHead(b) # NoPkt => \A i \in 0 .. n - 1 : q.order[i] # AtHead(b)
  BY Zenon, <1>3, <1>4 DEF AtHead, RingOK
<1> QED
  BY Zenon, <1>5, <1>7, <1>8 DEF q

(* Storing it in ready_buf, behind what waits there.                       *)
Stored(b, e) == [b EXCEPT !.ready[b.rhead] = e]

SameBut(q, b) ==
    /\ q.order = b.order /\ q.ohead = b.ohead /\ q.rtail = b.rtail
    /\ q.min = b.min /\ q.init = b.init

IsStored(q, b, e, n, U) ==
    /\ RingOK(q, n, U) /\ WaitOK(q, n, U)
    /\ SameBut(q, b) /\ q.rhead = b.rhead
    /\ q.ready = [b.ready EXCEPT ![b.rhead] = e]

LEMMA StoreOK ==
    ASSUME NEW n \in Sizes, NEW U, NEW b, RingOK(b, n, U), WaitOK(b, n, U), NEW e \in Slots
    PROVE  IsStored(Stored(b, e), b, e, n, U)
<1> DEFINE w == [b.ready EXCEPT ![b.rhead] = e]
           q == Stored(b, e)
<1>1. b \in Rings(n)
  BY Zenon DEF RingOK
<1>2. q = [b EXCEPT !.ready = w]
  BY Zenon DEF Stored
<1>3. b.ready \in [0 .. n - 1 -> Slots] /\ b.rhead \in 0 .. n - 1
  BY Zenon, <1>1 DEF Rings
<1>4. w \in [0 .. n - 1 -> Slots] /\ \A i \in 0 .. n - 1 : i # b.rhead => w[i] = b.ready[i]
  BY Zenon, <1>3
<1> HIDE DEF w, q
<1>5. q \in Rings(n)
  BY Zenon, <1>1, <1>2, <1>4 DEF Rings
<1>6. /\ q.order = b.order /\ q.ohead = b.ohead /\ q.rhead = b.rhead /\ q.rtail = b.rtail
      /\ q.ready = w /\ q.min = b.min /\ q.init = b.init
  BY Zenon, <1>1, <1>2 DEF Rings
<1>7. RingOK(q, n, U)
  BY Zenon, <1>5, <1>6 DEF RingOK
<1>8. Waiting(q, n) = Waiting(b, n)
  BY Zenon, <1>6 DEF Waiting
<1>9. \A p \in Waiting(b, n) : p \in 0 .. n - 1 /\ p # b.rhead
  <2>1. Turn(n) \in 1 .. n /\ n \in Nat
    BY Zenon, TurnFacts
  <2>2. b.rtail \in 0 .. Turn(n) - 1 /\ b.rhead \in 0 .. Turn(n) - 1
    BY Zenon DEF RingOK
  <2> QED
    BY SMT, <2>1, <2>2 DEF Waiting, Gap
<1>10. WaitOK(q, n, U)
  BY SMT, <1>4, <1>6, <1>8, <1>9 DEF WaitOK
<1> QED
  BY Zenon, <1>6, <1>7, <1>10 DEF w, q, SameBut, IsStored

(* Counting it as stored.                                                  *)
Advanced(b) == [b EXCEPT !.rhead = Mask(b, b.rhead + 1)]

LEMMA AdvanceOK ==
    ASSUME NEW n \in Sizes, NEW U, NEW b, RingOK(b, n, U), WaitOK(b, n, U), ~ReadyFull(b),
           b.ready[b.rhead] \in U \ {NoPkt},
           \A p \in Waiting(b, n) : b.ready[p] # b.ready[b.rhead],
           \A i \in 0 .. n - 1 : b.order[i] # b.ready[b.rhead]
    PROVE  /\ RingOK(Advanced(b), n, U) /\ WaitOK(Advanced(b), n, U)
           /\ SameBut(Advanced(b), b) /\ Advanced(b).ready = b.ready
           /\ Advanced(b).rhead = Succ(Turn(n), b.rhead)
           /\ Waiting(Advanced(b), n) = Waiting(b, n) \cup {b.rhead}
<1> DEFINE c == Turn(n)
           h == Succ(c, b.rhead)
           q == Advanced(b)
<1>1. b \in Rings(n) /\ b.size = n /\ b.rhead \in 0 .. c - 1 /\ b.rtail \in 0 .. c - 1
  BY Zenon DEF RingOK, Rings
<1>2. Mask(b, b.rhead + 1) = h /\ h \in 0 .. c - 1 /\ c \in 1 .. n /\ n \in Nat
  BY Zenon, <1>1, TurnFacts DEF Mask
<1>3. h # b.rtail
  BY Zenon, <1>2 DEF ReadyFull
<1>4. h \in 0 .. n - 1
  BY SMT, <1>2
<1> HIDE DEF h, c
<1>5. q \in Rings(n)
  BY Zenon, <1>1, <1>2, <1>4 DEF Rings, Advanced
<1>6. /\ q.order = b.order /\ q.ohead = b.ohead /\ q.rtail = b.rtail /\ q.ready = b.ready
      /\ q.rhead = h /\ q.min = b.min /\ q.init = b.init
  BY Zenon, <1>1, <1>2 DEF Rings, Advanced
<1> HIDE DEF q
<1>7. RingOK(q, n, U)
  BY Zenon, <1>2, <1>5, <1>6 DEF RingOK, c
<1>8. Waiting(q, n) = Waiting(b, n) \cup {b.rhead}
  <2>1. c \in Nat \ {0}
    BY SMT, <1>2
  <2>2. Gap(c, b.rtail, h) = Gap(c, b.rtail, b.rhead) + 1
    BY SMT, <1>1, <1>3, <2>1 DEF h, Gap, Succ
  <2>3. \A p \in 0 .. c - 1 :
          /\ Gap(c, b.rtail, p) \in Nat
          /\ Gap(c, b.rtail, p) = Gap(c, b.rtail, b.rhead) => p = b.rhead
    BY SMT, <1>1, <2>1 DEF Gap
  <2>4. \A p \in 0 .. c - 1 :
          Gap(c, b.rtail, p) < Gap(c, b.rtail, h)
             <=> Gap(c, b.rtail, p) < Gap(c, b.rtail, b.rhead) \/ p = b.rhead
    BY SMT, <1>1, <2>2, <2>3
  <2> QED
    BY Zenon, <1>1, <1>6, <2>4 DEF Waiting, c
<1>9. WaitOK(q, n, U)
  BY SMT, <1>6, <1>8 DEF WaitOK
<1> QED
  BY Zenon, <1>6, <1>7, <1>8, <1>9 DEF h, c, q, SameBut

-----------------------------------------------------------------------------
(* mlvpn_reorder_fill_overflow.                                            *)
Fills(n, U) ==
    {r \in [ring : Rings(n), adv : Nat, inner : BOOLEAN] : RingOK(r.ring, n, U) /\ WaitOK(r.ring, n, U)}

(* A packet at the head moves to ready_buf.                                *)
MovedTo(b) == PopHead(Stored(b, AtHead(b)))

(* What a move of b leaves, q: the packet is in ready_buf only, not yet    *)
(* counted.                                                                *)
IsMoved(q, b, n, U) ==
    /\ RingOK(q, n, U) /\ WaitOK(q, n, U)
    /\ AtHead(b) \in U
    /\ q.rhead = b.rhead /\ q.rtail = b.rtail /\ q.min = b.min /\ q.init = b.init
    /\ q.order = [b.order EXCEPT ![b.ohead] = NoPkt]
    /\ q.ohead = Succ(Turn(n), b.ohead)
    /\ q.ready = [b.ready EXCEPT ![b.rhead] = AtHead(b)]
    /\ q.ready[b.rhead] = AtHead(b)
    /\ \A p \in Waiting(q, n) : q.ready[p] # AtHead(b)
    /\ \A i \in 0 .. n - 1 : q.order[i] # AtHead(b)

LEMMA MoveOK ==
    ASSUME NEW n \in Sizes, NEW U, NEW b, RingOK(b, n, U), WaitOK(b, n, U), AtHead(b) # NoPkt
    PROVE  IsMoved(MovedTo(b), b, n, U)
<1> DEFINE s == Stored(b, AtHead(b))
           q == PopHead(s)
<1>1. b \in Rings(n)
  BY Zenon DEF RingOK
<1>2. /\ b.ohead \in 0 .. n - 1 /\ b.rhead \in 0 .. n - 1
      /\ b.order \in [0 .. n - 1 -> Slots] /\ b.ready \in [0 .. n - 1 -> Slots]
  BY Zenon, <1>1 DEF Rings
<1>3. AtHead(b) \in Slots /\ AtHead(b) \in U
  BY Zenon, <1>2 DEF AtHead, RingOK
<1>4. /\ RingOK(s, n, U) /\ WaitOK(s, n, U)
      /\ SameBut(s, b) /\ s.rhead = b.rhead
      /\ s.ready = [b.ready EXCEPT ![b.rhead] = AtHead(b)]
  <2>1. IsStored(s, b, AtHead(b), n, U)
    BY Zenon, <1>3, StoreOK
  <2> HIDE DEF s
  <2> QED
    BY Zenon, <2>1 DEF IsStored
<1>5. AtHead(s) = AtHead(b)
  BY Zenon, <1>4 DEF AtHead, SameBut
<1> HIDE DEF s
<1>6. s \in Rings(n) /\ s.ohead \in 0 .. Turn(n) - 1
  BY Zenon, <1>4 DEF RingOK
<1>7. /\ RingOK(q, n, U) /\ WaitOK(q, n, U)
      /\ AtHead(s) # NoPkt => \A i \in 0 .. n - 1 : q.order[i] # AtHead(s)
  BY Zenon, <1>4, PopOK
<1>8. /\ q.order = [s.order EXCEPT ![s.ohead] = NoPkt]
      /\ q.ohead = Succ(Turn(n), s.ohead)
      /\ q.rhead = s.rhead /\ q.rtail = s.rtail /\ q.ready = s.ready
      /\ q.min = s.min /\ q.init = s.init
  BY Zenon, <1>6, PopFacts
<1>9. q = MovedTo(b)
  BY Zenon DEF MovedTo, s
<1> HIDE DEF q
<1>10. q.ready[b.rhead] = AtHead(b)
  BY Zenon, <1>2, <1>4, <1>8
<1>11. \A p \in Waiting(q, n) : q.ready[p] # AtHead(b)
  <2>1. Waiting(q, n) = Waiting(s, n)
    BY Zenon, <1>8 DEF Waiting
  <2>2. \A p \in Waiting(s, n) : s.ready[p] # s.order[b.ohead]
    BY Zenon, <1>2, <1>4 DEF WaitOK
  <2> QED
    BY Zenon, <1>4, <1>8, <2>1, <2>2 DEF AtHead, SameBut
<1> QED
  BY Zenon, <1>3, <1>4, <1>5, <1>7, <1>8, <1>9, <1>10, <1>11 DEF IsMoved, SameBut

LEMMA FillStepOK ==
    ASSUME NEW n \in Sizes, NEW U, NEW m, NEW r \in Fills(n, U)
    PROVE  FillStep(r, m) \in Fills(n, U)
<1> DEFINE b == r.ring
           q == MovedTo(b)
<1>1. RingOK(b, n, U) /\ WaitOK(b, n, U) /\ r.adv + 1 \in Nat
  BY SMT DEF Fills
<1>2. ASSUME NEW x, RingOK(x, n, U), WaitOK(x, n, U), NEW i \in BOOLEAN
      PROVE  [ring |-> x, adv |-> r.adv + 1, inner |-> i] \in Fills(n, U)
  <2>1. x \in Rings(n)
    BY Zenon, <1>2 DEF RingOK
  <2> HIDE DEF b
  <2> QED
    BY SMT, <1>1, <1>2, <2>1 DEF Fills
<1>3. RingOK(PopHead(b), n, U) /\ WaitOK(PopHead(b), n, U)
  BY Zenon, <1>1, PopOK
<1>4. ASSUME AtHead(b) # NoPkt
      PROVE  /\ RingOK(q, n, U) /\ WaitOK(q, n, U)
             /\ ~ReadyFull(q) => RingOK(Advanced(q), n, U) /\ WaitOK(Advanced(q), n, U)
             /\ Advanced(q) = [q EXCEPT !.rhead = Mask(b, q.rhead + 1)]
  <2> HIDE DEF b
  <2>1. IsMoved(q, b, n, U)
    BY Zenon, <1>1, <1>4, MoveOK
  <2> HIDE DEF q
  <2>2. /\ RingOK(q, n, U) /\ WaitOK(q, n, U)
        /\ q.ready[q.rhead] \in U \ {NoPkt}
        /\ \A p \in Waiting(q, n) : q.ready[p] # q.ready[q.rhead]
        /\ \A i \in 0 .. n - 1 : q.order[i] # q.ready[q.rhead]
    BY Zenon, <1>4, <2>1 DEF IsMoved
  <2>3. b.size = n /\ q.size = n
    BY Zenon, <1>1, <2>2 DEF RingOK, Rings
  <2>4. ~ReadyFull(q) => RingOK(Advanced(q), n, U) /\ WaitOK(Advanced(q), n, U)
    BY Zenon, <2>2, AdvanceOK
  <2> QED
    BY Zenon, <2>2, <2>3, <2>4 DEF Advanced, Mask
<1>5. \/ FillStep(r, m) = r
      \/ FillStep(r, m) = [ring |-> PopHead(b), adv |-> r.adv + 1, inner |-> TRUE]
      \/ AtHead(b) # NoPkt /\ FillStep(r, m) = [ring |-> q, adv |-> r.adv + 1, inner |-> FALSE]
      \/ /\ AtHead(b) # NoPkt /\ ~ReadyFull(q)
         /\ FillStep(r, m) = [ring |-> [q EXCEPT !.rhead = Mask(b, q.rhead + 1)],
                              adv |-> r.adv + 1, inner |-> TRUE]
  BY Zenon DEF FillStep, MovedTo, Stored
<1> QED
  BY Zenon, <1>2, <1>3, <1>4, <1>5

LEMMA FillingOK ==
    ASSUME NEW n \in Sizes, NEW U, NEW m, NEW b, RingOK(b, n, U), WaitOK(b, n, U)
    PROVE  /\ Filling(b, m)[0] = [ring |-> b, adv |-> 0, inner |-> FALSE]
           /\ \A k \in 1 .. 2 * n : Filling(b, m)[k] = FillStep(Filling(b, m)[k - 1], m)
           /\ \A k \in 0 .. 2 * n : Filling(b, m)[k] \in Fills(n, U)
<1> DEFINE N == 2 * n
           S == Fills(n, U)
           a == [ring |-> b, adv |-> 0, inner |-> FALSE]
           Step(f, k) == IF k = 0 THEN a ELSE FillStep(f[k - 1], m)
           Is(f) == f = [k \in 0 .. N |-> Step(f, k)]
           F == [r \in S |-> FillStep(r, m)]
<1>1. n \in Nat /\ N \in Nat
  BY SMT, SizesAssumption
<1>2. b \in Rings(n) /\ b.size = n
  BY Zenon DEF RingOK, Rings
<1>3. a \in S
  BY SMT, <1>2 DEF Fills
<1>4. F \in [S -> S]
  BY Zenon, FillStepOK
<1>5. Filling(b, m) = CHOOSE f : Is(f)
  BY Zenon, <1>2 DEF Filling
<1> HIDE DEF N, S, a
<1>6. PICK f \in [0 .. N -> S] : f[0] = a /\ \A k \in 1 .. N : f[k] = F[f[k - 1]]
  <2> HIDE DEF F
  <2>1. Runs(N, S, a, F) # {}
    BY Zenon, <1>1, <1>3, <1>4, LoopExists
  <2> QED
    BY Zenon, <2>1 DEF Runs
<1>7. \A k \in 0 .. N : f[k] = Step(f, k)
  <2>1. \A k \in 0 .. N : k # 0 => k \in 1 .. N /\ k - 1 \in 0 .. N
    BY SMT, <1>1
  <2> QED
    BY Zenon, <1>6, <2>1
<1>8. Is(f)
  BY Zenon, <1>6, <1>7
<1> DEFINE g == Filling(b, m)
<1>9. Is(g)
  <2> HIDE DEF Is
  <2> QED
    BY Zenon, <1>5, <1>8
<1> HIDE DEF g
<1>10. g[0] = a /\ \A k \in 1 .. N : g[k] = FillStep(g[k - 1], m)
  <2>1. 0 \in 0 .. N /\ \A k \in 1 .. N : k \in 0 .. N /\ k # 0
    BY SMT, <1>1
  <2>2. \A k \in 0 .. N : g[k] = Step(g, k)
    BY Zenon, <1>9
  <2> QED
    BY Zenon, <2>1, <2>2
<1>11. \A k \in 0 .. N : g[k] \in S
  <2> DEFINE T == [k \in 0 .. N |-> S]
  <2>1. \A k \in 0 .. N : T[k] = S
    BY Zenon
  <2>2. 0 \in 0 .. N /\ \A k \in 1 .. N : k \in 0 .. N /\ k - 1 \in 0 .. N
    BY SMT, <1>1
  <2>3. \A k \in 1 .. N : g[k - 1] \in S => g[k] \in S
    BY Zenon, <1>10, FillStepOK DEF S
  <2>4. g[0] \in T[0] /\ \A k \in 1 .. N : g[k - 1] \in T[k - 1] => g[k] \in T[k]
    BY Zenon, <1>3, <1>10, <2>1, <2>2, <2>3
  <2> HIDE DEF T
  <2>5. \A k \in 0 .. N : g[k] \in T[k]
    BY Zenon, <1>1, <2>4, LoopInvariant
  <2> QED
    BY Zenon, <2>1, <2>5
<1> QED
  BY Zenon, <1>10, <1>11 DEF g, N, S, a

-----------------------------------------------------------------------------
(* mlvpn_reorder_insert.                                                   *)
WithMin(b, x) == [b EXCEPT !.min = x]

LEMMA WithMinOK ==
    ASSUME NEW n \in Sizes, NEW U, NEW b, RingOK(b, n, U), WaitOK(b, n, U), NEW x \in Seqs
    PROVE  RingOK(WithMin(b, x), n, U) /\ WaitOK(WithMin(b, x), n, U)
<1> DEFINE q == WithMin(b, x)
<1>1. b \in Rings(n)
  BY Zenon DEF RingOK
<1>2. q \in Rings(n)
  BY Zenon, <1>1 DEF WithMin, Rings
<1>3. q.order = b.order /\ q.ohead = b.ohead /\ q.rhead = b.rhead /\ q.rtail = b.rtail /\ q.ready = b.ready
  BY Zenon, <1>1 DEF WithMin, Rings
<1> HIDE DEF q
<1>4. Waiting(q, n) = Waiting(b, n)
  BY Zenon, <1>3 DEF Waiting
<1> QED
  BY ZenonT(30), <1>2, <1>3, <1>4 DEF RingOK, WaitOK, q

IsBased(q, b, s, n, U) ==
    /\ RingOK(q, n, U) /\ WaitOK(q, n, U)
    /\ q.rhead = q.rtail /\ q.init = TRUE
    /\ q.order = b.order /\ q.ohead = b.ohead
    /\ q.min = IF b.init THEN b.min ELSE s

LEMMA BasedOK ==
    ASSUME NEW n \in Sizes, NEW U, NEW b, RingOK(b, n, U), b.rhead = b.rtail, NEW s \in Seqs
    PROVE  IsBased(Based(b, s), b, s, n, U)
<1> DEFINE q == Based(b, s)
<1>1. b \in Rings(n) /\ b.init \in BOOLEAN
  BY Zenon DEF RingOK, Rings
<1>2. q \in Rings(n)
  BY Zenon, <1>1 DEF Based, Rings
<1>3. /\ q.order = b.order /\ q.ohead = b.ohead /\ q.rhead = b.rhead /\ q.rtail = b.rtail
      /\ q.ready = b.ready /\ q.init = TRUE /\ q.min = IF b.init THEN b.min ELSE s
  BY Zenon, <1>1 DEF Based, Rings
<1> HIDE DEF q
<1>4. RingOK(q, n, U)
  BY Zenon, <1>2, <1>3 DEF RingOK
<1>5. WaitOK(q, n, U)
  <2>1. Turn(n) \in 1 .. n /\ n \in Nat /\ q.rtail \in 0 .. Turn(n) - 1 /\ q.rhead = q.rtail
    BY Zenon, <1>3, <1>4, TurnFacts DEF RingOK
  <2>2. Waiting(q, n) = {}
    BY SMT, <2>1 DEF Waiting, Gap
  <2> QED
    BY Zenon, <2>2 DEF WaitOK
<1> QED
  BY Zenon, <1>3, <1>4, <1>5 DEF q, IsBased

(* An entry that is neither in order_buf nor in ready_buf is stored.       *)
LEMMA PutOK ==
    ASSUME NEW n \in Sizes, NEW U, NEW b, RingOK(b, n, U), WaitOK(b, n, U),
           NEW e \in Entries, e \notin U, NEW off \in Seqs
    PROVE  RingOK(Put(b, off, e), n, U \cup {e}) /\ WaitOK(Put(b, off, e), n, U \cup {e})
<1> DEFINE q == Put(b, off, e)
           at == BitAnd(b.ohead + off, n - 1)
<1>1. b \in Rings(n) /\ b.size = n /\ b.ohead \in 0 .. n - 1 /\ b.order \in [0 .. n - 1 -> Slots]
  BY Zenon DEF RingOK, Rings
<1>2. n \in Nat /\ 8 * n <= SeqSpace /\ SeqSpace \in Nat
  BY Zenon, TurnFacts
<1>3. b.ohead + off \in 0 .. 2 * SeqSpace
  BY SMT, <1>1, <1>2 DEF Seqs
<1>4. at \in 0 .. n - 1
  BY Zenon, <1>3, TurnFacts
<1> HIDE DEF at
<1> DEFINE w == [b.order EXCEPT ![at] = e]
<1>5. q = [b EXCEPT !.order = w]
  BY Zenon, <1>1 DEF Put, Mask, at
<1>6. e \in Slots /\ e # NoPkt
  BY Zenon, PoolAssumption DEF Slots
<1>7. w \in [0 .. n - 1 -> Slots] /\ \A i \in 0 .. n - 1 : w[i] = IF i = at THEN e ELSE b.order[i]
  BY Zenon, <1>1, <1>4, <1>6
<1> HIDE DEF w, q
<1>8. q \in Rings(n)
  BY Zenon, <1>1, <1>5, <1>7 DEF Rings
<1>9. q.order = w /\ q.ohead = b.ohead /\ q.rhead = b.rhead /\ q.rtail = b.rtail /\ q.ready = b.ready
  BY Zenon, <1>1, <1>5 DEF Rings
<1>10. RingOK(q, n, U \cup {e})
  <2>1. \A i \in 0 .. n - 1 : q.order[i] # NoPkt => q.order[i] \in U \cup {e}
    BY Zenon, <1>7, <1>9 DEF RingOK
  <2>2. \A i, j \in 0 .. n - 1 : q.order[i] = q.order[j] /\ q.order[i] # NoPkt => i = j
    BY SMT, <1>6, <1>7, <1>9 DEF RingOK
  <2> QED
    BY Zenon, <1>8, <1>9, <2>1, <2>2 DEF RingOK
<1>11. WaitOK(q, n, U \cup {e})
  <2>1. Waiting(q, n) = Waiting(b, n)
    BY Zenon, <1>9 DEF Waiting
  <2> QED
    BY SMT, <1>7, <1>9, <2>1 DEF WaitOK
<1> QED
  BY Zenon, <1>10, <1>11 DEF q

(* fill_overflow leaves the buffers sound.                                 *)
LEMMA FillOverflowOK ==
    ASSUME NEW n \in Sizes, NEW U, NEW m, NEW b, RingOK(b, n, U), WaitOK(b, n, U)
    PROVE  LET r == FillOverflow(b, m)
           IN  RingOK(r.ring, n, U) /\ WaitOK(r.ring, n, U) /\ r.adv \in Nat
<1> DEFINE end == Filling(b, m)[2 * n]
           x == (end.ring.min + end.adv) % SeqSpace
           r == FillOverflow(b, m)
<1>1. b.size = n /\ n \in Nat
  BY Zenon, TurnFacts DEF RingOK, Rings
<1>2. end \in Fills(n, U)
  <2>1. 2 * n \in 0 .. 2 * n
    BY SMT, <1>1
  <2> QED
    BY Zenon, <2>1, FillingOK
<1>3. r = [end EXCEPT !.ring.min = x]
  BY Zenon, <1>1 DEF FillOverflow
<1> HIDE DEF end, r
<1>4. end \in [ring : Rings(n), adv : Nat, inner : BOOLEAN] /\ RingOK(end.ring, n, U) /\ WaitOK(end.ring, n, U)
  BY Zenon, <1>2 DEF Fills
<1>5. x \in Seqs
  <2>1. end.ring.min \in Seqs /\ end.adv \in Nat
    BY Zenon, <1>4 DEF RingOK, Rings
  <2>2. end.ring.min + end.adv \in Int
    BY SMT, <2>1, SeqSpaceAssumption DEF Seqs
  <2> QED
    BY Zenon, <2>2, ModType, SeqSpaceAssumption DEF Seqs
<1>6. r.ring = WithMin(end.ring, x) /\ r.adv = end.adv
  BY Zenon, <1>3, <1>4 DEF WithMin
<1> HIDE DEF x
<1>7. RingOK(r.ring, n, U) /\ WaitOK(r.ring, n, U) /\ r.adv \in Nat
  BY Zenon, <1>4, <1>5, <1>6, WithMinOK
<1> QED
  BY Zenon, <1>7 DEF r

LEMMA InsertOK ==
    ASSUME NEW n \in Sizes, NEW U, NEW b, RingOK(b, n, U), b.rhead = b.rtail,
           NEW e \in Entries, e \notin U, NEW s \in Seqs
    PROVE  LET r == Insert(b, e, s)
           IN  /\ r.ret = 0 => RingOK(r.ring, n, U \cup {e}) /\ WaitOK(r.ring, n, U \cup {e})
               /\ r.ret = -2 => RingOK(r.ring, n, U) /\ r.ring.rhead = r.ring.rtail
<1> DEFINE q == Based(b, s)
           offset == (s - q.min) % SeqSpace
           need == offset + 1 - n
           filled == FillOverflow(q, need)
           r == Insert(b, e, s)
<1>1. /\ RingOK(q, n, U) /\ WaitOK(q, n, U)
      /\ q.rhead = q.rtail
  <2>1. IsBased(q, b, s, n, U)
    BY Zenon, BasedOK
  <2> HIDE DEF q
  <2> QED
    BY Zenon, <2>1 DEF IsBased
<1>2. q.size = n
  BY Zenon, <1>1 DEF RingOK, Rings
<1>3. \/ r = [ring |-> Put(q, offset, e), ret |-> 0]
      \/ r = [ring |-> q, ret |-> -2]
      \/ r = [ring |-> filled.ring, ret |-> -1]
      \/ r = [ring |-> Put(filled.ring, (s - filled.ring.min) % SeqSpace, e), ret |-> 0]
  BY Zenon, <1>2 DEF Insert, Based
<1> HIDE DEF r, q
<1>4. RingOK(filled.ring, n, U) /\ WaitOK(filled.ring, n, U)
  BY Zenon, <1>1, FillOverflowOK
<1> HIDE DEF filled
<1>5. ASSUME NEW x, RingOK(x, n, U)
      PROVE  (s - x.min) % SeqSpace \in Seqs
  <2>1. x.min \in Seqs
    BY Zenon, <1>5 DEF RingOK, Rings
  <2>2. s - x.min \in Int
    BY SMT, <2>1, SeqSpaceAssumption DEF Seqs
  <2> QED
    BY Zenon, <2>2, ModType, SeqSpaceAssumption DEF Seqs
<1>6. CASE r = [ring |-> Put(q, offset, e), ret |-> 0]
  <2>1. r.ret = 0 /\ r.ring = Put(q, offset, e)
    BY Zenon, <1>6
  <2>2. 0 # -2
    OBVIOUS
  <2>3. RingOK(r.ring, n, U \cup {e}) /\ WaitOK(r.ring, n, U \cup {e})
    <3> DEFINE o == (s - q.min) % SeqSpace
    <3>1. o \in Seqs
      BY Zenon, <1>1, <1>5
    <3>2. r.ring = Put(q, o, e)
      BY Zenon, <2>1
    <3> HIDE DEF o
    <3>3. RingOK(Put(q, o, e), n, U \cup {e}) /\ WaitOK(Put(q, o, e), n, U \cup {e})
      BY Zenon, <1>1, <3>1, PutOK
    <3> QED
      BY Zenon, <3>2, <3>3
  <2> QED
    BY Zenon, <2>1, <2>2, <2>3 DEF r
<1>7. CASE r = [ring |-> q, ret |-> -2]
  <2>1. r.ret = -2 /\ r.ring = q
    BY Zenon, <1>7
  <2>2. 0 # -2
    OBVIOUS
  <2> QED
    BY Zenon, <1>1, <2>1, <2>2 DEF r
<1>8. CASE r = [ring |-> filled.ring, ret |-> -1]
  <2>1. r.ret = -1
    BY Zenon, <1>8
  <2>2. 0 # -1 /\ -1 # -2
    OBVIOUS
  <2> QED
    BY Zenon, <2>1, <2>2 DEF r
<1>9. CASE r = [ring |-> Put(filled.ring, (s - filled.ring.min) % SeqSpace, e), ret |-> 0]
  <2>1. r.ret = 0 /\ r.ring = Put(filled.ring, (s - filled.ring.min) % SeqSpace, e)
    BY Zenon, <1>9
  <2>2. 0 # -2
    OBVIOUS
  <2>3. RingOK(r.ring, n, U \cup {e}) /\ WaitOK(r.ring, n, U \cup {e})
    <3> DEFINE o == (s - filled.ring.min) % SeqSpace
    <3>1. o \in Seqs
      BY Zenon, <1>4, <1>5
    <3>2. r.ring = Put(filled.ring, o, e)
      BY Zenon, <2>1
    <3> HIDE DEF o
    <3>3. RingOK(Put(filled.ring, o, e), n, U \cup {e}) /\ WaitOK(Put(filled.ring, o, e), n, U \cup {e})
      BY Zenon, <1>4, <3>1, PutOK
    <3> QED
      BY Zenon, <3>2, <3>3
  <2> QED
    BY Zenon, <2>1, <2>2, <2>3 DEF r
<1> QED
  BY Zenon, <1>3, <1>6, <1>7, <1>8, <1>9

-----------------------------------------------------------------------------
(* Lists of entries without repetition.                                    *)

LEMMA AppendFacts ==
    ASSUME NEW S, NEW q \in Seq(S), NEW x \in S, IsInjective(q), x \notin Range(q)
    PROVE  IsListOf(Append(q, x), S, Range(q) \cup {x})
<1>1. /\ Append(q, x) \in Seq(S) /\ Len(Append(q, x)) = Len(q) + 1 /\ Len(q) \in Nat
      /\ DOMAIN q = 1 .. Len(q) /\ DOMAIN Append(q, x) = 1 .. Len(q) + 1
      /\ \A i \in 1 .. Len(q) : Append(q, x)[i] = q[i]
      /\ Append(q, x)[Len(q) + 1] = x
  BY SMT
<1>2. \A i \in 1 .. Len(q) : q[i] # x
  BY Zenon, <1>1 DEF Range
<1>3. \A i, j \in 1 .. Len(q) : q[i] = q[j] => i = j
  BY Zenon, <1>1 DEF IsInjective
<1>4. \A i \in 1 .. Len(q) + 1 : i \in 1 .. Len(q) \/ i = Len(q) + 1
  BY SMT, <1>1
<1>5. \A i \in 1 .. Len(q) : i \in 1 .. Len(q) + 1
  BY SMT, <1>1
<1>6. Len(q) + 1 \in 1 .. Len(q) + 1
  BY SMT, <1>1
<1> DEFINE a == Append(q, x)
<1>7. \A i, j \in DOMAIN a : a[i] = a[j] => i = j
  BY Zenon, <1>1, <1>2, <1>3, <1>4
<1>8. {a[i] : i \in DOMAIN a} = {q[i] : i \in DOMAIN q} \cup {x}
  BY Zenon, <1>1, <1>4, <1>5, <1>6
<1> QED
  BY Zenon, <1>1, <1>7, <1>8 DEF IsListOf, IsInjective, Range

(* An injection from 1 .. n leaves m >= n places.                          *)
LEMMA Pigeonhole ==
    ASSUME NEW m \in Nat
    PROVE  \A n \in Nat : \A f \in [1 .. n -> 1 .. m] : IsInjective(f) => n <= m
<1> DEFINE Fits(k) == \A n \in Nat : \A f \in [1 .. n -> 1 .. k] :
                          (\A i, j \in 1 .. n : f[i] = f[j] => i = j) => n <= k
           T == {k \in Nat : Fits(k)}
<1>1. 0 \in T
  <2> SUFFICES ASSUME NEW n \in Nat, NEW f \in [1 .. n -> 1 .. 0] PROVE n <= 0
    BY Zenon
  <2> QED
    BY SMT
<1>2. \A k \in Nat : k \in T => k + 1 \in T
  <2> SUFFICES ASSUME NEW k \in Nat, Fits(k), NEW n \in Nat, NEW f \in [1 .. n -> 1 .. k + 1],
                      \A i, j \in 1 .. n : f[i] = f[j] => i = j
               PROVE  n <= k + 1
    <3>1. \A k \in Nat : k + 1 \in Nat
      BY SMT
    <3> QED
      BY Zenon, <3>1
  <2>1. CASE n = 0
    BY SMT, <2>1
  <2>2. CASE n # 0
    <3> DEFINE g == [i \in 1 .. n - 1 |-> IF f[i] = k + 1 THEN f[n] ELSE f[i]]
    <3>1. n - 1 \in Nat /\ n \in 1 .. n /\ \A i \in 1 .. n - 1 : i \in 1 .. n /\ i # n
      BY SMT, <2>2
    <3>2. \A i \in 1 .. n : f[i] \in 1 .. k \/ f[i] = k + 1
      BY SMT
    <3>3. g \in [1 .. n - 1 -> 1 .. k]
      BY Zenon, <3>1, <3>2
    <3>4. \A i, j \in 1 .. n - 1 : g[i] = g[j] => i = j
      BY Zenon, <3>1
    <3> HIDE DEF g
    <3>5. n - 1 <= k
      BY Zenon, <3>1, <3>3, <3>4
    <3> QED
      BY SMT, <3>5
  <2> QED
    BY Zenon, <2>1, <2>2
<1>3. m \in T
  <2> HIDE DEF T
  <2> QED
    BY Zenon, <1>1, <1>2, SetInduction
<1> SUFFICES ASSUME NEW n \in Nat, NEW f \in [1 .. n -> 1 .. m], IsInjective(f) PROVE n <= m
  BY Zenon
<1>4. \A i, j \in 1 .. n : f[i] = f[j] => i = j
  BY Zenon DEF IsInjective
<1> QED
  BY Zenon, <1>3, <1>4

(* The array of mlvpn_rtun_reorder_drain has room for one more entry that  *)
(* is not in it.                                                           *)
LEMMA Room ==
    ASSUME NEW q \in Seq(Entries), IsInjective(q), NEW e \in Entries, e \notin Range(q)
    PROVE  Len(q) < MaxDrain
<1> DEFINE N == Len(Pool)
           n == Len(q) + 1
           a == [i \in 1 .. n |-> IF i = n THEN e ELSE q[i]]
           f == [i \in 1 .. n |-> CHOOSE j \in 1 .. N : Pool[j] = a[i]]
<1>1. DOMAIN Pool = 1 .. N /\ N \in Nat /\ MaxDrain \in Nat /\ N <= MaxDrain
  BY SMT, PoolAssumption
<1>2. n \in Nat /\ DOMAIN q = 1 .. Len(q) /\ \A i \in 1 .. n : i = n \/ i \in 1 .. Len(q)
  BY SMT
<1>3. \A i \in 1 .. n : a[i] \in Entries
  <2>1. \A i \in 1 .. Len(q) : q[i] \in Entries
    BY SMT
  <2> QED
    BY Zenon, <1>2, <2>1
<1>4. \A i, j \in 1 .. n : a[i] = a[j] => i = j
  BY Zenon, <1>2 DEF Range, IsInjective
<1> HIDE DEF a
<1>5. \A i \in 1 .. n : \E j \in 1 .. N : Pool[j] = a[i]
  BY Zenon, <1>1, <1>3 DEF Entries, Range
<1> HIDE DEF N, n
<1>6. \A i \in 1 .. n : f[i] \in 1 .. N /\ Pool[f[i]] = a[i]
  BY Zenon, <1>5
<1>7. f \in [1 .. n -> 1 .. N] /\ DOMAIN f = 1 .. n
  BY Zenon, <1>5
<1>8. IsInjective(f)
  <2> HIDE DEF f
  <2>1. ASSUME NEW i \in 1 .. n, NEW j \in 1 .. n, f[i] = f[j] PROVE i = j
    <3>1. a[i] = a[j]
      BY Zenon, <1>6, <2>1
    <3> QED
      BY Zenon, <1>4, <3>1
  <2> QED
    BY Zenon, <1>7, <2>1 DEF IsInjective
<1> HIDE DEF f
<1>9. n <= N
  BY Zenon, <1>1, <1>2, <1>7, <1>8, Pigeonhole
<1> QED
  BY SMT, <1>1, <1>9 DEF n

-----------------------------------------------------------------------------

DrainOK(r, n, U) ==
    /\ RingOK(r.ring, n, U) /\ WaitOK(r.ring, n, U) /\ TakenOK(r.ring, r.pkts, n, U)

Drains(n, U, k) ==
    {r \in [ring : Rings(n), pkts : Seq(Entries)] :
        DrainOK(r, n, U) /\ (Left(r.ring, n) = 0 \/ Left(r.ring, n) + k <= n)}

(* Taking a packet from ready_buf.                                         *)
Taken(b) == [b EXCEPT !.rtail = Mask(b, b.rtail + 1)]

IsTaken(q, b, n, U) ==
    /\ RingOK(q, n, U) /\ WaitOK(q, n, U)
    /\ q.order = b.order /\ q.ohead = b.ohead /\ q.rhead = b.rhead /\ q.ready = b.ready
    /\ q.min = b.min /\ q.init = b.init
    /\ q.rtail = Succ(Turn(n), b.rtail)
    /\ Left(q, n) = Left(b, n) - 1
    /\ Waiting(q, n) = Waiting(b, n) \ {b.rtail}
    /\ b.rtail \in Waiting(b, n)

LEMMA TakeOK ==
    ASSUME NEW n \in Sizes, NEW U, NEW b, RingOK(b, n, U), WaitOK(b, n, U), b.rtail # b.rhead
    PROVE  IsTaken(Taken(b), b, n, U)
<1> DEFINE c == Turn(n)
           t == Succ(c, b.rtail)
           q == Taken(b)
<1>1. b \in Rings(n) /\ b.size = n /\ b.rhead \in 0 .. c - 1 /\ b.rtail \in 0 .. c - 1
  BY Zenon DEF RingOK, Rings
<1>2. Mask(b, b.rtail + 1) = t /\ t \in 0 .. c - 1 /\ c \in 1 .. n /\ n \in Nat
  BY Zenon, <1>1, TurnFacts DEF Mask
<1>3. t \in 0 .. n - 1 /\ c \in Nat \ {0}
  BY SMT, <1>2
<1> HIDE DEF c, t
<1>4. q \in Rings(n)
  BY Zenon, <1>1, <1>2, <1>3 DEF Rings, Taken
<1>5. /\ q.order = b.order /\ q.ohead = b.ohead /\ q.rhead = b.rhead /\ q.ready = b.ready
      /\ q.rtail = t /\ q.min = b.min /\ q.init = b.init
  BY Zenon, <1>1, <1>2 DEF Rings, Taken
<1> HIDE DEF q
<1>6. RingOK(q, n, U)
  BY Zenon, <1>2, <1>4, <1>5 DEF RingOK, c
<1>7. /\ Gap(c, t, b.rhead) = Gap(c, b.rtail, b.rhead) - 1
      /\ Gap(c, b.rtail, b.rhead) \in Nat /\ Gap(c, b.rtail, b.rtail) = 0
      /\ Gap(c, b.rtail, b.rtail) < Gap(c, b.rtail, b.rhead)
      /\ \A p \in 0 .. c - 1 :
            Gap(c, t, p) < Gap(c, t, b.rhead)
               <=> Gap(c, b.rtail, p) < Gap(c, b.rtail, b.rhead) /\ p # b.rtail
  BY SMT, <1>1, <1>2, <1>3 DEF Gap, Succ, t
<1>8. Waiting(q, n) = Waiting(b, n) \ {b.rtail} /\ b.rtail \in Waiting(b, n)
  BY Zenon, <1>1, <1>5, <1>7 DEF Waiting, c
<1>9. WaitOK(q, n, U)
  BY SMT, <1>5, <1>8 DEF WaitOK
<1> QED
  BY Zenon, <1>5, <1>6, <1>7, <1>8, <1>9 DEF IsTaken, Left, q, c, t

(* Taking one from order_buf.                                              *)
TakenHead(b) == [PopHead(b) EXCEPT !.min = (@ + 1) % SeqSpace]

IsTakenHead(q, b, n, U) ==
    /\ RingOK(q, n, U) /\ WaitOK(q, n, U)
    /\ q.order = [b.order EXCEPT ![b.ohead] = NoPkt] /\ q.ohead = Succ(Turn(n), b.ohead)
    /\ q.rhead = b.rhead /\ q.rtail = b.rtail /\ q.ready = b.ready /\ q.init = b.init
    /\ q.min = (b.min + 1) % SeqSpace
    /\ Waiting(q, n) = Waiting(b, n)
    /\ \A i \in 0 .. n - 1 : q.order[i] \in {b.order[i], NoPkt}
    /\ AtHead(b) # NoPkt => \A i \in 0 .. n - 1 : q.order[i] # AtHead(b)

LEMMA TakeHeadOK ==
    ASSUME NEW n \in Sizes, NEW U, NEW b, RingOK(b, n, U), WaitOK(b, n, U)
    PROVE  IsTakenHead(TakenHead(b), b, n, U)
<1> DEFINE s == PopHead(b)
           x == (b.min + 1) % SeqSpace
           q == WithMin(s, x)
<1>1. b \in Rings(n) /\ b.ohead \in 0 .. Turn(n) - 1
  BY Zenon DEF RingOK
<1>2. b.ohead \in 0 .. n - 1 /\ b.order \in [0 .. n - 1 -> Slots] /\ b.min \in Seqs
  BY Zenon, <1>1 DEF Rings
<1>3. /\ s \in Rings(n)
      /\ s.order = [b.order EXCEPT ![b.ohead] = NoPkt]
      /\ s.ohead = Succ(Turn(n), b.ohead)
      /\ s.ohead \in 0 .. Turn(n) - 1
      /\ s.rhead = b.rhead /\ s.rtail = b.rtail
      /\ s.ready = b.ready
      /\ s.min = b.min /\ s.init = b.init
  BY Zenon, <1>1, PopFacts
<1>4. /\ RingOK(s, n, U) /\ WaitOK(s, n, U)
      /\ AtHead(b) # NoPkt => \A i \in 0 .. n - 1 : s.order[i] # AtHead(b)
  BY Zenon, PopOK
<1> HIDE DEF s
<1>5. x \in Seqs
  <2>1. b.min + 1 \in Int
    BY SMT, <1>2, SeqSpaceAssumption DEF Seqs
  <2> QED
    BY Zenon, <2>1, ModType, SeqSpaceAssumption DEF Seqs
<1>6. TakenHead(b) = q
  BY Zenon, <1>3 DEF TakenHead, WithMin, s
<1> HIDE DEF x
<1>7. RingOK(q, n, U) /\ WaitOK(q, n, U)
  BY Zenon, <1>4, <1>5, WithMinOK
<1>8. /\ q.order = s.order /\ q.ohead = s.ohead /\ q.rhead = s.rhead /\ q.rtail = s.rtail
      /\ q.ready = s.ready /\ q.init = s.init /\ q.min = x
  BY Zenon, <1>3 DEF WithMin, Rings
<1> HIDE DEF q
<1>9. Waiting(q, n) = Waiting(b, n)
  BY Zenon, <1>3, <1>8 DEF Waiting
<1>10. \A i \in 0 .. n - 1 : q.order[i] \in {b.order[i], NoPkt}
  BY ZenonT(30), <1>2, <1>3, <1>8
<1> QED
  BY Zenon, <1>3, <1>4, <1>6, <1>7, <1>8, <1>9, <1>10 DEF IsTakenHead, x

LEMMA LeftFacts ==
    ASSUME NEW n \in Sizes, NEW U, NEW b, RingOK(b, n, U)
    PROVE  Left(b, n) \in 0 .. n - 1 /\ (Left(b, n) = 0 <=> b.rtail = b.rhead)
<1>1. /\ n \in Nat /\ Turn(n) \in 1 .. n
      /\ b.rtail \in 0 .. Turn(n) - 1 /\ b.rhead \in 0 .. Turn(n) - 1
  BY Zenon, TurnFacts DEF RingOK
<1> QED
  BY SMT, <1>1 DEF Left, Gap

LEMMA DrainStepOK ==
    ASSUME NEW n \in Sizes, NEW U \in SUBSET Entries, NEW k \in Nat, NEW r \in Drains(n, U, k)
    PROVE  DrainStep(r) \in Drains(n, U, k + 1)
<1> DEFINE b == r.ring
           d == DrainStep(r)
<1>1. /\ r \in [ring : Rings(n), pkts : Seq(Entries)]
      /\ RingOK(b, n, U) /\ WaitOK(b, n, U) /\ TakenOK(b, r.pkts, n, U)
      /\ Left(b, n) = 0 \/ Left(b, n) + k <= n
  BY Zenon DEF Drains, DrainOK
<1>2. /\ n \in Nat /\ Turn(n) \in 1 .. n
      /\ b.rtail \in 0 .. Turn(n) - 1 /\ b.rhead \in 0 .. Turn(n) - 1
      /\ b.order \in [0 .. n - 1 -> Slots] /\ b.ohead \in 0 .. n - 1
  BY Zenon, <1>1, TurnFacts DEF RingOK, Rings
<1>3. Left(b, n) \in Nat /\ (Left(b, n) = 0 <=> b.rtail = b.rhead)
  <2>1. Left(b, n) \in 0 .. n - 1 /\ (Left(b, n) = 0 <=> b.rtail = b.rhead)
    BY Zenon, <1>1, LeftFacts
  <2> HIDE DEF b
  <2> QED
    BY SMT, <1>2, <2>1
<1>4. r.pkts \in Seq(Entries)
  BY Zenon, <1>1
<1>5. ASSUME NEW x, RingOK(x, n, U), WaitOK(x, n, U), NEW e \in U, e \notin Range(r.pkts),
             \A p \in Waiting(x, n) : x.ready[p] \notin Range(r.pkts) \cup {e},
             \A i \in 0 .. n - 1 : x.order[i] \notin Range(r.pkts) \cup {e},
             Left(x, n) = 0 \/ Left(x, n) + (k + 1) <= n
      PROVE  [ring |-> x, pkts |-> Append(r.pkts, e)] \in Drains(n, U, k + 1)
  <2> DEFINE a == Append(r.pkts, e)
  <2>1. IsInjective(r.pkts) /\ Range(r.pkts) \subseteq U
    BY Zenon, <1>1 DEF TakenOK
  <2>2. a \in Seq(Entries) /\ IsInjective(a) /\ Range(a) = Range(r.pkts) \cup {e}
    <3>1. e \in Entries
      BY Zenon, <1>5
    <3> QED
      BY ZenonT(30), <1>4, <1>5, <2>1, <3>1, AppendFacts DEF IsListOf
  <2> HIDE DEF a
  <2>3. Range(a) \subseteq U
    BY Zenon, <1>5, <2>1, <2>2
  <2>4. TakenOK(x, a, n, U)
    BY Zenon, <1>5, <2>2, <2>3 DEF TakenOK
  <2>5. x \in Rings(n)
    BY Zenon, <1>5 DEF RingOK
  <2> DEFINE y == [ring |-> x, pkts |-> a]
  <2>6. y \in [ring : Rings(n), pkts : Seq(Entries)] /\ y.ring = x /\ y.pkts = a
    BY Zenon, <2>2, <2>5
  <2> HIDE DEF y
  <2>7. y \in Drains(n, U, k + 1)
    BY Zenon, <1>5, <2>4, <2>6 DEF Drains, DrainOK
  <2> QED
    BY Zenon, <2>7 DEF y, a
<1>6. CASE Len(r.pkts) < MaxDrain /\ b.rtail # b.rhead
  <2>1. IsTaken(Taken(b), b, n, U)
    BY Zenon, <1>1, <1>6, TakeOK
  <2> DEFINE x == Taken(b)
             e == b.ready[b.rtail]
  <2>2. d = [ring |-> x, pkts |-> Append(r.pkts, e)]
    <3>1. ~(Len(r.pkts) >= MaxDrain)
      BY SMT, <1>4, <1>6, PoolAssumption
    <3> QED
      BY Zenon, <1>6, <3>1 DEF DrainStep, Taken
  <2> HIDE DEF x, d, b
  <2>3. /\ RingOK(x, n, U) /\ WaitOK(x, n, U)
        /\ x.order = b.order /\ x.ready = b.ready
        /\ Left(x, n) = Left(b, n) - 1
        /\ Waiting(x, n) = Waiting(b, n) \ {b.rtail}
        /\ b.rtail \in Waiting(b, n)
    BY Zenon, <2>1 DEF IsTaken, x
  <2>4. e \in U /\ e \notin Range(r.pkts)
    BY Zenon, <1>1, <2>3 DEF WaitOK, TakenOK
  <2>5. \A p \in Waiting(x, n) : x.ready[p] \notin Range(r.pkts) \cup {e}
    <3>1. \A p \in Waiting(b, n) : b.ready[p] \notin Range(r.pkts)
      BY Zenon, <1>1 DEF TakenOK
    <3>2. \A p, q \in Waiting(b, n) : b.ready[p] = b.ready[q] => p = q
      BY Zenon, <1>1 DEF WaitOK
    <3> QED
      BY Zenon, <2>3, <3>1, <3>2
  <2>6. \A i \in 0 .. n - 1 : x.order[i] \notin Range(r.pkts) \cup {e}
    <3>1. \A i \in 0 .. n - 1 : b.order[i] \notin Range(r.pkts)
      BY Zenon, <1>1 DEF TakenOK
    <3>2. \A i \in 0 .. n - 1 : e # b.order[i]
      BY Zenon, <1>1, <2>3 DEF WaitOK
    <3> QED
      BY Zenon, <2>3, <3>1, <3>2
  <2>7. Left(x, n) + (k + 1) <= n
    BY SMTT(30), <1>1, <1>2, <1>3, <1>6, <2>3
  <2> HIDE DEF e
  <2>8. [ring |-> x, pkts |-> Append(r.pkts, e)] \in Drains(n, U, k + 1)
    BY Zenon, <1>5, <2>3, <2>4, <2>5, <2>6, <2>7
  <2> QED
    BY Zenon, <2>2, <2>8 DEF d
<1>7. CASE Len(r.pkts) < MaxDrain /\ b.rtail = b.rhead /\ AtHead(b) # NoPkt
  <2>1. IsTakenHead(TakenHead(b), b, n, U)
    BY Zenon, <1>1, TakeHeadOK
  <2> DEFINE x == TakenHead(b)
             e == AtHead(b)
  <2>2. d = [ring |-> x, pkts |-> Append(r.pkts, e)]
    <3>1. ~(Len(r.pkts) >= MaxDrain)
      BY SMT, <1>4, <1>7, PoolAssumption
    <3> QED
      BY Zenon, <1>7, <3>1 DEF DrainStep, TakenHead
  <2> HIDE DEF x, d, b
  <2>3. /\ RingOK(x, n, U) /\ WaitOK(x, n, U)
        /\ x.ready = b.ready /\ x.rhead = b.rhead /\ x.rtail = b.rtail
        /\ Waiting(x, n) = Waiting(b, n)
        /\ \A i \in 0 .. n - 1 : x.order[i] \in {b.order[i], NoPkt}
        /\ \A i \in 0 .. n - 1 : x.order[i] # e
    BY Zenon, <1>7, <2>1 DEF IsTakenHead, x
  <2>4. e \in U /\ e \notin Range(r.pkts)
    BY Zenon, <1>1, <1>2, <1>7 DEF RingOK, TakenOK, AtHead
  <2>5. \A p \in Waiting(x, n) : x.ready[p] \notin Range(r.pkts) \cup {e}
    <3>1. \A p \in Waiting(b, n) : b.ready[p] \notin Range(r.pkts)
      BY Zenon, <1>1 DEF TakenOK
    <3>2. \A p \in Waiting(b, n) : b.ready[p] # e
      BY Zenon, <1>1, <1>2 DEF WaitOK, AtHead
    <3> QED
      BY Zenon, <2>3, <3>1, <3>2
  <2>6. \A i \in 0 .. n - 1 : x.order[i] \notin Range(r.pkts) \cup {e}
    <3>1. \A i \in 0 .. n - 1 : b.order[i] \notin Range(r.pkts)
      BY Zenon, <1>1 DEF TakenOK
    <3>2. NoPkt \notin Range(r.pkts)
      BY Zenon, <1>1, PoolAssumption DEF TakenOK
    <3> QED
      BY Zenon, <2>3, <3>1, <3>2
  <2>7. Left(x, n) = 0
    BY Zenon, <1>3, <1>7, <2>3 DEF Left
  <2> HIDE DEF e
  <2>8. [ring |-> x, pkts |-> Append(r.pkts, e)] \in Drains(n, U, k + 1)
    BY Zenon, <1>5, <2>3, <2>4, <2>5, <2>6, <2>7
  <2> QED
    BY Zenon, <2>2, <2>8 DEF d
<1>8. CASE d = r
  <2>1. Left(b, n) = 0
    <3> SUFFICES ASSUME b.rtail # b.rhead PROVE FALSE
      BY Zenon, <1>3
    <3>1. d # r
      <4>1. b.ready[b.rtail] \in U /\ b.ready[b.rtail] \notin Range(r.pkts)
        <5>1. b.rtail \in Waiting(b, n)
          BY Zenon, <1>1, TakeOK DEF IsTaken
        <5> QED
          BY Zenon, <1>1, <5>1 DEF WaitOK, TakenOK
      <4>2. Len(r.pkts) < MaxDrain
        BY Zenon, <1>1, <1>4, <4>1, Room DEF TakenOK
      <4>3. ~(Len(r.pkts) >= MaxDrain)
        BY SMT, <1>4, <4>2, PoolAssumption
      <4>4. d.ring = Taken(b)
        BY Zenon, <4>3 DEF DrainStep, Taken
      <4>5. Left(Taken(b), n) = Left(b, n) - 1
        BY ZenonT(30), <1>1, TakeOK DEF IsTaken
      <4> HIDE DEF b, d
      <4>6. Left(Taken(b), n) # Left(b, n)
        BY SMT, <1>3, <4>5
      <4> QED
        BY Zenon, <4>4, <4>6 DEF b
    <3> QED
      BY Zenon, <1>8, <3>1
  <2> QED
    BY Zenon, <1>1, <1>8, <2>1 DEF Drains, DrainOK
<1>9. d = r \/ (Len(r.pkts) < MaxDrain /\ (b.rtail # b.rhead \/ AtHead(b) # NoPkt))
  <2>1. Len(r.pkts) < MaxDrain \/ Len(r.pkts) >= MaxDrain
    BY SMT, <1>4, PoolAssumption
  <2> QED
    BY Zenon, <2>1 DEF DrainStep
<1> QED
  BY Zenon, <1>6, <1>7, <1>8, <1>9

LEMMA DrainsStart ==
    ASSUME NEW n \in Sizes, NEW U, NEW r \in [ring : Rings(n), pkts : Seq(Entries)], DrainOK(r, n, U)
    PROVE  r \in Drains(n, U, 0)
<1>1. Left(r.ring, n) \in 0 .. n - 1
  BY Zenon, LeftFacts DEF DrainOK
<1>2. Left(r.ring, n) + 0 <= n
  BY SMT, <1>1, TurnFacts
<1> QED
  BY Zenon, <1>2 DEF Drains

LEMMA DrainingOK ==
    ASSUME NEW n \in Sizes, NEW U \in SUBSET Entries, NEW b, RingOK(b, n, U), WaitOK(b, n, U)
    PROVE  /\ Draining(b)[0] = [ring |-> b, pkts |-> <<>>]
           /\ \A k \in 1 .. 2 * n : Draining(b)[k] = DrainStep(Draining(b)[k - 1])
           /\ \A k \in 0 .. 2 * n : Draining(b)[k] \in Drains(n, U, k)
<1> DEFINE N == 2 * n
           S == Drains(n, U, 0)
           a == [ring |-> b, pkts |-> <<>>]
           Step(f, k) == IF k = 0 THEN a ELSE DrainStep(f[k - 1])
           Is(f) == f = [k \in 0 .. N |-> Step(f, k)]
           F == [r \in S |-> DrainStep(r)]
<1>1. n \in Nat /\ N \in Nat
  BY SMT, SizesAssumption
<1>2. b \in Rings(n) /\ b.size = n
  BY Zenon DEF RingOK, Rings
<1>3. a \in S
  <2>1. <<>> \in Seq(Entries) /\ Range(<<>>) = {} /\ IsInjective(<<>>)
    BY SMT DEF Range, IsInjective
  <2>2. a \in [ring : Rings(n), pkts : Seq(Entries)] /\ a.ring = b /\ a.pkts = <<>>
    BY Zenon, <1>2, <2>1
  <2> HIDE DEF a
  <2>3. DrainOK(a, n, U)
    BY Zenon, <2>1, <2>2 DEF DrainOK, TakenOK
  <2> QED
    BY Zenon, <2>2, <2>3, DrainsStart
<1>4. F \in [S -> S]
  <2>1. ASSUME NEW r \in S PROVE DrainStep(r) \in S
    <3>1. DrainStep(r) \in Drains(n, U, 0 + 1)
      BY Zenon, DrainStepOK, 0 \in Nat
    <3> QED
      BY Zenon, <3>1, DrainsStart DEF Drains
  <2> QED
    BY Zenon, <2>1
<1>5. Draining(b) = CHOOSE f : Is(f)
  BY Zenon, <1>2 DEF Draining
<1> HIDE DEF N, S, a
<1>6. PICK f \in [0 .. N -> S] : f[0] = a /\ \A k \in 1 .. N : f[k] = F[f[k - 1]]
  <2> HIDE DEF F
  <2>1. Runs(N, S, a, F) # {}
    BY Zenon, <1>1, <1>3, <1>4, LoopExists
  <2> QED
    BY Zenon, <2>1 DEF Runs
<1>7. \A k \in 0 .. N : f[k] = Step(f, k)
  <2>1. \A k \in 0 .. N : k # 0 => k \in 1 .. N /\ k - 1 \in 0 .. N
    BY SMT, <1>1
  <2> QED
    BY Zenon, <1>6, <2>1
<1>8. Is(f)
  BY Zenon, <1>6, <1>7
<1> DEFINE g == Draining(b)
<1>9. Is(g)
  <2> HIDE DEF Is
  <2> QED
    BY Zenon, <1>5, <1>8
<1> HIDE DEF g
<1>10. g[0] = a /\ \A k \in 1 .. N : g[k] = DrainStep(g[k - 1])
  <2>1. 0 \in 0 .. N /\ \A k \in 1 .. N : k \in 0 .. N /\ k # 0
    BY SMT, <1>1
  <2>2. \A k \in 0 .. N : g[k] = Step(g, k)
    BY Zenon, <1>9
  <2> QED
    BY Zenon, <2>1, <2>2
<1>11. \A k \in 0 .. N : g[k] \in Drains(n, U, k)
  <2> DEFINE T == [k \in 0 .. N |-> Drains(n, U, k)]
  <2>1. \A k \in 0 .. N : T[k] = Drains(n, U, k)
    BY Zenon
  <2>2. 0 \in 0 .. N /\ \A k \in 1 .. N : k \in 0 .. N /\ k - 1 \in 0 .. N /\ k - 1 \in Nat /\ (k - 1) + 1 = k
    BY SMT, <1>1
  <2>3. \A k \in 1 .. N : g[k - 1] \in Drains(n, U, k - 1) => DrainStep(g[k - 1]) \in Drains(n, U, (k - 1) + 1)
    BY Zenon, <2>2, DrainStepOK
  <2>4. g[0] \in T[0] /\ \A k \in 1 .. N : g[k - 1] \in T[k - 1] => g[k] \in T[k]
    BY Zenon, <1>3, <1>10, <2>1, <2>2, <2>3 DEF S
  <2> HIDE DEF T
  <2>5. \A k \in 0 .. N : g[k] \in T[k]
    BY Zenon, <1>1, <2>4, LoopInvariant
  <2> QED
    BY Zenon, <2>1, <2>5
<1> QED
  BY Zenon, <1>10, <1>11 DEF g, N, a

(* What mlvpn_reorder_drain leaves: ready_buf is empty and the packets it  *)
(* returns are in no buffer.                                               *)
LEMMA DrainedOK ==
    ASSUME NEW n \in Sizes, NEW U \in SUBSET Entries, NEW b, RingOK(b, n, U), WaitOK(b, n, U)
    PROVE  /\ RingOK(Drain(b).ring, n, U) /\ Drain(b).ring.rhead = Drain(b).ring.rtail
           /\ Drain(b).pkts \in Seq(Entries)
           /\ TakenOK(Drain(b).ring, Drain(b).pkts, n, U)
<1> DEFINE r == Drain(b)
<1>1. b.size = n /\ n \in Nat /\ n # 0
  BY Zenon, TurnFacts DEF RingOK, Rings
<1>2. 2 * n \in 0 .. 2 * n
  BY SMT, <1>1
<1>3. r \in Drains(n, U, 2 * n)
  BY Zenon, <1>1, <1>2, DrainingOK DEF Drain
<1> HIDE DEF r
<1>4. /\ RingOK(r.ring, n, U) /\ TakenOK(r.ring, r.pkts, n, U) /\ r.pkts \in Seq(Entries)
      /\ Left(r.ring, n) = 0 \/ Left(r.ring, n) + 2 * n <= n
  BY Zenon, <1>3 DEF Drains, DrainOK
<1>5. Left(r.ring, n) \in 0 .. n - 1 /\ (Left(r.ring, n) = 0 <=> r.ring.rtail = r.ring.rhead)
  BY Zenon, <1>4, LeftFacts
<1> DEFINE l == Left(r.ring, n)
<1> HIDE DEF l
<1>6. l \in 0 .. n - 1 /\ (l = 0 \/ l + 2 * n <= n)
  BY Zenon, <1>4, <1>5 DEF l
<1>7. l = 0
  BY SMT, <1>1, <1>6
<1> QED
  BY Zenon, <1>4, <1>5, <1>7 DEF l, r

-----------------------------------------------------------------------------
(* The free and the used list.                                             *)

UpTo(u, S, k) == {u[i] : i \in 1 .. k} \ S

(* mlvpn_freebuffer_free takes entries out of the used list and leaves the *)
(* others in it.                                                           *)
LEMMA WithoutOK ==
    ASSUME NEW u \in Seq(Entries), IsInjective(u), NEW S
    PROVE  IsListOf(Without(u, S), Entries, Range(u) \ S)
<1> DEFINE N == Len(u)
           A == Seq(Entries)
           Next1(k, q) == IF u[k] \in S THEN q ELSE Append(q, u[k])
           Step(f, k) == IF k = 0 THEN <<>> ELSE IF u[k] \in S THEN f[k - 1] ELSE Append(f[k - 1], u[k])
           Is(f) == f = [k \in 0 .. N |-> Step(f, k)]
           F == [k \in Nat |-> [q \in A |-> IF k \in 1 .. N THEN Next1(k, q) ELSE q]]
           g == CHOOSE f : Is(f)
<1>1. /\ N \in Nat /\ DOMAIN u = 1 .. N /\ <<>> \in A
      /\ \A k \in 1 .. N : u[k] \in Entries /\ k \in Nat
  BY SMT
<1>2. F \in [Nat -> [A -> A]]
  <2>1. ASSUME NEW k \in 1 .. N, NEW q \in A PROVE Append(q, u[k]) \in A
    BY SMT, <1>1
  <2> HIDE DEF A, N
  <2> QED
    BY Zenon, <2>1
<1>3. Without(u, S) = g[N]
  BY Zenon DEF Without
<1> HIDE DEF A, N
<1>4. PICK f \in [0 .. N -> A] : f[0] = <<>> /\ \A k \in 1 .. N : f[k] = F[k][f[k - 1]]
  <2> HIDE DEF F
  <2>1. Passes(N, A, <<>>, F) # {}
    BY Zenon, <1>1, <1>2, PassesExist
  <2> QED
    BY Zenon, <2>1 DEF Passes
<1>5. \A k \in 0 .. N : f[k] = Step(f, k)
  <2>1. \A k \in 0 .. N : k # 0 => k \in 1 .. N /\ k - 1 \in 0 .. N
    BY SMT, <1>1
  <2>2. \A k \in 1 .. N : f[k] = Next1(k, f[k - 1])
    <3>1. \A k \in 1 .. N : k - 1 \in 0 .. N
      BY SMT, <1>1
    <3> QED
      BY Zenon, <1>1, <1>4, <3>1
  <2> QED
    BY Zenon, <1>4, <2>1, <2>2
<1>6. Is(f)
  BY Zenon, <1>4, <1>5
<1>7. Is(g)
  <2> HIDE DEF Is
  <2> QED
    BY Zenon, <1>6
<1> HIDE DEF g
<1>8. g[0] = <<>> /\ \A k \in 1 .. N : g[k] = Next1(k, g[k - 1])
  <2>1. 0 \in 0 .. N /\ \A k \in 1 .. N : k \in 0 .. N /\ k # 0
    BY SMT, <1>1
  <2>2. \A k \in 0 .. N : g[k] = Step(g, k)
    BY Zenon, <1>7
  <2> QED
    BY Zenon, <2>1, <2>2
<1> DEFINE Q(k) == {q \in A : IsInjective(q) /\ Range(q) = UpTo(u, S, k)}
           T == [k \in 0 .. N |-> Q(k)]
<1>9. g[0] \in Q(0)
  <2>1. 1 .. 0 = {}
    BY SMT
  <2>2. UpTo(u, S, 0) = {}
    BY Zenon, <2>1 DEF UpTo
  <2>3. Range(<<>>) = {} /\ IsInjective(<<>>)
    BY SMT DEF Range, IsInjective
  <2> QED
    BY Zenon, <1>1, <1>8, <2>2, <2>3
<1>10. ASSUME NEW k \in 1 .. N, g[k - 1] \in Q(k - 1) PROVE g[k] \in Q(k)
  <2>1. /\ k \in 1 .. k /\ \A i \in 1 .. k - 1 : i \in 1 .. k /\ i \in 1 .. N /\ i # k
        /\ \A i \in 1 .. k : i = k \/ i \in 1 .. k - 1
    BY SMT, <1>1
  <2>2. CASE u[k] \in S
    <3>1. UpTo(u, S, k) = UpTo(u, S, k - 1)
      BY Zenon, <2>1, <2>2 DEF UpTo
    <3> QED
      BY Zenon, <1>8, <1>10, <2>2, <3>1
  <2>3. CASE u[k] \notin S
    <3>1. UpTo(u, S, k) = UpTo(u, S, k - 1) \cup {u[k]}
      BY Zenon, <2>1, <2>3 DEF UpTo
    <3>2. u[k] \notin UpTo(u, S, k - 1)
      BY Zenon, <1>1, <2>1 DEF UpTo, IsInjective
    <3> DEFINE q == g[k - 1]
               x == u[k]
    <3>3. q \in Seq(Entries) /\ IsInjective(q) /\ x \in Entries /\ x \notin Range(q)
      BY Zenon, <1>1, <1>10, <3>2 DEF A
    <3>7. Range(q) = UpTo(u, S, k - 1)
      BY Zenon, <1>10
    <3>4. g[k] = Append(q, x)
      BY Zenon, <1>8, <2>3
    <3>5. UpTo(u, S, k) = UpTo(u, S, k - 1) \cup {x}
      BY Zenon, <3>1
    <3> HIDE DEF q, x
    <3>6. IsListOf(Append(q, x), Entries, Range(q) \cup {x})
      BY Zenon, <3>3, AppendFacts
    <3> QED
      BY Zenon, <3>7, <3>4, <3>5, <3>6 DEF A, IsListOf
  <2> QED
    BY Zenon, <2>2, <2>3
<1> HIDE DEF Q
<1>11. \A k \in 0 .. N : g[k] \in Q(k)
  <2>1. 0 \in 0 .. N /\ \A k \in 1 .. N : k \in 0 .. N /\ k - 1 \in 0 .. N
    BY SMT, <1>1
  <2>2. \A k \in 0 .. N : T[k] = Q(k)
    BY Zenon
  <2> HIDE DEF T
  <2>3. g[0] \in T[0] /\ \A k \in 1 .. N : g[k - 1] \in T[k - 1] => g[k] \in T[k]
    BY Zenon, <1>9, <1>10, <2>1, <2>2
  <2>4. \A k \in 0 .. N : g[k] \in T[k]
    BY Zenon, <1>1, <2>3, LoopInvariant
  <2> QED
    BY Zenon, <2>2, <2>4
<1>12. g[N] \in Q(N)
  <2>1. N \in 0 .. N
    BY SMT, <1>1
  <2> QED
    BY Zenon, <1>11, <2>1
<1>13. UpTo(u, S, N) = Range(u) \ S
  BY Zenon, <1>1 DEF UpTo, Range
<1> QED
  BY Zenon, <1>3, <1>12, <1>13 DEF Q, A, IsListOf

LEMMA ReversedOK ==
    ASSUME NEW S, NEW q \in Seq(S), IsInjective(q)
    PROVE  IsListOf(Reversed(q), S, Range(q))
<1> DEFINE N == Len(q)
           r == Reversed(q)
<1>1. N \in Nat /\ DOMAIN q = 1 .. N /\ \A i \in 1 .. N : q[i] \in S
  OBVIOUS
<1>2. \A i \in 1 .. N : N - i + 1 \in 1 .. N /\ N - (N - i + 1) + 1 = i
  BY SMT, <1>1
<1>3. DOMAIN r = 1 .. N /\ \A i \in 1 .. N : r[i] = q[N - i + 1]
  BY Zenon DEF Reversed
<1>4. r \in Seq(S)
  <2>1. r \in [1 .. N -> S]
    BY Zenon, <1>1, <1>2 DEF Reversed
  <2> HIDE DEF r, N
  <2> QED
    BY SMT, <1>1, <2>1
<1> HIDE DEF r
<1>5. ASSUME NEW i \in 1 .. N, NEW j \in 1 .. N, r[i] = r[j] PROVE i = j
  <2>1. N - i + 1 = N - j + 1
    BY ZenonT(30), <1>1, <1>2, <1>3, <1>5 DEF IsInjective
  <2> QED
    BY SMT, <1>1, <2>1
<1>6. \A i \in 1 .. N : q[i] = r[N - i + 1]
  <2>1. ASSUME NEW i \in 1 .. N PROVE q[i] = r[N - i + 1]
    <3>1. r[N - i + 1] = q[N - (N - i + 1) + 1]
      BY Zenon, <1>2, <1>3
    <3> QED
      BY Zenon, <1>2, <3>1
  <2> QED
    BY Zenon, <2>1
<1>7. {r[i] : i \in 1 .. N} = {q[i] : i \in 1 .. N}
  <2>1. \A i \in 1 .. N : \E j \in 1 .. N : r[i] = q[j]
    BY Zenon, <1>2, <1>3
  <2>2. \A i \in 1 .. N : \E j \in 1 .. N : q[i] = r[j]
    BY Zenon, <1>2, <1>6
  <2> DEFINE D == 1 .. N
  <2> HIDE DEF D
  <2>3. /\ \A i \in D : \E j \in D : r[i] = q[j]
        /\ \A i \in D : \E j \in D : q[i] = r[j]
    BY Zenon, <2>1, <2>2 DEF D
  <2>4. {r[i] : i \in D} \subseteq {q[i] : i \in D}
    <3>1. ASSUME NEW i \in D PROVE r[i] \in {q[j] : j \in D}
      <4>1. PICK j \in D : r[i] = q[j]
        BY Zenon, <2>3
      <4> QED
        BY Zenon, <4>1
    <3> QED
      BY Zenon, <3>1
  <2>5. {q[i] : i \in D} \subseteq {r[i] : i \in D}
    <3>1. ASSUME NEW i \in D PROVE q[i] \in {r[j] : j \in D}
      <4>1. PICK j \in D : q[i] = r[j]
        BY Zenon, <2>3
      <4> QED
        BY Zenon, <4>1
    <3> QED
      BY Zenon, <3>1
  <2> QED
    BY Zenon, <2>4, <2>5 DEF D
<1> QED
  BY Zenon, <1>1, <1>3, <1>4, <1>5, <1>7 DEF IsListOf, IsInjective, Range, r

LEMMA ConcatOK ==
    ASSUME NEW S, NEW q \in Seq(S), NEW r \in Seq(S), IsInjective(q), IsInjective(r),
           Range(q) \cap Range(r) = {}
    PROVE  IsListOf(q \o r, S, Range(q) \cup Range(r))
<1> DEFINE M == Len(q)
           N == Len(r)
           c == q \o r
<1>1. /\ M \in Nat /\ N \in Nat /\ DOMAIN q = 1 .. M /\ DOMAIN r = 1 .. N
      /\ c \in Seq(S) /\ DOMAIN c = 1 .. M + N
      /\ \A i \in 1 .. M : c[i] = q[i]
      /\ \A i \in M + 1 .. M + N : c[i] = r[i - M]
  BY SMT
<1>2. \A i \in 1 .. M + N : i \in 1 .. M \/ (i \in M + 1 .. M + N /\ i - M \in 1 .. N)
  BY SMT, <1>1
<1>3. \A i \in M + 1 .. M + N, j \in M + 1 .. M + N : i - M = j - M => i = j
  BY SMT, <1>1
<1>4. \A i \in 1 .. N : i + M \in M + 1 .. M + N /\ i + M \in 1 .. M + N /\ (i + M) - M = i
  BY SMT, <1>1
<1>5. \A i \in 1 .. M : i \in 1 .. M + N
  BY SMT, <1>1
<1> HIDE DEF M, N, c
<1>6. \A i \in 1 .. M, j \in 1 .. N : q[i] # r[j]
  BY Zenon, <1>1 DEF Range
<1>7. ASSUME NEW i \in 1 .. M + N, NEW j \in 1 .. M + N, c[i] = c[j] PROVE i = j
  <2>1. CASE i \in 1 .. M /\ j \in 1 .. M
    BY Zenon, <1>1, <1>7, <2>1 DEF IsInjective
  <2>2. CASE i \in 1 .. M /\ j \in M + 1 .. M + N /\ j - M \in 1 .. N
    BY Zenon, <1>1, <1>6, <1>7, <2>2
  <2>3. CASE j \in 1 .. M /\ i \in M + 1 .. M + N /\ i - M \in 1 .. N
    BY Zenon, <1>1, <1>6, <1>7, <2>3
  <2>4. CASE i \in M + 1 .. M + N /\ j \in M + 1 .. M + N /\ i - M \in 1 .. N /\ j - M \in 1 .. N
    <3> DEFINE x == i - M
               y == j - M
    <3>1. x \in DOMAIN r /\ y \in DOMAIN r /\ r[x] = r[y]
      BY Zenon, <1>1, <1>7, <2>4
    <3> HIDE DEF x, y
    <3>2. x = y
      BY Zenon, <3>1 DEF IsInjective
    <3> QED
      BY Zenon, <1>3, <2>4, <3>2 DEF x, y
  <2> QED
    BY Zenon, <1>2, <2>1, <2>2, <2>3, <2>4
<1>8. {c[i] : i \in 1 .. M + N} = {q[i] : i \in 1 .. M} \cup {r[i] : i \in 1 .. N}
  <2>1. \A i \in 1 .. M + N : (\E j \in 1 .. M : c[i] = q[j]) \/ (\E j \in 1 .. N : c[i] = r[j])
    BY Zenon, <1>1, <1>2
  <2>2. \A i \in 1 .. M : \E j \in 1 .. M + N : q[i] = c[j]
    BY Zenon, <1>1, <1>5
  <2>3. ASSUME NEW i \in 1 .. N PROVE \E j \in 1 .. M + N : r[i] = c[j]
    <3>1. c[i + M] = r[(i + M) - M]
      BY Zenon, <1>1, <1>4
    <3>2. c[i + M] = r[i]
      BY Zenon, <1>4, <3>1
    <3> QED
      BY Zenon, <1>4, <3>2
  <2> DEFINE D == 1 .. M + N
             E == 1 .. M
             G == 1 .. N
  <2> HIDE DEF D, E, G
  <2>4. /\ \A i \in D : (\E j \in E : c[i] = q[j]) \/ (\E j \in G : c[i] = r[j])
        /\ \A i \in E : \E j \in D : q[i] = c[j]
        /\ \A i \in G : \E j \in D : r[i] = c[j]
    BY Zenon, <2>1, <2>2, <2>3 DEF D, E, G
  <2>5. {c[i] : i \in D} = {q[i] : i \in E} \cup {r[i] : i \in G}
    BY SMT, <2>4
  <2> QED
    BY Zenon, <2>5 DEF D, E, G
<1> QED
  BY Zenon, <1>1, <1>7, <1>8 DEF IsListOf, IsInjective, Range, c

LEMMA TailOK ==
    ASSUME NEW S, NEW q \in Seq(S), IsInjective(q), q # <<>>
    PROVE  /\ Head(q) \in Range(q) /\ Head(q) \in S
           /\ IsListOf(Tail(q), S, Range(q) \ {Head(q)})
<1> DEFINE N == Len(q)
           t == Tail(q)
<1>1. /\ N \in Nat /\ 1 \in 1 .. N /\ DOMAIN q = 1 .. N /\ Head(q) = q[1]
      /\ t \in Seq(S) /\ DOMAIN t = 1 .. N - 1 /\ q[1] \in S
      /\ \A i \in 1 .. N - 1 : t[i] = q[i + 1]
  BY SMT
<1>2. /\ \A i \in 1 .. N - 1 : i + 1 \in 1 .. N /\ i + 1 # 1
      /\ \A i, j \in 1 .. N - 1 : i + 1 = j + 1 => i = j
      /\ \A i \in 1 .. N : i # 1 => i - 1 \in 1 .. N - 1 /\ (i - 1) + 1 = i
  BY SMT, <1>1
<1> HIDE DEF N, t
<1>3. \A i \in 1 .. N : i # 1 => q[i] = t[i - 1] /\ q[i] # q[1]
  <2>1. ASSUME NEW i \in 1 .. N, i # 1 PROVE q[i] = t[i - 1] /\ q[i] # q[1]
    <3>1. t[i - 1] = q[(i - 1) + 1]
      BY Zenon, <1>1, <1>2, <2>1
    <3>2. t[i - 1] = q[i]
      BY Zenon, <1>2, <2>1, <3>1
    <3> QED
      BY Zenon, <1>1, <2>1, <3>2 DEF IsInjective
  <2> QED
    BY Zenon, <2>1
<1>4. ASSUME NEW i \in 1 .. N - 1, NEW j \in 1 .. N - 1, t[i] = t[j] PROVE i = j
  <2> DEFINE x == i + 1
             y == j + 1
  <2>1. x \in DOMAIN q /\ y \in DOMAIN q /\ q[x] = q[y]
    BY Zenon, <1>1, <1>2, <1>4
  <2> HIDE DEF x, y
  <2>2. x = y
    BY Zenon, <2>1 DEF IsInjective
  <2> QED
    BY Zenon, <1>2, <2>2 DEF x, y
<1>5. {t[i] : i \in 1 .. N - 1} = {q[i] : i \in 1 .. N} \ {q[1]}
  <2>1. ASSUME NEW i \in 1 .. N - 1 PROVE (\E j \in 1 .. N : t[i] = q[j]) /\ t[i] # q[1]
    <3> DEFINE x == i + 1
    <3>1. x \in 1 .. N /\ x # 1 /\ t[i] = q[x]
      BY Zenon, <1>1, <1>2
    <3> HIDE DEF x
    <3> QED
      BY Zenon, <1>3, <3>1
  <2>2. \A i \in 1 .. N : q[i] # q[1] => \E j \in 1 .. N - 1 : q[i] = t[j]
    BY Zenon, <1>2, <1>3
  <2> DEFINE D == 1 .. N
             E == 1 .. N - 1
  <2> HIDE DEF D, E
  <2>3. /\ \A i \in E : (\E j \in D : t[i] = q[j]) /\ t[i] # q[1]
        /\ \A i \in D : q[i] # q[1] => \E j \in E : q[i] = t[j]
    BY Zenon, <2>1, <2>2 DEF D, E
  <2>4. {t[i] : i \in E} = {q[i] : i \in D} \ {q[1]}
    BY SMT, <2>3
  <2> QED
    BY Zenon, <2>4 DEF D, E
<1>6. Head(q) \in Range(q) /\ Head(q) \in S
  BY Zenon, <1>1 DEF Range
<1> QED
  BY Zenon, <1>1, <1>4, <1>5, <1>6 DEF IsListOf, IsInjective, Range, t

-----------------------------------------------------------------------------
(* Arithmetic.                                                             *)

LEMMA SizeFacts ==
    ASSUME PowersOfTwo, NEW n \in Sizes
    PROVE  n \in Nat \ {0} /\ 8 * n <= SeqSpace /\ SeqSpace \in Nat \ {0} /\ Turn(n) = n
<1>1. /\ n \in Nat \ {0} /\ 8 * n <= SeqSpace /\ SeqSpace \in Nat
      /\ Turn(n) \in 1 .. n
      /\ \A x \in 0 .. Turn(n) - 1 : BitAnd(x + 1, n - 1) = Succ(Turn(n), x)
  BY Zenon, TurnFacts
<1> DEFINE c == Turn(n)
<1> HIDE DEF c
<1>2. c \in 1 .. n /\ \A x \in 0 .. c - 1 : BitAnd(x + 1, n - 1) = Succ(c, x)
  BY Zenon, <1>1 DEF c
<1>3. c - 1 \in 0 .. c - 1 /\ (c - 1) + 1 = c /\ c \in 0 .. 2 * SeqSpace /\ c # 0
  BY SMT, <1>1, <1>2
<1>4. BitAnd((c - 1) + 1, n - 1) = Succ(c, c - 1)
  BY Zenon, <1>2, <1>3
<1>5. BitAnd(c, n - 1) = Succ(c, c - 1)
  BY Zenon, <1>3, <1>4
<1>6. Succ(c, c - 1) = 0
  BY SMT, <1>3 DEF Succ
<1>7. c % n = 0
  BY Zenon, <1>3, <1>5, <1>6 DEF PowersOfTwo
<1>8. c < n => c % n = c
  BY SMTT(30), <1>1, <1>2
<1>9. c = n
  BY SMT, <1>1, <1>2, <1>3, <1>7, <1>8
<1> QED
  BY SMT, <1>1, <1>9 DEF c

LEMMA ModSame ==
    ASSUME NEW n \in Nat \ {0}, NEW x \in 0 .. n - 1
    PROVE  x % n = x
BY SMTT(30)

LEMMA ModOnce ==
    ASSUME NEW n \in Nat \ {0}, NEW x \in n .. 2 * n - 1
    PROVE  x % n = x - n
BY SMTT(30)

LEMMA ModBelow ==
    ASSUME NEW n \in Nat \ {0}, NEW x \in -n + 1 .. -1
    PROVE  x % n = x + n
BY SMTT(30)

(* The unsigned difference and sum of the code.                            *)
LEMMA DistIsMod ==
    ASSUME NEW x \in Seqs, NEW y \in Seqs
    PROVE  (y - x) % SeqSpace = Window!Dist(x, y) /\ Window!Dist(x, y) \in Seqs
<1>1. SeqSpace \in Nat \ {0}
  BY SeqSpaceAssumption
<1> DEFINE z == y - x
<1>2. CASE y >= x
  <2>1. z \in 0 .. SeqSpace - 1
    BY SMT, <1>1, <1>2 DEF Seqs
  <2> HIDE DEF z
  <2>2. z % SeqSpace = z
    BY Zenon, <1>1, <2>1, ModSame
  <2> QED
    BY SMT, <1>1, <1>2, <2>1, <2>2 DEF z, Window!Dist, Seqs
<1>3. CASE ~(y >= x)
  <2>1. z \in -SeqSpace + 1 .. -1
    BY SMT, <1>1, <1>3 DEF Seqs
  <2> HIDE DEF z
  <2>2. z % SeqSpace = z + SeqSpace
    BY Zenon, <1>1, <2>1, ModBelow
  <2> QED
    BY SMT, <1>1, <1>3, <2>1, <2>2 DEF z, Window!Dist, Seqs
<1> QED
  BY Zenon, <1>2, <1>3

LEMMA PlusIsMod ==
    ASSUME NEW x \in Seqs, NEW k \in Seqs
    PROVE  (x + k) % SeqSpace = Window!Plus(x, k) /\ Window!Plus(x, k) \in Seqs
<1>1. SeqSpace \in Nat \ {0}
  BY SeqSpaceAssumption
<1> DEFINE z == x + k
<1>2. CASE z < SeqSpace
  <2>1. z \in 0 .. SeqSpace - 1
    BY SMT, <1>1, <1>2 DEF Seqs
  <2> HIDE DEF z
  <2>2. z % SeqSpace = z
    BY Zenon, <1>1, <2>1, ModSame
  <2> QED
    BY SMT, <1>1, <1>2, <2>1, <2>2 DEF z, Window!Plus, Seqs
<1>3. CASE ~(z < SeqSpace)
  <2>1. z \in SeqSpace .. 2 * SeqSpace - 1
    BY SMT, <1>1, <1>3 DEF Seqs
  <2> HIDE DEF z
  <2>2. z % SeqSpace = z - SeqSpace
    BY Zenon, <1>1, <2>1, ModOnce
  <2> QED
    BY SMT, <1>1, <1>3, <2>1, <2>2 DEF z, Window!Plus, Seqs
<1> QED
  BY Zenon, <1>2, <1>3

(* Places in a ring of n.                                                  *)
LEMMA GapFacts ==
    ASSUME NEW n \in Nat \ {0}, NEW x \in 0 .. n - 1, NEW y \in 0 .. n - 1
    PROVE  /\ Gap(n, x, y) \in 0 .. n - 1
           /\ Gap(n, x, y) = 0 <=> x = y
           /\ x # y => Gap(n, Succ(n, x), y) = Gap(n, x, y) - 1
BY SMT DEF Gap, Succ

(* The place that Put finds.                                               *)
LEMMA PlaceFacts ==
    ASSUME PowersOfTwo, NEW n \in Sizes, NEW x \in 0 .. n - 1, NEW d \in 0 .. n - 1
    PROVE  BitAnd(x + d, n - 1) \in 0 .. n - 1 /\ Gap(n, x, BitAnd(x + d, n - 1)) = d
<1>1. n \in Nat \ {0} /\ 8 * n <= SeqSpace /\ SeqSpace \in Nat \ {0}
  BY Zenon, SizeFacts
<1> DEFINE z == x + d
<1>2. z \in 0 .. 2 * SeqSpace
  BY SMT, <1>1
<1>3. BitAnd(z, n - 1) = z % n
  <2> HIDE DEF z
  <2> QED
    BY Zenon, <1>2 DEF PowersOfTwo
<1>4. CASE z < n
  <2>1. z \in 0 .. n - 1
    BY SMT, <1>1, <1>4
  <2> HIDE DEF z
  <2>2. z % n = z
    BY Zenon, <1>1, <2>1, ModSame
  <2>3. Gap(n, x, z) = d
    BY SMT, <1>1, <2>1 DEF z, Gap
  <2> QED
    BY Zenon, <1>3, <2>1, <2>2, <2>3 DEF z
<1>5. CASE ~(z < n)
  <2>1. z \in n .. 2 * n - 1
    BY SMT, <1>1, <1>5
  <2> HIDE DEF z
  <2>2. z % n = z - n
    BY Zenon, <1>1, <2>1, ModOnce
  <2>3. Gap(n, x, z - n) = d /\ z - n \in 0 .. n - 1
    BY SMT, <1>1, <2>1 DEF z, Gap
  <2> QED
    BY Zenon, <1>3, <2>2, <2>3 DEF z
<1> QED
  BY Zenon, <1>4, <1>5

-----------------------------------------------------------------------------
(* Within a handler.                                                       *)

(* The head of order_buf has the entry at the distance it has moved.       *)
LEMMA HeadIsNext ==
    ASSUME PowersOfTwo, NEW n \in Sizes, NEW b \in Rings(n), NEW K \in SUBSET Entries, NEW P,
           NEW a \in Nat, SlotsOK(b, n, K, P, a)
    PROVE  /\ AtHead(b) # NoPkt => AtHead(b) \in K /\ P[AtHead(b)] = a
           /\ \A f \in K : P[f] = a => AtHead(b) = f
<1>1. n \in Nat \ {0}
  BY Zenon, SizeFacts
<1>2. b.ohead \in 0 .. n - 1
  BY Zenon DEF Rings
<1>3. \A i \in 0 .. n - 1 : Gap(n, b.ohead, i) \in 0 .. n - 1 /\ (Gap(n, b.ohead, i) = 0 <=> b.ohead = i)
  BY SMT, <1>1, <1>2 DEF Gap
<1>4. ASSUME AtHead(b) # NoPkt PROVE AtHead(b) \in K /\ P[AtHead(b)] = a
  <2>1. AtHead(b) \in K /\ P[AtHead(b)] = a + Gap(n, b.ohead, b.ohead)
    BY Zenon, <1>2, <1>4 DEF SlotsOK, AtHead
  <2>2. Gap(n, b.ohead, b.ohead) = 0
    BY Zenon, <1>2, <1>3
  <2> QED
    BY SMT, <2>1, <2>2
<1>5. ASSUME NEW f \in K, P[f] = a, f # NoPkt PROVE AtHead(b) = f
  <2>1. P[f] >= a
    BY SMT, <1>5
  <2>2. PICK i \in 0 .. n - 1 : b.order[i] = f
    BY Zenon, <2>1 DEF SlotsOK
  <2>3. P[f] = a + Gap(n, b.ohead, i)
    BY Zenon, <1>5, <2>2 DEF SlotsOK
  <2> DEFINE g == Gap(n, b.ohead, i)
  <2> HIDE DEF g
  <2>4. g \in 0 .. n - 1 /\ a = a + g
    BY Zenon, <1>3, <1>5, <2>3 DEF g
  <2>5. g = 0
    BY SMT, <1>1, <2>4
  <2> QED
    BY Zenon, <1>3, <2>2, <2>5 DEF AtHead, g
<1> QED
  BY Zenon, <1>4, <1>5, PoolAssumption

(* Moving the head over an empty slot or one that is emptied.              *)
LEMMA SlotsPop ==
    ASSUME PowersOfTwo, NEW n \in Sizes, NEW b \in Rings(n), NEW K, NEW P, NEW a \in Nat,
           SlotsOK(b, n, K, P, a), \A f \in K : P[f] \in Nat,
           NEW q, q.order = [b.order EXCEPT ![b.ohead] = NoPkt], q.ohead = Succ(n, b.ohead)
    PROVE  SlotsOK(q, n, K, P, a + 1)
<1>1. n \in Nat \ {0}
  BY Zenon, SizeFacts
<1>2. b.ohead \in 0 .. n - 1 /\ b.order \in [0 .. n - 1 -> Slots]
  BY Zenon DEF Rings
<1> DEFINE h == b.ohead
           G(i) == Gap(n, h, i)
<1> HIDE DEF h
<1>3. h \in 0 .. n - 1 /\ q.ohead = Succ(n, h)
  BY Zenon, <1>2 DEF h
<1>4. /\ \A i \in 0 .. n - 1 : G(i) \in Nat
      /\ \A i \in 0 .. n - 1 : i = h => G(i) = 0
      /\ \A i \in 0 .. n - 1 : i # h => Gap(n, Succ(n, h), i) = G(i) - 1
  BY SMT, <1>1, <1>3 DEF Gap, Succ
<1>5. \A i \in 0 .. n - 1 : q.order[i] = IF i = h THEN NoPkt ELSE b.order[i]
  BY Zenon, <1>2 DEF h
<1>6. /\ \A i \in 0 .. n - 1 : b.order[i] # NoPkt => b.order[i] \in K /\ P[b.order[i]] = a + G(i)
      /\ \A f \in K : P[f] >= a => \E i \in 0 .. n - 1 : b.order[i] = f
  BY Zenon DEF SlotsOK, h
<1>7. ASSUME NEW i \in 0 .. n - 1, q.order[i] # NoPkt
      PROVE  q.order[i] \in K /\ P[q.order[i]] = (a + 1) + Gap(n, q.ohead, i)
  <2>1. i # h /\ q.order[i] = b.order[i] /\ b.order[i] # NoPkt
    BY Zenon, <1>5, <1>7
  <2>2. b.order[i] \in K /\ P[b.order[i]] = a + G(i)
    BY Zenon, <1>6, <2>1
  <2>3. Gap(n, q.ohead, i) = G(i) - 1 /\ G(i) \in Nat
    BY Zenon, <1>3, <1>4, <2>1
  <2> DEFINE g == G(i)
             x == Gap(n, q.ohead, i)
             y == P[b.order[i]]
  <2> HIDE DEF g, x, y
  <2>4. y = a + g /\ x = g - 1 /\ g \in Nat
    BY Zenon, <2>2, <2>3 DEF g, x, y
  <2>5. y = (a + 1) + x
    BY SMT, <2>4
  <2> QED
    BY Zenon, <2>1, <2>2, <2>5 DEF x, y
<1>8. ASSUME NEW f \in K, P[f] >= a + 1 PROVE \E i \in 0 .. n - 1 : q.order[i] = f
  <2>1. P[f] >= a /\ P[f] # a
    BY SMT, <1>8
  <2>2. PICK i \in 0 .. n - 1 : b.order[i] = f
    BY Zenon, <1>6, <2>1
  <2>3. CASE f = NoPkt
    <3>1. q.order[h] = NoPkt
      BY Zenon, <1>3, <1>5
    <3> QED
      BY Zenon, <1>3, <2>3, <3>1
  <2>4. CASE f # NoPkt
    <3>1. P[f] = a + G(i) /\ G(i) \in Nat
      BY Zenon, <1>4, <1>6, <2>2, <2>4
    <3> DEFINE g == G(i)
    <3> HIDE DEF g
    <3>2. P[f] = a + g
      BY Zenon, <3>1 DEF g
    <3>3. g # 0
      BY SMT, <2>1, <3>2
    <3>4. i # h
      BY Zenon, <1>4, <3>3 DEF g
    <3> QED
      BY Zenon, <1>5, <2>2, <3>4
  <2> QED
    BY Zenon, <2>3, <2>4
<1> QED
  BY Zenon, <1>7, <1>8 DEF SlotsOK

LEMMA LineSkip ==
    ASSUME NEW n \in Sizes, NEW b, NEW q, NEW pkts, NEW K, NEW P, NEW a \in Nat,
           LineOK(b, pkts, n, K, P, a), \A f \in K : P[f] \in Nat, \A f \in K : P[f] # a,
           q.ready = b.ready, q.rtail = b.rtail, q.rhead = b.rhead
    PROVE  LineOK(q, pkts, n, K, P, a + 1)
<1>1. Waiting(q, n) = Waiting(b, n)
  BY Zenon DEF Waiting
<1>2. \A f \in K : P[f] < a + 1 <=> P[f] < a
  BY SMT
<1> DEFINE W == Waiting(b, n)
<1> HIDE DEF W
<1>3. /\ \A p \in W : b.ready[p] \in K /\ P[b.ready[p]] < a
      /\ \A i \in 1 .. Len(pkts) : pkts[i] \in K /\ P[pkts[i]] < a
      /\ \A f \in K : P[f] < a => f \in Range(pkts) \/ \E p \in W : b.ready[p] = f
      /\ \A p, r \in W : Gap(n, b.rtail, p) < Gap(n, b.rtail, r) => P[b.ready[p]] < P[b.ready[r]]
      /\ \A i \in 1 .. Len(pkts), p \in W : P[pkts[i]] < P[b.ready[p]]
      /\ \A i, j \in 1 .. Len(pkts) : i < j => P[pkts[i]] < P[pkts[j]]
  BY Zenon DEF LineOK, W
<1>4. /\ \A p \in W : q.ready[p] \in K /\ P[q.ready[p]] < a + 1
      /\ \A i \in 1 .. Len(pkts) : pkts[i] \in K /\ P[pkts[i]] < a + 1
      /\ \A f \in K : P[f] < a + 1 => f \in Range(pkts) \/ \E p \in W : q.ready[p] = f
      /\ \A p, r \in W : Gap(n, q.rtail, p) < Gap(n, q.rtail, r) => P[q.ready[p]] < P[q.ready[r]]
      /\ \A i \in 1 .. Len(pkts), p \in W : P[pkts[i]] < P[q.ready[p]]
  BY Zenon, <1>2, <1>3
<1> QED
  BY Zenon, <1>1, <1>3, <1>4 DEF LineOK, W

(* Entry e, the one a places ahead, is stored after all that wait in       *)
(* ready_buf.                                                              *)
IsNext(e, K, P, a) == e \in K /\ P[e] = a /\ \A f \in K : P[f] = a => f = e

Joins(q, b, n, e) ==
    /\ b.rhead \notin Waiting(b, n) /\ Waiting(q, n) = Waiting(b, n) \cup {b.rhead}
    /\ \A p \in Waiting(b, n) :
          Gap(n, b.rtail, p) \in Nat /\ Gap(n, b.rtail, p) < Gap(n, b.rtail, b.rhead)
    /\ Gap(n, b.rtail, b.rhead) \in Nat
    /\ q.ready[b.rhead] = e /\ q.rtail = b.rtail
    /\ \A p \in Waiting(b, n) : q.ready[p] = b.ready[p]

LEMMA LineMove ==
    ASSUME NEW n \in Sizes, NEW b, NEW q, NEW pkts, NEW K, NEW P, NEW a \in Nat, NEW e,
           LineOK(b, pkts, n, K, P, a), \A f \in K : P[f] \in Nat,
           IsNext(e, K, P, a), Joins(q, b, n, e)
    PROVE  LineOK(q, pkts, n, K, P, a + 1)
<1>0. e \in K /\ P[e] = a /\ \A f \in K : P[f] = a => f = e
  BY Zenon DEF IsNext
<1>1. \A f \in K : P[f] < a + 1 <=> P[f] < a \/ f = e
  BY SMT, <1>0
<1> DEFINE W == Waiting(b, n)
           G(p) == Gap(n, b.rtail, p)
           h == b.rhead
           R(p) == q.ready[p]
<1> HIDE DEF W, G, h, R
<1>2. /\ \A p \in W : R(p) \in K /\ P[R(p)] < a
      /\ \A i \in 1 .. Len(pkts) : pkts[i] \in K /\ P[pkts[i]] < a
      /\ \A f \in K : P[f] < a => f \in Range(pkts) \/ \E p \in W : R(p) = f
      /\ \A p, r \in W : G(p) < G(r) => P[R(p)] < P[R(r)]
      /\ \A i \in 1 .. Len(pkts), p \in W : P[pkts[i]] < P[R(p)]
      /\ \A i, j \in 1 .. Len(pkts) : i < j => P[pkts[i]] < P[pkts[j]]
  BY Zenon DEF LineOK, W, G, R, Joins
<1>3. R(h) = e /\ (\A p \in W : G(p) \in Nat /\ G(p) < G(h)) /\ G(h) \in Nat
  BY Zenon DEF W, G, h, R, Joins
<1>4. \A p \in W \cup {h} : R(p) \in K /\ P[R(p)] < a + 1
  BY Zenon, <1>0, <1>1, <1>2, <1>3
<1>5. \A f \in K : P[f] < a + 1 => f \in Range(pkts) \/ \E p \in W \cup {h} : R(p) = f
  BY Zenon, <1>1, <1>2, <1>3
<1>6. \A i \in 1 .. Len(pkts) : pkts[i] \in K /\ P[pkts[i]] < a + 1
  BY Zenon, <1>1, <1>2
<1>7. ASSUME NEW p \in W \cup {h}, NEW r \in W \cup {h}, G(p) < G(r) PROVE P[R(p)] < P[R(r)]
  <2>1. CASE p \in W /\ r \in W
    BY Zenon, <1>2, <1>7, <2>1
  <2>2. CASE p \in W /\ r = h
    BY Zenon, <1>0, <1>2, <1>3, <2>2
  <2>3. CASE p = h
    <3>1. G(r) = G(h) \/ G(r) < G(h)
      BY Zenon, <1>3
    <3>2. ~(G(h) < G(r))
      BY SMT, <1>3, <3>1
    <3> QED
      BY Zenon, <1>7, <2>3, <3>2
  <2> QED
    BY Zenon, <2>1, <2>2, <2>3
<1>8. \A i \in 1 .. Len(pkts), p \in W \cup {h} : P[pkts[i]] < P[R(p)]
  BY Zenon, <1>0, <1>2, <1>3
<1>9. Waiting(q, n) = W \cup {h} /\ q.rtail = b.rtail
  BY Zenon DEF W, h, Joins
<1> QED
  BY Zenon, <1>2, <1>4, <1>5, <1>6, <1>7, <1>8, <1>9 DEF LineOK, G, R

-----------------------------------------------------------------------------
(* mlvpn_reorder_fill_overflow after k places of the head: it has moved a  *)
(* places, at least one of them over a missing packet, so ready_buf has    *)
(* room; beyond the first m it only passes packets.                        *)
FillAt(b, a, inner, n, K, P, m, k, base) ==
    /\ b.min = base /\ b.init = TRUE
    /\ SlotsOK(b, n, K, P, a) /\ LineOK(b, <<>>, n, K, P, a)
    /\ a \in 0 .. n /\ (a = 0 \/ inner = TRUE)
    /\ Left(b, n) + 1 <= a \/ (Left(b, n) = 0 /\ a = 0)
    /\ \A j \in m .. a - 1 : \E f \in K : P[f] = j
    /\ a = k \/ (AtHead(b) = NoPkt /\ a >= m)

LEMMA NotFull ==
    ASSUME PowersOfTwo, NEW n \in Sizes, NEW U, NEW b, RingOK(b, n, U), Left(b, n) + 1 < n
    PROVE  ~ReadyFull(b)
<1>1. n \in Nat \ {0} /\ Turn(n) = n
  BY Zenon, SizeFacts
<1>2. b.size = n /\ b.rhead \in 0 .. n - 1 /\ b.rtail \in 0 .. n - 1
  BY Zenon DEF RingOK, Rings
<1>3. BitAnd(b.rhead + 1, n - 1) = Succ(n, b.rhead)
  BY Zenon, <1>1, <1>2, TurnFacts
<1>4. Gap(n, b.rtail, b.rhead) + 1 < n
  BY Zenon, <1>1 DEF Left
<1>5. Succ(n, b.rhead) # b.rtail
  BY SMT, <1>1, <1>2, <1>4 DEF Succ, Gap
<1> QED
  BY Zenon, <1>2, <1>3, <1>5 DEF ReadyFull, Mask

IsAdvanced(q, b, n) ==
    /\ SameBut(q, b) /\ q.ready = b.ready /\ q.rhead = Succ(Turn(n), b.rhead)
    /\ Waiting(q, n) = Waiting(b, n) \cup {b.rhead}

LEMMA AdvanceIs ==
    ASSUME NEW n \in Sizes, NEW U, NEW b, RingOK(b, n, U), WaitOK(b, n, U), ~ReadyFull(b),
           b.ready[b.rhead] \in U \ {NoPkt},
           \A p \in Waiting(b, n) : b.ready[p] # b.ready[b.rhead],
           \A i \in 0 .. n - 1 : b.order[i] # b.ready[b.rhead]
    PROVE  IsAdvanced(Advanced(b), b, n)
BY ZenonT(30), AdvanceOK DEF IsAdvanced

(* A missing packet is skipped.                                            *)
LEMMA FillSkip ==
    ASSUME PowersOfTwo, NEW n \in Sizes, NEW U, NEW b, RingOK(b, n, U),
           NEW K \in SUBSET Entries, NEW P, \A f \in K : P[f] \in Nat,
           NEW m \in 0 .. n, NEW k \in Nat, NEW a, NEW inner, NEW base,
           FillAt(b, a, inner, n, K, P, m, k, base), AtHead(b) = NoPkt, a < m
    PROVE  FillAt(PopHead(b), a + 1, TRUE, n, K, P, m, k + 1, base)
<1> DEFINE q == PopHead(b)
<1>1. n \in Nat \ {0} /\ Turn(n) = n
  BY Zenon, SizeFacts
<1>2. /\ b.min = base /\ b.init = TRUE
      /\ SlotsOK(b, n, K, P, a) /\ LineOK(b, <<>>, n, K, P, a)
      /\ a \in 0 .. n
      /\ Left(b, n) + 1 <= a \/ (Left(b, n) = 0 /\ a = 0)
      /\ a = k \/ a >= m
  BY Zenon DEF FillAt
<1>3. b \in Rings(n) /\ b.ohead \in 0 .. Turn(n) - 1
  BY Zenon DEF RingOK
<1>4. /\ q.order = [b.order EXCEPT ![b.ohead] = NoPkt]
      /\ q.ohead = Succ(n, b.ohead)
      /\ q.rhead = b.rhead /\ q.rtail = b.rtail /\ q.ready = b.ready
      /\ q.min = b.min /\ q.init = b.init
  BY Zenon, <1>1, <1>3, PopFacts
<1>5. a \in Nat /\ a = k /\ a + 1 \in 0 .. n
  BY SMT, <1>1, <1>2
<1>6. \A f \in K : P[f] # a
  <2>1. /\ AtHead(b) # NoPkt => AtHead(b) \in K /\ P[AtHead(b)] = a
        /\ \A f \in K : P[f] = a => AtHead(b) = f
    BY Zenon, HeadIsNext, <1>2, <1>3, <1>5
  <2>2. NoPkt \notin K
    BY Zenon, PoolAssumption
  <2> QED
    BY Zenon, <2>1, <2>2
<1> HIDE DEF q
<1>7. SlotsOK(q, n, K, P, a + 1)
  BY Zenon, <1>2, <1>3, <1>4, <1>5, SlotsPop
<1>8. LineOK(q, <<>>, n, K, P, a + 1)
  BY Zenon, <1>2, <1>4, <1>5, <1>6, LineSkip
<1>9. Left(q, n) = Left(b, n) /\ Left(b, n) \in 0 .. n - 1
  BY Zenon, <1>4, LeftFacts DEF Left
<1>10. Left(q, n) + 1 <= a + 1
  BY SMT, <1>1, <1>2, <1>5, <1>9
<1>11. \A j \in m .. (a + 1) - 1 : FALSE
  BY SMT, <1>1, <1>5
<1> QED
  BY Zenon, <1>2, <1>4, <1>5, <1>7, <1>8, <1>10, <1>11 DEF FillAt, q

(* A packet moves to ready_buf.                                            *)
LEMMA FillMove ==
    ASSUME PowersOfTwo, NEW n \in Sizes, NEW U, NEW b, RingOK(b, n, U), WaitOK(b, n, U),
           NEW K \in SUBSET Entries, NEW P, \A f \in K : P[f] \in 1 .. n - 1,
           NEW m \in 0 .. n, NEW k \in Nat, NEW a, NEW inner, NEW base,
           FillAt(b, a, inner, n, K, P, m, k, base), AtHead(b) # NoPkt
    PROVE  /\ inner = TRUE /\ ~ReadyFull(MovedTo(b))
           /\ FillAt(Advanced(MovedTo(b)), a + 1, TRUE, n, K, P, m, k + 1, base)
<1> DEFINE q == MovedTo(b)
           x == Advanced(q)
           e == AtHead(b)
<1>1. n \in Nat \ {0} /\ Turn(n) = n
  BY Zenon, SizeFacts
<1>2. /\ b.min = base /\ b.init = TRUE
      /\ SlotsOK(b, n, K, P, a) /\ LineOK(b, <<>>, n, K, P, a)
      /\ a \in 0 .. n /\ (a = 0 \/ inner = TRUE)
      /\ Left(b, n) + 1 <= a \/ (Left(b, n) = 0 /\ a = 0)
      /\ \A j \in m .. a - 1 : \E f \in K : P[f] = j
      /\ a = k
  BY Zenon DEF FillAt
<1>3. /\ b \in Rings(n) /\ b.ohead \in 0 .. n - 1 /\ b.rhead \in 0 .. n - 1 /\ b.rtail \in 0 .. n - 1
      /\ b.ready \in [0 .. n - 1 -> Slots] /\ b.size = n
  BY Zenon DEF RingOK, Rings
<1>4. a \in Nat
  BY SMT, <1>1, <1>2
<1>5. e \in K /\ P[e] = a /\ \A f \in K : P[f] = a => f = e
  <2>1. /\ AtHead(b) # NoPkt => AtHead(b) \in K /\ P[AtHead(b)] = a
        /\ \A f \in K : P[f] = a => AtHead(b) = f
    BY HeadIsNext, <1>2, <1>3, <1>4
  <2> QED
    BY Zenon, <2>1
<1>6. a \in 1 .. n - 1 /\ a + 1 \in 0 .. n /\ \A f \in K : P[f] \in Nat
  BY SMT, <1>1, <1>5
<1>7. Left(b, n) \in 0 .. n - 1
  BY Zenon, LeftFacts
<1>8. Left(b, n) + 1 < n
  BY SMT, <1>1, <1>2, <1>6, <1>7
<1>9. inner = TRUE
  BY SMT, <1>2, <1>6
<1>10. IsMoved(q, b, n, U)
  BY Zenon, MoveOK
<1> HIDE DEF q
<1>11. /\ RingOK(q, n, U) /\ WaitOK(q, n, U)
       /\ q.rhead = b.rhead /\ q.rtail = b.rtail /\ q.min = b.min /\ q.init = b.init
       /\ q.order = [b.order EXCEPT ![b.ohead] = NoPkt]
       /\ q.ohead = Succ(n, b.ohead)
       /\ q.ready = [b.ready EXCEPT ![b.rhead] = e]
       /\ q.ready[b.rhead] = e
       /\ e \in U
       /\ \A p \in Waiting(q, n) : q.ready[p] # e
       /\ \A i \in 0 .. n - 1 : q.order[i] # e
  BY Zenon, <1>1, <1>10 DEF IsMoved
<1>12. ~ReadyFull(q)
  <2>1. Left(q, n) + 1 < n
    BY Zenon, <1>8, <1>11 DEF Left
  <2> QED
    BY Zenon, <1>11, <2>1, NotFull
<1>13. /\ SameBut(x, q) /\ x.ready = q.ready /\ x.rhead = Succ(n, q.rhead)
       /\ Waiting(x, n) = Waiting(q, n) \cup {q.rhead}
  <2>1. q.ready[q.rhead] \in U \ {NoPkt}
    BY Zenon, <1>11
  <2>2. \A p \in Waiting(q, n) : q.ready[p] # q.ready[q.rhead]
    BY Zenon, <1>11
  <2>3. \A i \in 0 .. n - 1 : q.order[i] # q.ready[q.rhead]
    BY Zenon, <1>11
  <2> HIDE DEF e
  <2>4. RingOK(q, n, U) /\ WaitOK(q, n, U)
    BY Zenon, <1>11
  <2>5. IsAdvanced(x, q, n)
    BY Zenon, <1>12, <2>1, <2>2, <2>3, <2>4, AdvanceIs
  <2> QED
    BY Zenon, <1>1, <2>5 DEF IsAdvanced
<1> HIDE DEF x, e
<1>14. Waiting(q, n) = Waiting(b, n)
  BY Zenon, <1>11 DEF Waiting
<1>15. SlotsOK(x, n, K, P, a + 1)
  <2>1. x.order = [b.order EXCEPT ![b.ohead] = NoPkt] /\ x.ohead = Succ(n, b.ohead)
    BY Zenon, <1>11, <1>13 DEF SameBut
  <2> QED
    BY Zenon, <1>2, <1>3, <1>4, <1>6, <2>1, SlotsPop
<1>16. LineOK(x, <<>>, n, K, P, a + 1)
  <2>1. /\ b.rhead \notin Waiting(b, n) /\ Gap(n, b.rtail, b.rhead) \in Nat
        /\ \A p \in Waiting(b, n) : /\ p \in 0 .. n - 1 /\ Gap(n, b.rtail, p) \in Nat
                                    /\ Gap(n, b.rtail, p) < Gap(n, b.rtail, b.rhead)
    <3> DEFINE t == b.rtail
               h == b.rhead
    <3>1. Waiting(b, n) = {p \in 0 .. n - 1 : Gap(n, t, p) < Gap(n, t, h)}
      BY Zenon, <1>1 DEF Waiting
    <3>2. t \in 0 .. n - 1 /\ h \in 0 .. n - 1
      BY Zenon, <1>3
    <3> HIDE DEF t, h
    <3>3. \A p \in 0 .. n - 1 : Gap(n, t, p) \in Nat
      BY SMT, <1>1, <3>2 DEF Gap
    <3>4. ~(Gap(n, t, h) < Gap(n, t, h))
      BY SMT, <3>2, <3>3
    <3> QED
      BY Zenon, <3>1, <3>2, <3>3, <3>4 DEF t, h
  <2>2. Waiting(x, n) = Waiting(b, n) \cup {b.rhead} /\ x.rtail = b.rtail
    BY Zenon, <1>11, <1>13, <1>14 DEF SameBut
  <2>3. x.ready[b.rhead] = e /\ \A p \in Waiting(b, n) : x.ready[p] = b.ready[p]
    <3>1. x.ready = [b.ready EXCEPT ![b.rhead] = e]
      BY Zenon, <1>11, <1>13
    <3>2. \A p \in Waiting(b, n) : p \in 0 .. n - 1 /\ p # b.rhead
      BY Zenon, <2>1
    <3> QED
      BY Zenon, <1>3, <3>1, <3>2
  <2> QED
    <3>1. Joins(x, b, n, e)
      BY Zenon, <2>1, <2>2, <2>3 DEF Joins
    <3>2. IsNext(e, K, P, a)
      BY Zenon, <1>5 DEF IsNext
    <3> QED
      BY Zenon, <1>2, <1>4, <1>6, <3>1, <3>2, LineMove
<1>17. Left(x, n) + 1 <= a + 1
  <2>1. Left(x, n) = Gap(n, b.rtail, Succ(n, b.rhead)) /\ Left(b, n) = Gap(n, b.rtail, b.rhead)
    BY Zenon, <1>1, <1>11, <1>13 DEF Left, SameBut
  <2> DEFINE t == b.rtail
             h == b.rhead
             l == Left(b, n)
             z == Left(x, n)
  <2> HIDE DEF t, h, l, z
  <2>2. z = Gap(n, t, Succ(n, h)) /\ l = Gap(n, t, h) /\ l + 1 < n /\ t \in 0 .. n - 1 /\ h \in 0 .. n - 1
    BY Zenon, <1>3, <1>8, <2>1 DEF t, h, l, z
  <2>3. z = l + 1
    BY SMT, <1>1, <2>2 DEF Gap, Succ
  <2>4. l + 1 <= a \/ (l = 0 /\ a = 0)
    BY Zenon, <1>2 DEF l
  <2>5. z + 1 <= a + 1
    BY SMTT(30), <1>6, <2>2, <2>3, <2>4, <1>7 DEF l
  <2> QED
    BY Zenon, <2>5 DEF z
<1>18. \A j \in m .. (a + 1) - 1 : \E f \in K : P[f] = j
  <2>1. \A j \in m .. (a + 1) - 1 : j \in m .. a - 1 \/ j = a
    BY SMT, <1>1, <1>4
  <2> QED
    BY Zenon, <1>2, <1>5, <2>1
<1>19. x.min = base /\ x.init = TRUE /\ a + 1 = k + 1
  BY Zenon, <1>2, <1>11, <1>13 DEF SameBut
<1> QED
  BY Zenon, <1>6, <1>9, <1>12, <1>15, <1>16, <1>17, <1>18, <1>19 DEF FillAt, q, x

FillDone(r, n, K, P, m, k, base) == FillAt(r.ring, r.adv, r.inner, n, K, P, m, k, base)

LEMMA FillStepAt ==
    ASSUME PowersOfTwo, NEW n \in Sizes, n # 1, NEW U, NEW r \in Fills(n, U),
           NEW K \in SUBSET Entries, NEW P, \A f \in K : P[f] \in 1 .. n - 1,
           NEW m \in 0 .. n, NEW k \in Nat, NEW base, FillDone(r, n, K, P, m, k, base)
    PROVE  FillDone(FillStep(r, m), n, K, P, m, k + 1, base)
<1> DEFINE b == r.ring
           a == r.adv
           q == MovedTo(b)
<1>1. n \in Nat \ {0}
  BY Zenon, SizeFacts
<1>2. RingOK(b, n, U) /\ WaitOK(b, n, U) /\ a \in Nat /\ r.inner \in BOOLEAN
  BY SMT DEF Fills
<1>3. FillAt(b, a, r.inner, n, K, P, m, k, base)
  BY Zenon DEF FillDone
<1>4. \A f \in K : P[f] \in Nat
  BY SMT, <1>1
<1>5. ASSUME NEW x, NEW c, NEW i, NEW y, y = [ring |-> x, adv |-> c, inner |-> i],
             FillAt(x, c, i, n, K, P, m, k + 1, base)
      PROVE  FillDone(y, n, K, P, m, k + 1, base)
  BY Zenon, <1>5 DEF FillDone
<1>6. CASE AtHead(b) = NoPkt /\ a < m
  <2>1. FillAt(PopHead(b), a + 1, TRUE, n, K, P, m, k + 1, base)
    <3> HIDE DEF a, b
    <3> QED
      BY Zenon, <1>2, <1>3, <1>4, <1>6, FillSkip
  <2>2. Left(b, n) + 1 < n
    <3>1. Left(b, n) + 1 <= a \/ (Left(b, n) = 0 /\ a = 0)
      BY Zenon, <1>3 DEF FillAt
    <3>2. Left(b, n) \in 0 .. n - 1
      BY Zenon, <1>2, LeftFacts
    <3> DEFINE l == Left(b, n)
    <3> HIDE DEF a, l
    <3>3. l + 1 <= a \/ (l = 0 /\ a = 0)
      BY Zenon, <3>1 DEF l
    <3>4. l \in 0 .. n - 1
      BY Zenon, <3>2 DEF l
    <3>5. l + 1 < n
      BY SMT, <1>1, <1>2, <1>6, <3>3, <3>4
    <3> QED
      BY Zenon, <3>5 DEF l
  <2>3. ~ReadyFull(b)
    BY Zenon, <1>2, <2>2, NotFull
  <2>4. FillStep(r, m) = [ring |-> PopHead(b), adv |-> a + 1, inner |-> TRUE]
    BY Zenon, <1>6, <2>3 DEF FillStep
  <2> QED
    BY Zenon, <1>5, <2>1, <2>4
<1>7. CASE AtHead(b) = NoPkt /\ ~(a < m)
  <2>1. FillStep(r, m) = r
    BY Zenon, <1>7 DEF FillStep
  <2>2. a >= m
    BY SMT, <1>1, <1>2, <1>7
  <2>3. FillAt(b, a, r.inner, n, K, P, m, k + 1, base)
    <3> HIDE DEF a, b
    <3> QED
      BY Zenon, <1>3, <1>7, <2>2 DEF FillAt
  <2> QED
    BY Zenon, <2>1, <2>3 DEF FillDone
<1>8. CASE AtHead(b) # NoPkt
  <2>1. /\ r.inner = TRUE /\ ~ReadyFull(q)
        /\ FillAt(Advanced(q), a + 1, TRUE, n, K, P, m, k + 1, base)
    <3> DEFINE i == r.inner
    <3> HIDE DEF a, b, i
    <3>1. FillAt(b, a, i, n, K, P, m, k, base)
      BY Zenon, <1>3 DEF i
    <3>2. /\ i = TRUE /\ ~ReadyFull(MovedTo(b))
          /\ FillAt(Advanced(MovedTo(b)), a + 1, TRUE, n, K, P, m, k + 1, base)
      BY Zenon, <1>2, <1>8, <3>1, FillMove
    <3> QED
      BY Zenon, <3>2 DEF i
  <2>2. b.size = n /\ q.size = n
    <3> HIDE DEF b
    <3>1. IsMoved(q, b, n, U)
      BY Zenon, <1>2, <1>8, MoveOK
    <3> QED
      BY Zenon, <1>2, <3>1 DEF IsMoved, RingOK, Rings
  <2>3. FillStep(r, m) = [ring |-> [q EXCEPT !.rhead = Mask(b, q.rhead + 1)], adv |-> a + 1, inner |-> TRUE]
    BY Zenon, <1>8, <2>1 DEF FillStep, MovedTo, Stored
  <2>4. Advanced(q) = [q EXCEPT !.rhead = Mask(b, q.rhead + 1)]
    BY Zenon, <2>2 DEF Advanced, Mask
  <2> QED
    BY Zenon, <1>5, <2>1, <2>3, <2>4
<1> QED
  BY Zenon, <1>6, <1>7, <1>8

(* What mlvpn_reorder_fill_overflow does to a buffer b whose ready_buf is  *)
(* empty.                                                                  *)
LEMMA FilledUp ==
    ASSUME PowersOfTwo, NEW n \in Sizes, n # 1, NEW U, NEW b, RingOK(b, n, U), b.rhead = b.rtail,
           b.init = TRUE, NEW K \in SUBSET Entries, NEW P, \A f \in K : P[f] \in 1 .. n - 1,
           SlotsOK(b, n, K, P, 0), NEW m \in 0 .. n
    PROVE  LET r == Filling(b, m)[2 * n]
           IN  r \in Fills(n, U) /\ FillDone(r, n, K, P, m, 2 * n, b.min)
<1> DEFINE N == 2 * n
           g == Filling(b, m)
           S == Fills(n, U)
           T == [k \in 0 .. N |-> {r \in S : FillDone(r, n, K, P, m, k, b.min)}]
<1>1. n \in Nat \ {0} /\ N \in Nat /\ 0 \in 0 .. N /\ N \in 0 .. N
  BY SMT, SizeFacts
<1>2. Waiting(b, n) = {} /\ Left(b, n) = 0
  <2>1. b.rtail \in 0 .. Turn(n) - 1 /\ Turn(n) \in Nat
    BY SMT, SizeFacts DEF RingOK
  <2> DEFINE t == b.rtail
             c == Turn(n)
  <2>2. Waiting(b, n) = {p \in 0 .. c - 1 : Gap(c, t, p) < Gap(c, t, t)} /\ Left(b, n) = Gap(c, t, t)
    BY Zenon DEF Waiting, Left
  <2> HIDE DEF t, c
  <2>3. t \in 0 .. c - 1 /\ c \in Nat
    BY Zenon, <2>1 DEF t, c
  <2>4. Gap(c, t, t) = 0 /\ \A p \in 0 .. c - 1 : ~(Gap(c, t, p) < Gap(c, t, t))
    BY SMT, <2>3 DEF Gap
  <2> QED
    BY Zenon, <2>2, <2>4
<1>3. WaitOK(b, n, U)
  BY Zenon, <1>2 DEF WaitOK
<1>4. /\ g[0] = [ring |-> b, adv |-> 0, inner |-> FALSE]
      /\ \A k \in 1 .. N : g[k] = FillStep(g[k - 1], m)
      /\ \A k \in 0 .. N : g[k] \in S
  BY Zenon, <1>3, FillingOK
<1>5. FillDone(g[0], n, K, P, m, 0, b.min)
  <2>1. LineOK(b, <<>>, n, K, P, 0)
    <3>1. \A i \in 1 .. Len(<<>>) : FALSE
      BY SMT
    <3>2. \A f \in K : ~(P[f] < 0)
      BY SMT, <1>1
    <3> QED
      BY Zenon, <1>2, <3>1, <3>2 DEF LineOK
  <2>2. 0 \in 0 .. n /\ \A j \in m .. 0 - 1 : FALSE
    BY SMT, <1>1
  <2>3. FillAt(b, 0, FALSE, n, K, P, m, 0, b.min)
    BY Zenon, <1>2, <2>1, <2>2 DEF FillAt
  <2> HIDE DEF g
  <2>4. ASSUME NEW y, y = [ring |-> b, adv |-> 0, inner |-> FALSE]
        PROVE  FillDone(y, n, K, P, m, 0, b.min)
    BY Zenon, <2>3, <2>4 DEF FillDone
  <2> QED
    BY Zenon, <1>4, <2>4
<1> HIDE DEF g, N, S
<1>6. g[0] \in T[0]
  BY Zenon, <1>1, <1>4, <1>5
<1>7. ASSUME NEW k \in 1 .. N, g[k - 1] \in T[k - 1] PROVE g[k] \in T[k]
  <2>1. k \in 0 .. N /\ k - 1 \in 0 .. N /\ k - 1 \in Nat /\ (k - 1) + 1 = k
    BY SMT, <1>1
  <2> DEFINE j == k - 1
  <2> HIDE DEF j
  <2>2. g[j] \in S /\ FillDone(g[j], n, K, P, m, j, b.min)
    BY Zenon, <1>7, <2>1 DEF j
  <2>3. FillDone(FillStep(g[j], m), n, K, P, m, j + 1, b.min)
    BY Zenon, <2>1, <2>2, FillStepAt DEF S, j
  <2> QED
    BY Zenon, <1>4, <2>1, <2>3 DEF j
<1>8. \A k \in 0 .. N : g[k] \in T[k]
  <2> HIDE DEF T
  <2> QED
    BY Zenon, <1>1, <1>6, <1>7, LoopInvariant
<1>9. g[N] \in S /\ FillDone(g[N], n, K, P, m, N, b.min)
  BY Zenon, <1>1, <1>8
<1> QED
  BY Zenon, <1>9 DEF g, N, S

-----------------------------------------------------------------------------

IsPut(q, b, n, K, P, a, e) ==
    /\ SlotsOK(q, n, Kept(K, P, e), P, a) /\ LineOK(q, <<>>, n, Kept(K, P, e), P, a)
    /\ q.min = b.min /\ q.init = b.init /\ Left(q, n) = Left(b, n)

LEMMA PutAt ==
    ASSUME PowersOfTwo, NEW n \in Sizes, NEW b \in Rings(n), NEW K \in SUBSET Entries,
           NEW P, NEW a \in Nat, \A f \in K : P[f] \in Nat,
           SlotsOK(b, n, K, P, a), LineOK(b, <<>>, n, K, P, a),
           NEW off \in 0 .. n - 1, NEW e \in Entries, e \notin K, P[e] = a + off
    PROVE  IsPut(Put(b, off, e), b, n, K, P, a, e)
<1> DEFINE q == Put(b, off, e)
           at == BitAnd(b.ohead + off, n - 1)
           h == b.ohead
           L == Kept(K, P, e)
           G(i) == Gap(n, h, i)
<1>1. n \in Nat \ {0} /\ Turn(n) = n
  BY Zenon, SizeFacts
<1>2. h \in 0 .. n - 1 /\ b.order \in [0 .. n - 1 -> Slots] /\ b.size = n
  BY Zenon DEF Rings
<1>3. at \in 0 .. n - 1 /\ G(at) = off
  BY Zenon, <1>2, PlaceFacts
<1> HIDE DEF at
<1>4. q = [b EXCEPT !.order[at] = e]
  BY Zenon, <1>2 DEF Put, Mask, at
<1> HIDE DEF q
<1>5. /\ q.order = [b.order EXCEPT ![at] = e] /\ q.ohead = h
      /\ q.rhead = b.rhead /\ q.rtail = b.rtail /\ q.ready = b.ready
      /\ q.min = b.min /\ q.init = b.init
  BY Zenon, <1>4 DEF Rings
<1>6. \A i \in 0 .. n - 1 : q.order[i] = IF i = at THEN e ELSE b.order[i]
  BY Zenon, <1>2, <1>3, <1>5
<1>7. e \in L /\ \A f \in K : P[f] # P[e] => f \in L
  BY Zenon DEF Kept
<1>8. \A f \in L : f = e \/ (f \in K /\ P[f] # P[e])
  BY Zenon DEF Kept
<1>9. \A i \in 0 .. n - 1 : G(i) \in Nat /\ (G(i) = off => i = at)
  <2> HIDE DEF h
  <2>1. \A i \in 0 .. n - 1 : Gap(n, h, i) \in Nat
    BY SMT, <1>1, <1>2 DEF Gap
  <2>2. \A i \in 0 .. n - 1 : Gap(n, h, i) = Gap(n, h, at) => i = at
    BY SMT, <1>1, <1>2, <1>3 DEF Gap
  <2> QED
    BY Zenon, <1>3, <2>1, <2>2
<1>10. /\ \A i \in 0 .. n - 1 : b.order[i] # NoPkt => b.order[i] \in K
       /\ \A i \in 0 .. n - 1 : b.order[i] # NoPkt => P[b.order[i]] = a + G(i)
       /\ \A f \in K : P[f] >= a => \E i \in 0 .. n - 1 : b.order[i] = f
  BY Zenon DEF SlotsOK
<1> HIDE DEF L, G, h
<1>11. \A i \in 0 .. n - 1 : a + G(i) = a + off => i = at
  <2> SUFFICES ASSUME NEW i \in 0 .. n - 1, a + G(i) = a + off PROVE i = at
    OBVIOUS
  <2> DEFINE g == G(i)
  <2> HIDE DEF g
  <2>1. g \in Nat /\ a + g = a + off
    BY Zenon, <1>9 DEF g
  <2>2. g = off
    BY SMT, <1>1, <2>1
  <2> QED
    BY Zenon, <1>9, <2>2 DEF g
<1>12. e # NoPkt
  BY Zenon, PoolAssumption
<1>13. \A i \in 0 .. n - 1 : q.order[i] # NoPkt => q.order[i] \in L /\ P[q.order[i]] = a + G(i)
  <2> SUFFICES ASSUME NEW i \in 0 .. n - 1, q.order[i] # NoPkt
               PROVE  q.order[i] \in L /\ P[q.order[i]] = a + G(i)
    OBVIOUS
  <2>1. CASE i = at
    BY Zenon, <1>3, <1>6, <1>7, <2>1
  <2>2. CASE i # at
    <3>1. q.order[i] = b.order[i] /\ b.order[i] \in K /\ P[b.order[i]] = a + G(i)
      BY Zenon, <1>6, <1>10, <2>2
    <3>2. P[b.order[i]] # P[e]
      BY Zenon, <1>11, <2>2, <3>1
    <3> QED
      BY Zenon, <1>7, <3>1, <3>2
  <2> QED
    BY Zenon, <2>1, <2>2
<1>14. \A f \in L : P[f] >= a => \E i \in 0 .. n - 1 : q.order[i] = f
  <2> SUFFICES ASSUME NEW f \in L, P[f] >= a PROVE \E i \in 0 .. n - 1 : q.order[i] = f
    OBVIOUS
  <2>1. CASE f = e
    BY Zenon, <1>3, <1>6, <2>1
  <2>2. CASE f \in K /\ P[f] # P[e]
    <3>1. PICK i \in 0 .. n - 1 : b.order[i] = f
      BY Zenon, <1>10, <2>2
    <3>2. f # NoPkt
      BY Zenon, <2>2, PoolAssumption
    <3>3. P[f] = a + G(i)
      BY Zenon, <1>10, <3>1, <3>2
    <3>4. i # at
      BY Zenon, <1>3, <2>2, <3>3
    <3> QED
      BY Zenon, <1>6, <3>1, <3>4
  <2> QED
    BY Zenon, <1>8, <2>1, <2>2
<1>15. SlotsOK(q, n, L, P, a)
  BY Zenon, <1>5, <1>13, <1>14 DEF SlotsOK, G
<1>16. LineOK(q, <<>>, n, L, P, a)
  <2>1. Waiting(q, n) = Waiting(b, n)
    BY Zenon, <1>5 DEF Waiting
  <2>2. ~(P[e] < a) /\ \A f \in K : P[f] < a => P[f] # P[e]
    BY SMT, <1>1
  <2> DEFINE W == Waiting(b, n)
  <2> HIDE DEF W
  <2>3. /\ \A p \in W : b.ready[p] \in K /\ P[b.ready[p]] < a
        /\ \A f \in K : P[f] < a => f \in Range(<<>>) \/ \E p \in W : b.ready[p] = f
        /\ \A p, r \in W : Gap(n, b.rtail, p) < Gap(n, b.rtail, r) => P[b.ready[p]] < P[b.ready[r]]
    BY Zenon DEF LineOK, W
  <2>4. \A i \in 1 .. Len(<<>>) : FALSE
    BY SMT
  <2>5. \A p \in W : b.ready[p] \in L /\ P[b.ready[p]] < a
    BY Zenon, <1>7, <2>2, <2>3
  <2>6. \A f \in L : P[f] < a => f \in Range(<<>>) \/ \E p \in W : b.ready[p] = f
    BY Zenon, <1>8, <2>2, <2>3
  <2>7. Waiting(q, n) = W
    BY Zenon, <2>1 DEF W
  <2> QED
    BY ZenonT(30), <1>5, <2>3, <2>4, <2>5, <2>6, <2>7 DEF LineOK
<1>17. Left(q, n) = Left(b, n)
  BY Zenon, <1>5 DEF Left
<1> QED
  BY Zenon, <1>5, <1>15, <1>16, <1>17 DEF IsPut, L, q

LEMMA InsertIs ==
    ASSUME NEW n \in Sizes, NEW U, NEW b, RingOK(b, n, U), b.rhead = b.rtail, NEW e, NEW s \in Seqs
    PROVE  LET q == Based(b, s)
               d == Window!Dist(BaseOf(b, s), s)
           IN  /\ BaseOf(b, s) \in Seqs /\ d \in Seqs
               /\ Insert(b, e, s) = Inserting(b, e, s, n, q, d, FillOverflow(q, d + 1 - n))
<1> DEFINE q == Based(b, s)
           base == BaseOf(b, s)
           d == Window!Dist(base, s)
           offset == (s - q.min) % SeqSpace
<1>1. IsBased(q, b, s, n, U)
  BY Zenon, BasedOK
<1>2. Insert(b, e, s) = Inserting(b, e, s, q.size, q, offset, FillOverflow(q, offset + 1 - q.size))
  BY Zenon DEF Insert, Inserting, Based
<1> HIDE DEF q
<1>3. q.min = base /\ q.size = n /\ q.min \in Seqs
  BY Zenon, <1>1 DEF IsBased, BaseOf, RingOK, Rings
<1> HIDE DEF base
<1>4. base \in Seqs /\ offset = d /\ d \in Seqs
  BY Zenon, <1>3, DistIsMod
<1> HIDE DEF d, offset
<1>5. Insert(b, e, s) = Inserting(b, e, s, n, q, d, FillOverflow(q, d + 1 - n))
  BY Zenon, <1>2, <1>3, <1>4
<1> QED
  BY Zenon, <1>4, <1>5 DEF q, base, d

(* Nothing waits in a ready_buf whose head and tail are equal.             *)
LEMMA NoneWaiting ==
    ASSUME PowersOfTwo, NEW n \in Sizes, NEW U, NEW b, RingOK(b, n, U), b.rhead = b.rtail
    PROVE  Waiting(b, n) = {} /\ Left(b, n) = 0
<1>1. b.rtail \in 0 .. Turn(n) - 1 /\ Turn(n) \in Nat
  BY SMT, SizeFacts DEF RingOK
<1> DEFINE t == b.rtail
           c == Turn(n)
<1>2. Waiting(b, n) = {p \in 0 .. c - 1 : Gap(c, t, p) < Gap(c, t, t)} /\ Left(b, n) = Gap(c, t, t)
  BY Zenon DEF Waiting, Left
<1> HIDE DEF t, c
<1>3. t \in 0 .. c - 1 /\ c \in Nat
  BY Zenon, <1>1 DEF t, c
<1>4. Gap(c, t, t) = 0 /\ \A p \in 0 .. c - 1 : ~(Gap(c, t, p) < Gap(c, t, t))
  BY SMT, <1>3 DEF Gap
<1> QED
  BY Zenon, <1>2, <1>4

(* The packet fits in the window.                                          *)
LEMMA InsertNear ==
    ASSUME PowersOfTwo, NEW n \in Sizes, NEW U, NEW b, NEW K \in SUBSET Entries, NEW P,
           NEW e \in Entries, NEW s \in Seqs, Ready(b, n, U, K, P, e, s), P[e] < n
    PROVE  /\ Insert(b, e, s).ret = 0
           /\ IsInserted(Insert(b, e, s).ring, n, Kept(K, P, e), P, 0, 0, BaseOf(b, s))
<1> DEFINE q == Based(b, s)
           base == BaseOf(b, s)
           d == Window!Dist(base, s)
           x == Put(q, d, e)
           r == Insert(b, e, s)
<1>1. /\ RingOK(b, n, U) /\ b.rhead = b.rtail
      /\ SlotsOK(b, n, K, P, 0) /\ \A f \in K : P[f] \in 1 .. n - 1
  BY Zenon DEF Ready
<1>2. e \notin K /\ P[e] = d
  BY Zenon DEF Ready
<1>3. n \in Nat \ {0} /\ 8 * n <= SeqSpace /\ SeqSpace \in Nat
  BY Zenon, SizeFacts
<1>4. base \in Seqs /\ d \in Seqs /\ r = Inserting(b, e, s, n, q, d, FillOverflow(q, d + 1 - n))
  BY Zenon, <1>1, InsertIs
<1>5. r = [ring |-> x, ret |-> 0]
  BY Zenon, <1>2, <1>4 DEF Inserting
<1>6. IsBased(q, b, s, n, U)
  BY Zenon, <1>1, BasedOK
<1> HIDE DEF q, r
<1>7. /\ RingOK(q, n, U) /\ q.rhead = q.rtail /\ q.init = TRUE
      /\ q.order = b.order /\ q.ohead = b.ohead /\ q.min = base
  BY Zenon, <1>6 DEF IsBased, BaseOf
<1> HIDE DEF base
<1>8. SlotsOK(q, n, K, P, 0)
  BY Zenon, <1>1, <1>7 DEF SlotsOK
<1>9. Waiting(q, n) = {} /\ Left(q, n) = 0
  BY Zenon, <1>7, NoneWaiting
<1>10. LineOK(q, <<>>, n, K, P, 0)
  <2>1. \A i \in 1 .. Len(<<>>) : FALSE
    BY SMT
  <2>2. \A f \in K : ~(P[f] < 0)
    BY SMTT(30), <1>1, <1>3
  <2> QED
    BY Zenon, <1>9, <2>1, <2>2 DEF LineOK
<1>11. d \in 0 .. n - 1 /\ (\A f \in K : P[f] \in Nat) /\ d = 0 + d
  BY SMT, <1>1, <1>2, <1>3, <1>4 DEF Seqs
<1> HIDE DEF d
<1>12. IsPut(x, q, n, K, P, 0, e)
  <2>1. q \in Rings(n) /\ P[e] = 0 + d /\ 0 \in Nat
    BY Zenon, <1>2, <1>7, <1>11 DEF RingOK
  <2> QED
    BY Zenon, <1>2, <1>8, <1>10, <1>11, <2>1, PutAt
<1> HIDE DEF x
<1>13. base = Window!Plus(base, 0)
  BY SMT, <1>3, <1>4 DEF Window!Plus, Seqs
<1>14. 0 \in 0 .. n /\ \A j \in 0 .. 0 - 1 : FALSE
  BY SMT, <1>3
<1>15. IsInserted(x, n, Kept(K, P, e), P, 0, 0, base)
  BY Zenon, <1>7, <1>9, <1>12, <1>13, <1>14 DEF IsPut, IsInserted
<1>16. r.ret = 0 /\ r.ring = x
  BY Zenon, <1>5
<1>17. r.ret = 0 /\ IsInserted(r.ring, n, Kept(K, P, e), P, 0, 0, base)
  BY Zenon, <1>15, <1>16
<1> QED
  BY Zenon, <1>17 DEF r, base

(* It is too far ahead, or behind.                                         *)
LEMMA InsertFar ==
    ASSUME NEW n \in Sizes, NEW U, NEW b, RingOK(b, n, U), b.rhead = b.rtail, NEW e, NEW s \in Seqs,
           Window!Dist(BaseOf(b, s), s) >= 2 * n
    PROVE  Insert(b, e, s) = [ring |-> Based(b, s), ret |-> -2]
<1> DEFINE q == Based(b, s)
           d == Window!Dist(BaseOf(b, s), s)
           r == Insert(b, e, s)
<1>1. d \in Seqs /\ r = Inserting(b, e, s, n, q, d, FillOverflow(q, d + 1 - n))
  BY Zenon, InsertIs
<1>2. n \in Nat \ {0} /\ SeqSpace \in Nat
  BY Zenon, TurnFacts
<1> HIDE DEF d
<1>3. d >= 2 * n
  BY Zenon DEF d
<1>4. ~(d < n)
  BY SMT, <1>1, <1>2, <1>3 DEF Seqs
<1> QED
  BY Zenon, <1>1, <1>3, <1>4 DEF Inserting

LEMMA DistFromPlus ==
    ASSUME NEW x \in Seqs, NEW y \in Seqs, NEW k \in Nat, k <= Window!Dist(x, y)
    PROVE  Window!Dist(Window!Plus(x, k), y) = Window!Dist(x, y) - k /\ k \in Seqs
BY SeqSpaceAssumption DEF Seqs, Window!Dist, Window!Plus

(* The window has to move for it.                                          *)
LEMMA InsertOver ==
    ASSUME PowersOfTwo, NEW n \in Sizes, n # 1, NEW U, NEW b, NEW K \in SUBSET Entries, NEW P,
           NEW e \in Entries, NEW s \in Seqs, Ready(b, n, U, K, P, e, s), P[e] \in n .. 2 * n - 1
    PROVE  /\ Insert(b, e, s).ret = 0
           /\ \E a \in Nat :
                 IsInserted(Insert(b, e, s).ring, n, Kept(K, P, e), P, P[e] + 1 - n, a, BaseOf(b, s))
<1> DEFINE q == Based(b, s)
           base == BaseOf(b, s)
           d == Window!Dist(base, s)
           m == d + 1 - n
           over == FillOverflow(q, m)
           end == Filling(q, m)[2 * n]
           a == end.adv
           y == end.ring
           r == Insert(b, e, s)
<1>1. /\ RingOK(b, n, U) /\ b.rhead = b.rtail
      /\ SlotsOK(b, n, K, P, 0) /\ \A f \in K : P[f] \in 1 .. n - 1
  BY Zenon DEF Ready
<1>2. e \notin K /\ P[e] = d
  BY Zenon DEF Ready
<1>3. n \in Nat \ {0} /\ 8 * n <= SeqSpace /\ SeqSpace \in Nat
  BY Zenon, SizeFacts
<1>4. base \in Seqs /\ d \in Seqs /\ r = Inserting(b, e, s, n, q, d, over)
  BY Zenon, <1>1, InsertIs
<1>5. IsBased(q, b, s, n, U)
  BY Zenon, <1>1, BasedOK
<1> HIDE DEF q, r
<1>6. /\ RingOK(q, n, U) /\ q.rhead = q.rtail /\ q.init = TRUE
      /\ q.order = b.order /\ q.ohead = b.ohead /\ q.min = base /\ q.size = n
  BY Zenon, <1>5 DEF IsBased, BaseOf, RingOK, Rings
<1> HIDE DEF base, d
<1>7. SlotsOK(q, n, K, P, 0)
  BY ZenonT(30), <1>1, <1>6 DEF SlotsOK
<1>8. d \in n .. 2 * n - 1 /\ m \in 0 .. n /\ m \in Nat /\ \A f \in K : P[f] \in Nat
  BY SMT, <1>1, <1>2, <1>3
<1> HIDE DEF m
<1>9. end \in Fills(n, U) /\ FillDone(end, n, K, P, m, 2 * n, base)
  BY Zenon, <1>1, <1>6, <1>7, <1>8, FilledUp
<1>10. over = [end EXCEPT !.ring.min = (end.ring.min + end.adv) % SeqSpace]
  BY Zenon, <1>6 DEF FillOverflow
<1> HIDE DEF end, over
<1>11. end \in [ring : Rings(n), adv : Nat, inner : BOOLEAN] /\ y \in Rings(n) /\ a \in Nat
  BY Zenon, <1>9 DEF Fills
<1>12. /\ y.min = base /\ y.init = TRUE
       /\ SlotsOK(y, n, K, P, a) /\ LineOK(y, <<>>, n, K, P, a)
       /\ a \in 0 .. n
       /\ \A j \in m .. a - 1 : \E f \in K : P[f] = j
       /\ a = 2 * n \/ a >= m
  BY Zenon, <1>9 DEF FillDone, FillAt
<1> DEFINE c == (y.min + a) % SeqSpace
           x == WithMin(y, c)
<1>13. over.ring = x /\ over.adv = a
  BY Zenon, <1>10, <1>11 DEF WithMin
<1> HIDE DEF y, a
<1>14. a \in m .. n /\ a \in Nat /\ a \in Seqs /\ a <= d
  BY SMT, <1>3, <1>8, <1>12 DEF Seqs
<1>15. c = Window!Plus(base, a) /\ c \in Seqs
  BY ZenonT(30), <1>4, <1>12, <1>14, PlusIsMod
<1> HIDE DEF c
<1>16. /\ x.order = y.order /\ x.ohead = y.ohead /\ x.ready = y.ready
       /\ x.rhead = y.rhead /\ x.rtail = y.rtail
       /\ x.min = c /\ x.init = TRUE /\ x \in Rings(n)
  BY Zenon, <1>11, <1>12, <1>15 DEF WithMin, Rings
<1> HIDE DEF x
<1>17. SlotsOK(x, n, K, P, a) /\ LineOK(x, <<>>, n, K, P, a)
  <2>1. Waiting(x, n) = Waiting(y, n)
    BY Zenon, <1>16 DEF Waiting
  <2>2. SlotsOK(x, n, K, P, a)
    BY Zenon, <1>12, <1>16 DEF SlotsOK
  <2>3. LineOK(x, <<>>, n, K, P, a)
    BY ZenonT(30), <1>12, <1>16, <2>1 DEF LineOK
  <2> QED
    BY Zenon, <2>2, <2>3
<1> DEFINE off == (s - x.min) % SeqSpace
           z == Put(x, off, e)
<1>18. off = d - a
  <2>1. off = Window!Dist(c, s)
    BY Zenon, <1>15, <1>16, DistIsMod
  <2>2. Window!Dist(Window!Plus(base, a), s) = d - a
    BY Zenon, <1>4, <1>14, DistFromPlus DEF d
  <2> QED
    BY Zenon, <1>15, <2>1, <2>2
<1>19. r = [ring |-> z, ret |-> 0]
  <2>1. ~(d < n) /\ ~(d >= 2 * n) /\ ~(a < m)
    BY SMT, <1>3, <1>8, <1>14
  <2> QED
    BY Zenon, <1>4, <1>13, <2>1 DEF Inserting, m
<1> HIDE DEF off
<1>20. off \in 0 .. n - 1 /\ P[e] = a + off
  BY SMTT(30), <1>2, <1>3, <1>8, <1>14, <1>18 DEF m
<1>21. IsPut(z, x, n, K, P, a, e)
  BY Zenon, <1>2, <1>8, <1>14, <1>16, <1>17, <1>20, PutAt
<1> HIDE DEF z
<1>22. \A j \in m .. a - 1 : \E f \in Kept(K, P, e) : P[f] = j
  <2> SUFFICES ASSUME NEW j \in m .. a - 1 PROVE \E f \in Kept(K, P, e) : P[f] = j
    OBVIOUS
  <2>1. PICK f \in K : P[f] = j
    BY Zenon, <1>12
  <2>2. j # P[e]
    BY SMTT(30), <1>2, <1>3, <1>8, <1>14
  <2> QED
    BY Zenon, <2>1, <2>2 DEF Kept
<1>23. m # 0
  BY SMT, <1>3, <1>8 DEF m
<1>24. IsInserted(z, n, Kept(K, P, e), P, m, a, base)
  BY Zenon, <1>14, <1>15, <1>16, <1>21, <1>22, <1>23 DEF IsPut, IsInserted
<1>25. r.ret = 0 /\ r.ring = z
  BY Zenon, <1>19
<1>26. r.ret = 0 /\ IsInserted(r.ring, n, Kept(K, P, e), P, P[e] + 1 - n, a, base)
  BY Zenon, <1>2, <1>24, <1>25 DEF m
<1> QED
  BY Zenon, <1>14, <1>26 DEF r, base

(* A ready_buf of size 1 never has room.                                   *)
LEMMA InsertNoRoom ==
    ASSUME PowersOfTwo, NEW n \in Sizes, n < 2, NEW U, NEW b, NEW K \in SUBSET Entries, NEW P,
           NEW e \in Entries, NEW s \in Seqs, Ready(b, n, U, K, P, e, s), P[e] = 1
    PROVE  Insert(b, e, s).ret = -1
<1> DEFINE q == Based(b, s)
           base == BaseOf(b, s)
           d == Window!Dist(base, s)
           m == d + 1 - n
           over == FillOverflow(q, m)
           r == Insert(b, e, s)
           g == Filling(q, m)
           z == [ring |-> q, adv |-> 0, inner |-> FALSE]
<1>0. n \in Nat \ {0}
  BY Zenon, SizeFacts
<1>1. /\ RingOK(b, n, U) /\ b.rhead = b.rtail
      /\ SlotsOK(b, n, K, P, 0) /\ \A f \in K : P[f] \in 1 .. n - 1
      /\ d = 1
  BY Zenon DEF Ready
<1>2. r = Inserting(b, e, s, n, q, d, FillOverflow(q, d + 1 - n))
  BY Zenon, <1>1, InsertIs
<1>3. IsBased(q, b, s, n, U)
  BY Zenon, <1>1, BasedOK
<1> HIDE DEF q, r, d
<1>4. ~(d < n) /\ ~(d >= 2 * n) /\ 0 < m /\ 2 * n = 2
  BY SMT, <1>0, <1>1
<1>5. /\ RingOK(q, n, U) /\ WaitOK(q, n, U) /\ q.order = b.order /\ q.ohead = b.ohead
      /\ q.ohead \in 0 .. n - 1 /\ q.rhead \in 0 .. n - 1 /\ q.rtail \in 0 .. n - 1 /\ q.size = n
  BY Zenon, <1>3 DEF IsBased, RingOK, Rings
<1> HIDE DEF m
<1>6. AtHead(q) = NoPkt
  <2>1. \A f \in K : FALSE
    BY SMT, <1>0, <1>1
  <2>2. \A i \in 0 .. n - 1 : b.order[i] = NoPkt
    BY Zenon, <1>1, <2>1 DEF SlotsOK
  <2> QED
    BY Zenon, <1>5, <2>2 DEF AtHead
<1>7. ReadyFull(q)
  <2>1. q.rhead = 0 /\ q.rtail = 0 /\ q.rhead + 1 \in 0 .. 2 * SeqSpace
    BY SMT, <1>0, <1>5, SizeFacts
  <2>2. BitAnd(q.rhead + 1, n - 1) \in 0 .. n - 1
    BY Zenon, <2>1, TurnFacts
  <2>3. BitAnd(q.rhead + 1, n - 1) = 0
    BY SMT, <1>0, <2>2
  <2> QED
    BY Zenon, <1>5, <2>1, <2>3 DEF ReadyFull, Mask
<1>8. FillStep(z, m) = z
  <2>1. z.ring = q
    BY Zenon
  <2> QED
    BY Zenon, <1>6, <1>7, <2>1 DEF FillStep
<1>9. /\ g[0] = z
      /\ \A k \in 1 .. 2 * n : g[k] = FillStep(g[k - 1], m)
      /\ \A k \in 0 .. 2 * n : g[k] \in Fills(n, U)
  <2>1. RingOK(q, n, U) /\ WaitOK(q, n, U)
    BY Zenon, <1>5
  <2> QED
    BY Zenon, <2>1, FillingOK
<1> HIDE DEF g, z
<1>10. g[2] = z
  <2>1. 1 \in 1 .. 2 * n /\ 2 \in 1 .. 2 * n /\ 1 - 1 = 0 /\ 2 - 1 = 1
    BY SMT, <1>4
  <2>2. g[1] = z
    BY Zenon, <1>8, <1>9, <2>1
  <2> QED
    BY Zenon, <1>8, <1>9, <2>1, <2>2
<1>11. over = [z EXCEPT !.ring.min = (@ + z.adv) % SeqSpace]
  BY Zenon, <1>4, <1>5, <1>10 DEF FillOverflow, g
<1>12. over.adv = 0
  BY Zenon, <1>11 DEF z
<1>13. r = Inserting(b, e, s, n, q, d, over)
  BY Zenon, <1>2 DEF m
<1> HIDE DEF over
<1>14. over.adv < d + 1 - n
  BY Zenon, <1>4, <1>12 DEF m
<1>15. r = [ring |-> over.ring, ret |-> -1]
  BY Zenon, <1>4, <1>13, <1>14 DEF Inserting
<1>16. r.ret = -1
  BY Zenon, <1>15
<1> QED
  BY Zenon, <1>16 DEF r

-----------------------------------------------------------------------------
(* mlvpn_reorder_drain.                                                    *)
Extended(x, q, e) ==
    /\ Len(q) \in Nat /\ Len(x) = Len(q) + 1
    /\ \A i \in 1 .. Len(x) : (i \in 1 .. Len(q) /\ x[i] = q[i]) \/ (i = Len(q) + 1 /\ x[i] = e)
    /\ Range(x) = Range(q) \cup {e}

LEMMA AppendIs ==
    ASSUME NEW S, NEW q \in Seq(S), NEW e \in S
    PROVE  Extended(Append(q, e), q, e)
<1> DEFINE x == Append(q, e)
           N == Len(q)
<1>1. N \in Nat /\ Len(x) = N + 1 /\ DOMAIN q = 1 .. N /\ DOMAIN x = 1 .. N + 1
  BY SMT
<1>2. \A i \in 1 .. N + 1 : x[i] = IF i \in 1 .. N THEN q[i] ELSE e
  BY SMT
<1> HIDE DEF x, N
<1>3. \A i \in 1 .. N + 1 : i \in 1 .. N \/ i = N + 1
  BY SMT, <1>1
<1>4. N + 1 \in 1 .. N + 1 /\ N + 1 \notin 1 .. N /\ \A i \in 1 .. N : i \in 1 .. N + 1
  BY SMT, <1>1
<1>5. \A i \in 1 .. N + 1 : (i \in 1 .. N /\ x[i] = q[i]) \/ (i = N + 1 /\ x[i] = e)
  BY Zenon, <1>2, <1>3, <1>4
<1>6. Range(x) = Range(q) \cup {e}
  <2>1. Range(x) = {x[i] : i \in 1 .. N + 1} /\ Range(q) = {q[i] : i \in 1 .. N}
    BY Zenon, <1>1 DEF Range
  <2>2. ASSUME NEW y \in Range(x) PROVE y \in Range(q) \cup {e}
    BY Zenon, <1>5, <2>1, <2>2
  <2>3. ASSUME NEW y \in Range(q) PROVE y \in Range(x)
    BY Zenon, <1>2, <1>4, <2>1, <2>3
  <2>4. e \in Range(x)
    BY Zenon, <1>2, <1>4, <2>1
  <2> QED
    BY Zenon, <2>2, <2>3, <2>4
<1> QED
  BY Zenon, <1>1, <1>5, <1>6 DEF Extended, x, N

(* The first of ready_buf is taken.                                        *)
LEMMA LineTake ==
    ASSUME NEW n \in Nat \ {0}, NEW b, NEW q, NEW pkts, NEW x, NEW K, NEW P, NEW a \in Nat,
           LineOK(b, pkts, n, K, P, a), b.rtail \in 0 .. n - 1, b.rtail \in Waiting(b, n),
           \A p \in Waiting(b, n) : p \in 0 .. n - 1,
           Waiting(q, n) = Waiting(b, n) \ {b.rtail}, q.ready = b.ready,
           q.rtail = Succ(n, b.rtail), Extended(x, pkts, b.ready[b.rtail])
    PROVE  LineOK(q, x, n, K, P, a)
<1> DEFINE W == Waiting(b, n)
           t == b.rtail
           R(p) == b.ready[p]
           V == W \ {t}
           e == R(t)
           N == Len(pkts)
<1>1. /\ \A p \in W : R(p) \in K /\ P[R(p)] < a
      /\ \A i \in 1 .. N : pkts[i] \in K /\ P[pkts[i]] < a
      /\ \A f \in K : P[f] < a => f \in Range(pkts) \/ \E p \in W : R(p) = f
      /\ \A p, r \in W : Gap(n, t, p) < Gap(n, t, r) => P[R(p)] < P[R(r)]
      /\ \A i \in 1 .. N, p \in W : P[pkts[i]] < P[R(p)]
      /\ \A i, j \in 1 .. N : i < j => P[pkts[i]] < P[pkts[j]]
  BY Zenon DEF LineOK
<1>2. /\ N \in Nat /\ Len(x) = N + 1
      /\ \A i \in 1 .. N + 1 : (i \in 1 .. N /\ x[i] = pkts[i]) \/ (i = N + 1 /\ x[i] = e)
      /\ Range(x) = Range(pkts) \cup {e}
  BY Zenon DEF Extended
<1>3. /\ Waiting(q, n) = V /\ t \in W /\ t \in 0 .. n - 1 /\ \A p \in W : p \in 0 .. n - 1
      /\ \A p \in V : q.ready[p] = R(p)
  BY Zenon
<1>4. \A p \in 0 .. n - 1 : p # t => Gap(n, t, t) < Gap(n, t, p)
  <2> HIDE DEF t
  <2> QED
    BY SMTT(30), <1>3 DEF Gap
<1>5. \A p, r \in 0 .. n - 1 :
         p # t /\ r # t /\ Gap(n, Succ(n, t), p) < Gap(n, Succ(n, t), r) => Gap(n, t, p) < Gap(n, t, r)
  <2> HIDE DEF t
  <2> QED
    BY SMT, <1>3 DEF Gap, Succ
<1>6. \A p \in V : p \in W /\ p # t
  BY Zenon
<1> HIDE DEF W, t, V, e, N, R
<1>7. e \in K /\ P[e] < a
  BY Zenon, <1>1, <1>3 DEF e
<1>8. \A p \in V : R(p) \in K /\ P[R(p)] < a
  BY Zenon, <1>1, <1>6
<1>9. \A i \in 1 .. N + 1 : x[i] \in K /\ P[x[i]] < a
  BY Zenon, <1>1, <1>2, <1>7
<1>10. \A f \in K : P[f] < a => f \in Range(x) \/ \E p \in V : R(p) = f
  BY Zenon, <1>1, <1>2 DEF V, e
<1>11. \A p, r \in V : Gap(n, Succ(n, t), p) < Gap(n, Succ(n, t), r) => P[R(p)] < P[R(r)]
  BY Zenon, <1>1, <1>3, <1>5, <1>6
<1>12. \A i \in 1 .. N + 1, p \in V : P[x[i]] < P[R(p)]
  <2>1. \A p \in V : P[e] < P[R(p)]
    BY Zenon, <1>1, <1>3, <1>4, <1>6 DEF e
  <2> QED
    BY Zenon, <1>1, <1>2, <1>6, <2>1
<1>13. ASSUME NEW i \in 1 .. N + 1, NEW j \in 1 .. N + 1, i < j
       PROVE  P[x[i]] < P[x[j]]
  <2>1. i \in 1 .. N /\ x[i] = pkts[i]
    <3>1. i # N + 1
      BY SMT, <1>2, <1>13
    <3> QED
      BY Zenon, <1>2, <3>1
  <2> QED
    BY ZenonT(30), <1>1, <1>2, <1>3, <1>13, <2>1 DEF e
<1>14. q.rtail = Succ(n, t) /\ Len(x) = N + 1
  BY Zenon, <1>2 DEF t
<1> QED
  BY Zenon, <1>3, <1>8, <1>9, <1>10, <1>11, <1>12, <1>13, <1>14 DEF LineOK, R

(* ready_buf is empty, and the packet at the head of order_buf is taken.   *)
LEMMA LinePop ==
    ASSUME NEW n \in Sizes, NEW b, NEW q, NEW pkts, NEW x, NEW K, NEW P, NEW a \in Nat, NEW e,
           LineOK(b, pkts, n, K, P, a), \A f \in K : P[f] \in Nat, IsNext(e, K, P, a),
           Waiting(b, n) = {}, Waiting(q, n) = {}, Extended(x, pkts, e)
    PROVE  LineOK(q, x, n, K, P, a + 1)
<1> DEFINE N == Len(pkts)
<1>1. /\ \A i \in 1 .. N : pkts[i] \in K /\ P[pkts[i]] < a
      /\ \A f \in K : P[f] < a => f \in Range(pkts)
      /\ \A i, j \in 1 .. N : i < j => P[pkts[i]] < P[pkts[j]]
  BY Zenon DEF LineOK
<1>2. /\ N \in Nat /\ Len(x) = N + 1
      /\ \A i \in 1 .. N + 1 : (i \in 1 .. N /\ x[i] = pkts[i]) \/ (i = N + 1 /\ x[i] = e)
      /\ Range(x) = Range(pkts) \cup {e}
  BY Zenon DEF Extended
<1>3. e \in K /\ P[e] = a /\ \A f \in K : P[f] = a => f = e
  BY Zenon DEF IsNext
<1>4. \A f \in K : P[f] < a + 1 <=> P[f] < a \/ f = e
  BY SMT, <1>3
<1> HIDE DEF N
<1>5. \A i \in 1 .. N + 1 : x[i] \in K /\ P[x[i]] < a + 1
  BY Zenon, <1>1, <1>2, <1>3, <1>4
<1>6. \A f \in K : P[f] < a + 1 => f \in Range(x)
  BY Zenon, <1>1, <1>2, <1>4
<1>7. ASSUME NEW i \in 1 .. N + 1, NEW j \in 1 .. N + 1, i < j
      PROVE  P[x[i]] < P[x[j]]
  <2>1. i \in 1 .. N /\ x[i] = pkts[i]
    <3>1. i # N + 1
      BY SMT, <1>2, <1>7
    <3> QED
      BY Zenon, <1>2, <3>1
  <2> QED
    BY Zenon, <1>1, <1>2, <1>3, <1>7, <2>1
<1>8. Len(x) = N + 1
  BY Zenon, <1>2
<1> QED
  BY Zenon, <1>5, <1>6, <1>7, <1>8 DEF LineOK

LEMMA PlusNext ==
    ASSUME NEW x \in Seqs, NEW k \in Nat, k + 1 < SeqSpace
    PROVE  (Window!Plus(x, k) + 1) % SeqSpace = Window!Plus(x, k + 1) /\ Window!Plus(x, k) \in Seqs
<1>1. SeqSpace \in Nat \ {0}
  BY SeqSpaceAssumption
<1>2. k \in Seqs /\ 1 \in Seqs
  BY SMT, <1>1 DEF Seqs
<1> DEFINE y == Window!Plus(x, k)
<1>3. y \in Seqs
  BY Zenon, <1>2, PlusIsMod
<1>4. Window!Plus(y, 1) = Window!Plus(x, k + 1)
  BY SMT, <1>1, <1>2 DEF Seqs, Window!Plus
<1> HIDE DEF y
<1>5. (y + 1) % SeqSpace = Window!Plus(y, 1)
  BY Zenon, <1>2, <1>3, PlusIsMod
<1> QED
  BY Zenon, <1>3, <1>4, <1>5 DEF y

(* After k packets, a places from base; m of the places were passed to     *)
(* make room, and no packet is top places or more from base.               *)
Drained(b) == b.rtail = b.rhead /\ AtHead(b) = NoPkt

DrainAt(b, pkts, n, K, P, m, top, a, base, k) ==
    /\ b.init = TRUE /\ b.min = Window!Plus(base, a) /\ m <= a /\ a <= top
    /\ SlotsOK(b, n, K, P, a) /\ LineOK(b, pkts, n, K, P, a)
    /\ \A j \in m .. a - 1 : \E f \in K : P[f] = j
    /\ m = 0 => /\ Left(b, n) = 0 /\ Len(pkts) = a
                /\ \A i \in 1 .. Len(pkts) : P[pkts[i]] = i - 1
    /\ Left(b, n) + (top - a) + k < 2 * n \/ Drained(b)

DrainDone(r, n, K, P, m, top, base, k) ==
    \E a \in Nat : DrainAt(r.ring, r.pkts, n, K, P, m, top, a, base, k)

LEMMA DrainTake ==
    ASSUME PowersOfTwo, NEW n \in Sizes, NEW U \in SUBSET Entries, NEW b, RingOK(b, n, U), WaitOK(b, n, U),
           NEW pkts \in Seq(Entries), NEW K \in SUBSET Entries, NEW P,
           NEW m \in Nat, NEW top \in Nat, NEW a \in Nat, NEW base, NEW k \in Nat,
           DrainAt(b, pkts, n, K, P, m, top, a, base, k), b.rtail # b.rhead
    PROVE  DrainAt(Taken(b), Append(pkts, b.ready[b.rtail]), n, K, P, m, top, a, base, k + 1)
<1> DEFINE q == Taken(b)
           e == b.ready[b.rtail]
           x == Append(pkts, e)
<1>1. n \in Nat \ {0} /\ Turn(n) = n
  BY Zenon, SizeFacts
<1>2. /\ b.init = TRUE /\ b.min = Window!Plus(base, a) /\ m <= a /\ a <= top
      /\ SlotsOK(b, n, K, P, a) /\ LineOK(b, pkts, n, K, P, a)
      /\ \A j \in m .. a - 1 : \E f \in K : P[f] = j
      /\ m = 0 => Left(b, n) = 0
      /\ Left(b, n) + (top - a) + k < 2 * n
  BY Zenon DEF DrainAt, Drained
<1>3. Left(b, n) \in 0 .. n - 1 /\ Left(b, n) # 0
  BY Zenon, LeftFacts
<1>4. m # 0
  BY Zenon, <1>2, <1>3
<1>5. IsTaken(q, b, n, U)
  BY Zenon, TakeOK
<1> HIDE DEF q
<1>6. /\ q.order = b.order /\ q.ohead = b.ohead /\ q.ready = b.ready
      /\ q.min = b.min /\ q.init = b.init
      /\ q.rtail = Succ(n, b.rtail)
      /\ Left(q, n) = Left(b, n) - 1
      /\ Waiting(q, n) = Waiting(b, n) \ {b.rtail}
      /\ b.rtail \in Waiting(b, n)
  BY Zenon, <1>1, <1>5 DEF IsTaken
<1>7. e \in Entries
  BY Zenon, <1>6 DEF WaitOK
<1>8. Extended(x, pkts, e)
  <2> HIDE DEF e
  <2> QED
    BY Zenon, <1>7, AppendIs
<1>9. LineOK(q, x, n, K, P, a)
  <2>1. \A p \in Waiting(b, n) : p \in 0 .. n - 1
    BY Zenon, <1>1 DEF Waiting
  <2>2. b.rtail \in 0 .. n - 1
    BY Zenon, <1>6, <2>1
  <2> HIDE DEF x
  <2> QED
    BY Zenon, <1>1, <1>2, <1>6, <1>8, <2>1, <2>2, LineTake
<1>10. SlotsOK(q, n, K, P, a)
  BY ZenonT(30), <1>2, <1>6 DEF SlotsOK
<1>11. Left(q, n) + (top - a) + (k + 1) < 2 * n
  <2> DEFINE l == Left(b, n)
             z == Left(q, n)
  <2>1. z = l - 1 /\ l \in 0 .. n - 1 /\ l + (top - a) + k < 2 * n
    BY Zenon, <1>2, <1>3, <1>6
  <2> HIDE DEF l, z
  <2>2. z + (top - a) + (k + 1) < 2 * n
    BY SMT, <1>1, <2>1
  <2> QED
    BY Zenon, <2>2 DEF z
<1> QED
  BY Zenon, <1>2, <1>4, <1>6, <1>9, <1>10, <1>11 DEF DrainAt, q

LEMMA DrainPop ==
    ASSUME PowersOfTwo, NEW n \in Sizes, NEW U \in SUBSET Entries, NEW b, RingOK(b, n, U), WaitOK(b, n, U),
           NEW pkts \in Seq(Entries), NEW K \in SUBSET Entries, NEW P,
           NEW m \in Nat, NEW top \in 0 .. 2 * n, NEW a \in Nat, NEW base \in Seqs, NEW k \in Nat,
           \A f \in K : P[f] \in 0 .. top - 1,
           DrainAt(b, pkts, n, K, P, m, top, a, base, k), b.rtail = b.rhead, AtHead(b) # NoPkt
    PROVE  DrainAt(TakenHead(b), Append(pkts, AtHead(b)), n, K, P, m, top, a + 1, base, k + 1)
<1> DEFINE q == TakenHead(b)
           e == AtHead(b)
           x == Append(pkts, e)
<1>1. n \in Nat \ {0} /\ Turn(n) = n /\ 8 * n <= SeqSpace /\ SeqSpace \in Nat
  BY Zenon, SizeFacts
<1>2. /\ b.init = TRUE /\ b.min = Window!Plus(base, a) /\ m <= a /\ a <= top
      /\ SlotsOK(b, n, K, P, a) /\ LineOK(b, pkts, n, K, P, a)
      /\ \A j \in m .. a - 1 : \E f \in K : P[f] = j
      /\ m = 0 => Len(pkts) = a /\ \A i \in 1 .. Len(pkts) : P[pkts[i]] = i - 1
      /\ Left(b, n) + (top - a) + k < 2 * n
  BY Zenon DEF DrainAt, Drained
<1>3. Waiting(b, n) = {} /\ Left(b, n) = 0
  BY Zenon, NoneWaiting
<1>4. b \in Rings(n)
  BY Zenon DEF RingOK
<1>5. e \in K /\ P[e] = a /\ \A f \in K : P[f] = a => f = e
  <2>1. /\ AtHead(b) # NoPkt => AtHead(b) \in K /\ P[AtHead(b)] = a
        /\ \A f \in K : P[f] = a => AtHead(b) = f
    <3>1. SlotsOK(b, n, K, P, a)
      BY Zenon, <1>2
    <3> QED
      BY ZenonT(30), <1>4, <3>1, HeadIsNext
  <2> QED
    BY Zenon, <2>1
<1>6. IsTakenHead(q, b, n, U)
  BY Zenon, TakeHeadOK
<1> HIDE DEF q, e
<1>7. /\ q.order = [b.order EXCEPT ![b.ohead] = NoPkt] /\ q.ohead = Succ(n, b.ohead)
      /\ q.rhead = b.rhead /\ q.rtail = b.rtail /\ q.init = b.init
      /\ q.min = (b.min + 1) % SeqSpace
      /\ Waiting(q, n) = Waiting(b, n)
  BY Zenon, <1>1, <1>6 DEF IsTakenHead
<1>8. a + 1 <= top /\ a + 1 < SeqSpace /\ m <= a + 1 /\ (\A f \in K : P[f] \in Nat) /\ a + 1 \in Nat
  BY SMT, <1>1, <1>2, <1>5
<1>9. q.min = Window!Plus(base, a + 1)
  <2>1. (Window!Plus(base, a) + 1) % SeqSpace = Window!Plus(base, a + 1) /\ Window!Plus(base, a) \in Seqs
    BY Zenon, <1>8, PlusNext
  <2> QED
    BY Zenon, <1>2, <1>7, <2>1
<1>10. SlotsOK(q, n, K, P, a + 1)
  BY Zenon, <1>2, <1>4, <1>7, <1>8, SlotsPop
<1>11. Extended(x, pkts, e)
  BY Zenon, <1>5, AppendIs
<1> HIDE DEF x
<1>12. LineOK(q, x, n, K, P, a + 1)
  <2>1. IsNext(e, K, P, a)
    BY Zenon, <1>5 DEF IsNext
  <2>2. Waiting(q, n) = {}
    BY Zenon, <1>3, <1>7
  <2> QED
    BY Zenon, <1>2, <1>3, <1>8, <1>11, <2>1, <2>2, LinePop
<1>13. \A j \in m .. (a + 1) - 1 : \E f \in K : P[f] = j
  <2>1. \A j \in m .. (a + 1) - 1 : j \in m .. a - 1 \/ j = a
    BY SMT
  <2> QED
    BY ZenonT(30), <1>2, <1>5, <2>1
<1>14. Left(q, n) = 0
  BY Zenon, <1>3, <1>7 DEF Left
<1>15. ASSUME m = 0
       PROVE  Len(x) = a + 1 /\ \A i \in 1 .. Len(x) : P[x[i]] = i - 1
  <2> DEFINE N == Len(pkts)
  <2>1. N = a /\ \A i \in 1 .. N : P[pkts[i]] = i - 1
    BY Zenon, <1>2, <1>15
  <2>2. /\ Len(x) = N + 1
        /\ \A i \in 1 .. N + 1 : (i \in 1 .. N /\ x[i] = pkts[i]) \/ (i = N + 1 /\ x[i] = e)
    BY Zenon, <1>11 DEF Extended
  <2> HIDE DEF N
  <2>3. \A i : i = N + 1 => i - 1 = a
    BY SMT, <2>1
  <2>4. \A i \in 1 .. N + 1 : P[x[i]] = i - 1
    BY Zenon, <1>5, <2>1, <2>2, <2>3
  <2> QED
    BY Zenon, <2>1, <2>2, <2>4
<1>16. Left(q, n) + (top - (a + 1)) + (k + 1) < 2 * n
  <2>1. 0 + (top - a) + k < 2 * n
    BY Zenon, <1>2, <1>3
  <2>2. 0 + (top - (a + 1)) + (k + 1) < 2 * n
    BY SMT, <1>1, <2>1
  <2> QED
    BY Zenon, <1>14, <2>2
<1>17. q.init = TRUE
  BY Zenon, <1>2, <1>7
<1>18. DrainAt(q, x, n, K, P, m, top, a + 1, base, k + 1)
  BY Zenon, <1>8, <1>9, <1>10, <1>12, <1>13, <1>14, <1>15, <1>16, <1>17 DEF DrainAt
<1> QED
  BY Zenon, <1>18 DEF q, x, e

LEMMA DrainStepAt ==
    ASSUME PowersOfTwo, NEW n \in Sizes, NEW U \in SUBSET Entries, NEW k \in Nat, NEW r \in Drains(n, U, k),
           NEW K \in SUBSET Entries, NEW P, NEW m \in Nat, NEW top \in 0 .. 2 * n, NEW base \in Seqs,
           \A f \in K : P[f] \in 0 .. top - 1, DrainDone(r, n, K, P, m, top, base, k)
    PROVE  DrainDone(DrainStep(r), n, K, P, m, top, base, k + 1)
<1> DEFINE b == r.ring
           pkts == r.pkts
<1>0. n \in Nat \ {0}
  BY Zenon, SizeFacts
<1>1. PICK a \in Nat : DrainAt(b, pkts, n, K, P, m, top, a, base, k)
  BY Zenon DEF DrainDone
<1>2. /\ RingOK(b, n, U) /\ WaitOK(b, n, U) /\ pkts \in Seq(Entries)
      /\ IsInjective(pkts) /\ Range(pkts) \subseteq U
      /\ \A p \in Waiting(b, n) : b.ready[p] \notin Range(pkts)
      /\ \A i \in 0 .. n - 1 : b.order[i] \notin Range(pkts)
  BY Zenon DEF Drains, DrainOK, TakenOK
<1>3. top \in Nat
  BY SMT, <1>0
<1>4. ASSUME NEW e \in Entries, e \notin Range(pkts)
      PROVE  ~(Len(pkts) >= MaxDrain)
  <2>1. Len(pkts) < MaxDrain
    <3> HIDE DEF pkts
    <3> QED
      BY Zenon, <1>2, <1>4, Room
  <2>2. Len(pkts) \in Nat /\ MaxDrain \in Nat
    BY SMT, <1>2, PoolAssumption
  <2> DEFINE l == Len(pkts)
  <2> HIDE DEF l
  <2>3. l < MaxDrain /\ l \in Nat /\ MaxDrain \in Nat
    BY Zenon, <2>1, <2>2 DEF l
  <2>4. ~(l >= MaxDrain)
    BY SMT, <2>3
  <2> QED
    BY Zenon, <2>4 DEF l
<1>5. ASSUME NEW q, NEW x, NEW y, y = [ring |-> q, pkts |-> x], NEW c \in Nat,
             DrainAt(q, x, n, K, P, m, top, c, base, k + 1)
      PROVE  DrainDone(y, n, K, P, m, top, base, k + 1)
  <2>1. y.ring = q /\ y.pkts = x
    BY Zenon, <1>5
  <2> QED
    BY Zenon, <1>5, <2>1 DEF DrainDone
<1>6. CASE b.rtail # b.rhead
  <2> DEFINE e == b.ready[b.rtail]
  <2>1. IsTaken(Taken(b), b, n, U)
    <3> HIDE DEF b
    <3> QED
      BY Zenon, <1>2, <1>6, TakeOK
  <2>2. b.rtail \in Waiting(b, n)
    BY Zenon, <2>1 DEF IsTaken
  <2>3. e \in Entries /\ e \notin Range(pkts)
    BY Zenon, <1>2, <2>2 DEF WaitOK
  <2>4. ~(Len(pkts) >= MaxDrain)
    BY Zenon, <1>4, <2>3
  <2>5. DrainStep(r) = [ring |-> Taken(b), pkts |-> Append(pkts, e)]
    BY Zenon, <1>6, <2>4 DEF DrainStep, Taken
  <2>6. DrainAt(Taken(b), Append(pkts, e), n, K, P, m, top, a, base, k + 1)
    <3> HIDE DEF b, pkts
    <3>1. DrainAt(Taken(b), Append(pkts, b.ready[b.rtail]), n, K, P, m, top, a, base, k + 1)
      BY Zenon, <1>1, <1>2, <1>3, <1>6, DrainTake
    <3> QED
      BY Zenon, <3>1
  <2> QED
    BY Zenon, <1>5, <2>5, <2>6
<1>7. CASE b.rtail = b.rhead /\ AtHead(b) # NoPkt
  <2> DEFINE e == AtHead(b)
  <2>1. b.ohead \in 0 .. n - 1 /\ b.order \in [0 .. n - 1 -> Slots]
    BY Zenon, <1>2 DEF RingOK, Rings
  <2>2. e \in Entries /\ e \notin Range(pkts)
    BY Zenon, <1>2, <1>7, <2>1 DEF AtHead, Slots
  <2>3. ~(Len(pkts) >= MaxDrain)
    BY Zenon, <1>4, <2>2
  <2>4. DrainStep(r) = [ring |-> TakenHead(b), pkts |-> Append(pkts, e)]
    BY Zenon, <1>7, <2>3 DEF DrainStep, TakenHead
  <2>5. DrainAt(TakenHead(b), Append(pkts, e), n, K, P, m, top, a + 1, base, k + 1)
    <3> HIDE DEF b, pkts
    <3>1. DrainAt(TakenHead(b), Append(pkts, AtHead(b)), n, K, P, m, top, a + 1, base, k + 1)
      BY Zenon, <1>1, <1>2, <1>7, DrainPop
    <3> QED
      BY Zenon, <3>1
  <2>6. a + 1 \in Nat
    BY SMT
  <2> QED
    BY Zenon, <1>5, <2>4, <2>5, <2>6
<1>8. CASE b.rtail = b.rhead /\ AtHead(b) = NoPkt
  <2>1. DrainStep(r) = r
    BY Zenon, <1>8 DEF DrainStep
  <2>2. DrainAt(b, pkts, n, K, P, m, top, a, base, k + 1)
    <3> HIDE DEF b, pkts
    <3> QED
      BY Zenon, <1>1, <1>8 DEF DrainAt, Drained
  <2> QED
    BY Zenon, <2>1, <2>2 DEF DrainDone
<1> QED
  BY Zenon, <1>6, <1>7, <1>8

LEMMA DrainedAt ==
    ASSUME PowersOfTwo, NEW n \in Sizes, NEW U \in SUBSET Entries, NEW b, RingOK(b, n, U), WaitOK(b, n, U),
           NEW K \in SUBSET Entries, NEW P, NEW m \in Nat, NEW start \in Nat, NEW base \in Seqs,
           IsInserted(b, n, K, P, m, start, base), \A f \in K : P[f] \in 0 .. (start + n) - 1
    PROVE  \E a \in Nat : IsDrained(Drain(b).ring, Drain(b).pkts, n, K, P, m, a, base)
<1> DEFINE N == 2 * n
           top == start + n
           g == Draining(b)
           T == [k \in 0 .. N |-> {r \in Drains(n, U, k) : DrainDone(r, n, K, P, m, top, base, k)}]
<1>1. n \in Nat \ {0} /\ N \in Nat /\ 0 \in 0 .. N /\ N \in 0 .. N
  BY SMT, SizeFacts
<1>2. /\ b.init = TRUE /\ b.min = Window!Plus(base, start) /\ start \in m .. n
      /\ SlotsOK(b, n, K, P, start) /\ LineOK(b, <<>>, n, K, P, start)
      /\ \A j \in m .. start - 1 : \E f \in K : P[f] = j
      /\ m = 0 => start = 0 /\ Left(b, n) = 0
  BY Zenon DEF IsInserted
<1>3. /\ g[0] = [ring |-> b, pkts |-> <<>>]
      /\ \A k \in 1 .. N : g[k] = DrainStep(g[k - 1])
      /\ \A k \in 0 .. N : g[k] \in Drains(n, U, k)
  BY Zenon, DrainingOK
<1>4. m <= start /\ start <= top /\ top \in 0 .. 2 * n
  BY SMT, <1>1, <1>2
<1>5. Left(b, n) + (top - start) + 0 < 2 * n
  <2>1. Left(b, n) \in 0 .. n - 1
    BY Zenon, LeftFacts
  <2> DEFINE l == Left(b, n)
  <2> HIDE DEF l
  <2>2. l \in 0 .. n - 1
    BY Zenon, <2>1 DEF l
  <2>3. l + (top - start) + 0 < 2 * n
    BY SMT, <1>1, <2>2
  <2> QED
    BY Zenon, <2>3 DEF l
<1> HIDE DEF g, N, top
<1>6. DrainAt(b, <<>>, n, K, P, m, top, start, base, 0)
  <2>1. Len(<<>>) = 0 /\ \A i \in 1 .. Len(<<>>) : FALSE
    BY SMT
  <2> QED
    BY Zenon, <1>2, <1>4, <1>5, <2>1 DEF DrainAt
<1>7. DrainDone(g[0], n, K, P, m, top, base, 0)
  <2>1. g[0].ring = b /\ g[0].pkts = <<>>
    <3>1. g[0] = [ring |-> b, pkts |-> <<>>]
      BY Zenon, <1>3
    <3> QED
      BY SMT, <3>1
  <2> QED
    BY ZenonT(30), <1>6, <2>1 DEF DrainDone
<1>8. g[0] \in T[0]
  BY Zenon, <1>1, <1>3, <1>7
<1>9. ASSUME NEW k \in 1 .. N, g[k - 1] \in T[k - 1] PROVE g[k] \in T[k]
  <2>1. k \in 0 .. N /\ k - 1 \in 0 .. N /\ k - 1 \in Nat /\ (k - 1) + 1 = k
    BY SMT, <1>1
  <2> DEFINE j == k - 1
  <2> HIDE DEF j
  <2>2. g[j] \in Drains(n, U, j) /\ DrainDone(g[j], n, K, P, m, top, base, j)
    BY Zenon, <1>9, <2>1 DEF j
  <2>3. DrainDone(DrainStep(g[j]), n, K, P, m, top, base, j + 1)
    <3>1. (\A f \in K : P[f] \in 0 .. top - 1) /\ j \in Nat
      BY Zenon, <2>1 DEF top, j
    <3> QED
      BY Zenon, <1>4, <2>2, <3>1, DrainStepAt
  <2> QED
    BY Zenon, <1>3, <2>1, <2>3 DEF j
<1>10. \A k \in 0 .. N : g[k] \in T[k]
  <2> HIDE DEF T
  <2> QED
    BY Zenon, <1>1, <1>8, <1>9, LoopInvariant
<1>11. g[N] \in Drains(n, U, N) /\ DrainDone(g[N], n, K, P, m, top, base, N)
  BY Zenon, <1>1, <1>10
<1> DEFINE r == Drain(b)
<1>12. r = g[N]
  <2>1. b.size = n
    BY Zenon DEF RingOK, Rings
  <2> QED
    BY Zenon, <2>1 DEF Drain, g, N
<1> HIDE DEF r
<1>13. PICK a \in Nat : DrainAt(r.ring, r.pkts, n, K, P, m, top, a, base, N)
  BY Zenon, <1>11, <1>12 DEF DrainDone
<1> DEFINE q == r.ring
           pkts == r.pkts
<1>14. /\ q.init = TRUE /\ q.min = Window!Plus(base, a) /\ m <= a /\ a <= top
       /\ SlotsOK(q, n, K, P, a) /\ LineOK(q, pkts, n, K, P, a)
       /\ \A j \in m .. a - 1 : \E f \in K : P[f] = j
       /\ m = 0 => Len(pkts) = a /\ \A i \in 1 .. Len(pkts) : P[pkts[i]] = i - 1
       /\ Left(q, n) + (top - a) + N < 2 * n \/ Drained(q)
  BY Zenon, <1>13 DEF DrainAt
<1>15. RingOK(q, n, U)
  BY Zenon, <1>11, <1>12 DEF Drains, DrainOK
<1> HIDE DEF q, pkts
<1>16. Drained(q)
  <2>1. Left(q, n) \in 0 .. n - 1
    BY Zenon, <1>15, LeftFacts
  <2> DEFINE l == Left(q, n)
  <2> HIDE DEF l
  <2>2. l \in 0 .. n - 1 /\ (l + (top - a) + N < 2 * n \/ Drained(q))
    BY ZenonT(30), <1>14, <2>1 DEF l
  <2>3. ~(l + (top - a) + N < 2 * n)
    BY SMT, <1>1, <1>4, <1>14, <2>2 DEF N
  <2> QED
    BY Zenon, <2>2, <2>3
<1>17. a \in m .. 2 * n
  BY SMT, <1>1, <1>4, <1>14
<1>18. IsDrained(q, pkts, n, K, P, m, a, base)
  BY Zenon, <1>14, <1>16, <1>17 DEF IsDrained, Drained
<1> QED
  BY Zenon, <1>18 DEF q, pkts, r


-----------------------------------------------------------------------------
(* What mlvpn_reorder_insert and mlvpn_reorder_drain do with the rings,    *)
(* and freebuffer with the lists, is what module RingFacts says: no entry  *)
(* is lost, none is pointed to twice, and for a size that is a power of    *)
(* two every packet is where its distance from min_seqn puts it and leaves *)
(* in the order of the distances.                                          *)
THEOREM RingsBehave == RingFacts
<1>1. TurnFact
  BY Zenon, TurnFacts DEF TurnFact
<1>2. InsertOKFact
  BY SMT, InsertOK DEF InsertOKFact
<1>3. AppendFact
  BY Zenon, AppendFacts DEF AppendFact
<1>4. DrainedOKFact
  BY Zenon, DrainedOK DEF DrainedOKFact
<1>5. WithoutOKFact
  BY Zenon, WithoutOK DEF WithoutOKFact
<1>6. ReversedOKFact
  BY Zenon, ReversedOK DEF ReversedOKFact
<1>7. ConcatOKFact
  BY Zenon, ConcatOK DEF ConcatOKFact
<1>8. TailOKFact
  BY Zenon, TailOK DEF TailOKFact
<1>9. SizeFact
  BY Zenon, SizeFacts DEF SizeFact
<1>10. GapFact
  BY Zenon, GapFacts DEF GapFact
<1>11. HeadIsNextFact
  BY Zenon, HeadIsNext DEF HeadIsNextFact
<1>12. InsertIsFact
  BY Zenon, InsertIs DEF InsertIsFact
<1>13. NoneWaitingFact
  BY Zenon, NoneWaiting DEF NoneWaitingFact
<1>14. InsertNearFact
  BY SMT, InsertNear DEF InsertNearFact
<1>15. InsertFarFact
  BY Zenon, InsertFar DEF InsertFarFact
<1>16. DistFromPlusFact
  BY Zenon, DistFromPlus DEF DistFromPlusFact
<1>17. InsertOverFact
  BY SMT, InsertOver DEF InsertOverFact
<1>18. InsertNoRoomFact
  BY Zenon, InsertNoRoom DEF InsertNoRoomFact
<1>19. DrainedAtFact
  BY SMT, DrainedAt DEF DrainedAtFact
<1> QED
  BY Zenon, <1>1, <1>2, <1>3, <1>4, <1>5, <1>6, <1>7, <1>8, <1>9, <1>10, <1>11, <1>12, <1>13, <1>14, <1>15, <1>16, <1>17, <1>18, <1>19 DEF RingFacts

=============================================================================
