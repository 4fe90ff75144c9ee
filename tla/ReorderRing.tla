----------------------------- MODULE ReorderRing -----------------------------
(***************************************************************************)
(* reorder.c: the reorder buffer as a record, its operations as operators  *)
(* on it.  Positions are masked exactly as the code masks them, so that    *)
(* the module also says what a size that is not a power of two does.       *)
(* A loop of the code is a function: what the buffer is after k passes.    *)
(***************************************************************************)
EXTENDS Integers, Sequences

CONSTANTS
    SeqSpace,     \* number of sequence numbers (2^64: the fields are uint64_t)
    NoPkt,        \* NULL
    MaxDrain,     \* room in the array drained_pkts (1024)
    BitAnd(_, _)  \* the operator & of C

(* struct mlvpn_reorder_buffer after mlvpn_reorder_init.                   *)
NewRing(n) ==
    [size |-> n, init |-> FALSE, min |-> 0,
     ohead |-> 0, order |-> [i \in 0 .. n - 1 |-> NoPkt],
     rhead |-> 0, rtail |-> 0, ready |-> [i \in 0 .. n - 1 |-> NoPkt]]

Mask(b, x) == BitAnd(x, b.size - 1)

ReadyFull(b) == Mask(b, b.rhead + 1) = b.rtail

AtHead(b) == b.order[b.ohead]

(* Mutant: the slot keeps its pointer.                                     *)
PopHeadKeepsSlot(b) == [b EXCEPT !.ohead = Mask(b, b.ohead + 1)]

(* order_buf->head moves one place, leaving the slot it was on empty.      *)
PopHead(b) ==
    [b EXCEPT !.order[b.ohead] = NoPkt, !.ohead = Mask(b, b.ohead + 1)]

-----------------------------------------------------------------------------
(* mlvpn_reorder_fill_overflow, one place of the head: the outer loop      *)
(* skips a missing packet until the head has moved n places or ready_buf   *)
(* is full; the inner loop moves the packets that follow to ready_buf.     *)
(* When that is full after a move its head stays on the packet just        *)
(* stored, which leaves the inner loop, and the outer one with it.         *)
FillStep(r, n) ==
    LET b     == r.ring
        more  == r.adv < n /\ ~ReadyFull(b)
        moved == PopHead([b EXCEPT !.ready[b.rhead] = AtHead(b)])
    IN  IF AtHead(b) = NoPkt THEN
            IF more THEN [ring |-> PopHead(b), adv |-> r.adv + 1, inner |-> TRUE] ELSE r
        ELSE IF ~(r.inner \/ more) THEN r
        ELSE IF ReadyFull(moved) THEN [ring |-> moved, adv |-> r.adv + 1, inner |-> FALSE]
        ELSE [ring |-> [moved EXCEPT !.rhead = Mask(b, @ + 1)], adv |-> r.adv + 1,
              inner |-> TRUE]

(* No more than n missing packets are skipped and size packets moved.      *)
Filling(b, n) ==
    LET at[k \in 0 .. 2 * b.size] ==
          IF k = 0 THEN [ring |-> b, adv |-> 0, inner |-> FALSE]
          ELSE FillStep(at[k - 1], n)
    IN  at

(* Mutant: min_seqn does not follow the head.                              *)
FillOverflowKeepsMin(b, n) == Filling(b, n)[2 * b.size]

FillOverflow(b, n) ==
    LET end == Filling(b, n)[2 * b.size]
    IN  [end EXCEPT !.ring.min = (@ + end.adv) % SeqSpace]

-----------------------------------------------------------------------------
(* Mutant: the position is not relative to the head.                       *)
PutAbsolute(b, offset, e) == [b EXCEPT !.order[Mask(b, offset)] = e]

(* Store entry e at the given distance from the head.                      *)
Put(b, offset, e) == [b EXCEPT !.order[Mask(b, b.ohead + offset)] = e]

(* mlvpn_reorder_insert of entry e, whose packet has sequence number s.    *)
Insert(b0, e, s) ==
    LET b == IF b0.init THEN b0 ELSE [b0 EXCEPT !.init = TRUE, !.min = s]
        offset == (s - b.min) % SeqSpace
        need   == offset + 1 - b.size
        filled == FillOverflow(b, need)
    IN  IF offset < b.size THEN [ring |-> Put(b, offset, e), ret |-> 0]
        ELSE IF offset >= 2 * b.size THEN [ring |-> b, ret |-> -2]
        ELSE IF filled.adv < need THEN [ring |-> filled.ring, ret |-> -1]
        ELSE [ring |-> Put(filled.ring, (s - filled.ring.min) % SeqSpace, e), ret |-> 0]

-----------------------------------------------------------------------------
(* Mutants: ready_buf last, and not at all.                                *)
DrainStepReadyLast(r) ==
    LET b == r.ring
    IN  IF Len(r.pkts) >= MaxDrain THEN r
        ELSE IF AtHead(b) # NoPkt THEN
            [ring |-> [PopHead(b) EXCEPT !.min = (@ + 1) % SeqSpace],
             pkts |-> Append(r.pkts, AtHead(b))]
        ELSE IF b.rtail # b.rhead THEN
            [ring |-> [b EXCEPT !.rtail = Mask(b, @ + 1)],
             pkts |-> Append(r.pkts, b.ready[b.rtail])]
        ELSE r

DrainStepOrderOnly(r) ==
    LET b == r.ring
    IN  IF Len(r.pkts) < MaxDrain /\ AtHead(b) # NoPkt THEN
            [ring |-> [PopHead(b) EXCEPT !.min = (@ + 1) % SeqSpace],
             pkts |-> Append(r.pkts, AtHead(b))]
        ELSE r

(* mlvpn_reorder_drain, one packet: from ready_buf while it has any, then  *)
(* from order_buf up to the first missing one.                             *)
DrainStep(r) ==
    LET b == r.ring
    IN  IF Len(r.pkts) >= MaxDrain THEN r
        ELSE IF b.rtail # b.rhead THEN
            [ring |-> [b EXCEPT !.rtail = Mask(b, @ + 1)],
             pkts |-> Append(r.pkts, b.ready[b.rtail])]
        ELSE IF AtHead(b) # NoPkt THEN
            [ring |-> [PopHead(b) EXCEPT !.min = (@ + 1) % SeqSpace],
             pkts |-> Append(r.pkts, AtHead(b))]
        ELSE r

(* Neither buffer has more than size packets.                              *)
Draining(b) ==
    LET at[k \in 0 .. 2 * b.size] ==
          IF k = 0 THEN [ring |-> b, pkts |-> <<>>] ELSE DrainStep(at[k - 1])
    IN  at

Drain(b) == Draining(b)[2 * b.size]

=============================================================================
