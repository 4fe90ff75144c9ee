----------------------------- MODULE MCRecvPath -----------------------------
(* RecvPath for TLC.                                                       *)
EXTENDS RecvPath, Bitwise

CONSTANT PoolSize

(* Two states are one for TLC when they differ only in what no action      *)
(* reads (out, and the slots of ready_buf, which is empty between two      *)
(* handlers) or in which pool entries are used for the same packets.       *)
Contents(slot) == IF slot = NoPkt THEN NoPkt ELSE pkt[slot]

UpToRenaming ==
    <<optSize, timer, fatal, last, owed, Len(free),
      [buf EXCEPT !.order = [i \in DOMAIN @ |-> Contents(@[i])], !.ready = <<>>],
      [i \in 1 .. Len(used) |->
          <<pkt[used[i]], \E j \in DOMAIN buf.order : buf.order[j] = used[i]>>]>>

MaskedBy(x, y) == x & y

PoolList == [i \in 1 .. PoolSize |-> i]

(* A mask takes a position modulo the size exactly where the size is a     *)
(* power of two, which is how PowersOfTwo of RingFacts puts it.            *)
ASSUME MaskIsModulo ==
    \A n \in Sizes : (\E k \in 0 .. n : n = 2^k)
                          <=> \A x \in 0 .. 2 * SeqSpace : BitAnd(x, n - 1) = x % n

=============================================================================
