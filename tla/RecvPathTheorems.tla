-------------------------- MODULE RecvPathTheorems --------------------------
(***************************************************************************)
(* Theorems about module RecvPath: RingProofs shows what the rings and the *)
(* lists do, RecvPathProofs what the handlers do with them.                *)
(***************************************************************************)
EXTENDS RecvPathProofs, RingProofs

(* mlvpn_freebuffer_free always finds the entry it is given: whatever the  *)
(* sizes, powers of two or not, and the order in which packets, timeouts,  *)
(* tunnel changes and reloads come, it never stops the process.            *)
THEOREM FreeFindsItsEntry == Spec => []NeverFatal
<1>1. Spec => [](NeverFatal /\ PoolSound)
  BY Zenon, RingsBehave, PoolAlways
<1> QED
  BY <1>1, PTL

(* The free and the used list always share out the pool, and ready_buf is  *)
(* empty whenever mlvpn_reorder_fill_overflow may start to fill it.        *)
THEOREM PoolStaysSound == Spec => []PoolSound
<1>1. Spec => [](NeverFatal /\ PoolSound)
  BY Zenon, RingsBehave, PoolAlways
<1> QED
  BY <1>1, PTL

(* With sizes that are powers of two the rings, the masks, the loops and   *)
(* the lists of reorder.c and buffer.c do, step by step, what module       *)
(* Reorder says with a set of entries and a distance: recv_data, the drain *)
(* timeout, the tunnel changes and the reload all implement their action   *)
(* of the abstract specification.                                          *)
THEOREM ImplementsWindow == PowersOfTwo => (Spec => Refines)
BY Zenon, RingsBehave, WindowImplemented

(* With sizes that are powers of two a packet that fits in the window      *)
(* never makes mlvpn_reorder_insert or mlvpn_reorder_drain pass over a     *)
(* missing one: they release the expected packet and those that follow it  *)
(* without a hole, for every window size and every history before it.      *)
THEOREM WaitsForGap == PowersOfTwo => (Spec => HoldsForGap)
BY Zenon, RingsBehave, GapAwaited

(* With sizes that are powers of two the packets that mlvpn_reorder_drain  *)
(* returns reach tuntap in the order of their sequence numbers: within one *)
(* handler, through ready_buf and order_buf, and across handlers since the *)
(* last reset, also where the numbers wrap.                                *)
THEOREM DrainsInOrder == PowersOfTwo => (Spec => ReleasedInOrder)
BY Zenon, RingsBehave, OrderKept

(* What the abstract window promises holds of the rings and the lists: no  *)
(* packet received and not yet injected is out of the used list, where the *)
(* next forced drain finds it, and the drain timer runs while there is     *)
(* one.                                                                    *)
THEOREM RingsLoseNothing == PowersOfTwo => (Spec => [](Window!NoLoss /\ Window!TimerCoversOwed))
BY Zenon, RingsBehave, NothingLost

=============================================================================
