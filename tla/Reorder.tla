------------------------------- MODULE Reorder -------------------------------
(***************************************************************************)
(* The receive side of the VPN, from a decrypted data packet to its        *)
(* injection into the tuntap device: mlvpn_rtun_recv_data and              *)
(* mlvpn_rtun_reorder_drain (mlvpn.c), the reorder buffer (reorder.c) and  *)
(* the pool of packet copies it points into (freebuffer, buffer.c).        *)
(*                                                                         *)
(* This is the abstract level: the two rings of reorder.c are a SET of     *)
(* pool entries, because the place of an entry in order_buf is determined  *)
(* by its sequence number, and the loops of fill_overflow and drain are    *)
(* replaced by what they compute, the distance the window moves.  Module   *)
(* RecvPath keeps the rings, the masks and the loops, and implements this  *)
(* specification.                                                          *)
(*                                                                         *)
(* A packet is its sequence number (proto.data_seq): the sender uses each  *)
(* number once, so two arrivals of one number are copies of one packet.    *)
(***************************************************************************)
EXTENDS Integers

CONSTANTS
    Entries,  \* entries of the freebuffer pool (512 in main, mlvpn.c)
    Sizes,    \* values of reorder_buffer_size the configuration may give, 0 apart
    SeqSpace,   \* number of sequence numbers (2^64: the field is a uint64_t)
    Sent,     \* the sequence numbers of the packets that may arrive
    NoPkt     \* "no packet": a NULL pointer, an empty slot

Seqs == 0 .. SeqSpace - 1

(* The configuration accepts any size.  reorder.c masks positions with     *)
(* size - 1, so it implements this module only for powers of two: see      *)
(* HoldsForGap in module RecvPath.                                         *)
ASSUME SizesAssumption == Sizes \subseteq (Nat \ {0})

(* A sequence number is far wider than any window.                         *)
ASSUME SeqSpaceAssumption == SeqSpace \in Nat \ {0} /\ \A n \in Sizes : 8 * n <= SeqSpace

ASSUME SentAssumption == Sent \subseteq Seqs

ASSUME NoPktAssumption == NoPkt \notin Seqs

VARIABLES
    optSize,  \* mlvpn_options.reorder_buffer_size
    size,     \* reorder_buffer->order_buf.size, 0 while reorder_buffer is NULL
    init,     \* reorder_buffer->is_initialized
    minSeq,   \* reorder_buffer->min_seqn
    held,     \* what each pool entry holds; NoPkt for an entry of the free list
    ring,     \* the entries order_buf points to
    timer,    \* ev_is_active(&reorder_drain_timeout)
    last,     \* history: the packet the ring released last, since its reset
    owed,     \* history: packets received and not injected into tuntap since
    out       \* history: what the last handler injected, and from where

vars == <<optSize, size, init, minSeq, held, ring, timer, last, owed, out>>

-----------------------------------------------------------------------------
(* Unsigned 64-bit arithmetic on sequence numbers: b - a and a + n.        *)
Dist(a, b) == IF b >= a THEN b - a ELSE b - a + SeqSpace

(* Mutant: the sum is kept in a wider integer.                             *)
PlusNoWrap(a, n) == a + n

Plus(a, n) == IF a + n < SeqSpace THEN a + n ELSE a + n - SeqSpace

(* The used list of the pool, and the packets in a set of entries.         *)
Used(h) == {e \in Entries : h[e] # NoPkt}

Packets(h, S) == {h[e] : e \in S}

(* The packets a handler hands to mlvpn_rtun_inject_tuntap.                *)
Inject(via, S, received) ==
    /\ out' = [via |-> via, pkts |-> S]
    /\ owed' = (owed \cup received) \ S

-----------------------------------------------------------------------------
TypeOK ==
    /\ optSize \in Sizes \cup {0}
    /\ size \in Sizes \cup {0}
    /\ init \in BOOLEAN
    /\ minSeq \in Seqs
    /\ held \in [Entries -> Seqs \cup {NoPkt}]
    /\ ring \in SUBSET Entries
    /\ timer \in BOOLEAN
    /\ last \in Seqs \cup {NoPkt}
    /\ owed \in SUBSET Seqs
    /\ out \in [via : {"none", "direct", "ring", "flush"}, pkts : SUBSET Seqs]

-----------------------------------------------------------------------------
(* main reads the configuration before any packet can arrive.              *)
Init ==
    /\ optSize \in Sizes \cup {0}
    /\ size = optSize
    /\ init = FALSE
    /\ minSeq = 0
    /\ held = [e \in Entries |-> NoPkt]
    /\ ring = {}
    /\ timer = FALSE
    /\ last = NoPkt
    /\ owed = {}
    /\ out = [via |-> "none", pkts |-> {}]

(* mlvpn_reorder_create and mlvpn_reorder_reset: an empty ring.            *)
ResetRing ==
    /\ init' = FALSE
    /\ minSeq' = 0
    /\ ring' = {}
    /\ last' = NoPkt

(* Mutant: a forced drain walks the ring instead of the used list.         *)
FlushRing ==
    /\ Inject("flush", Packets(held, ring), {})
    /\ held' = [e \in Entries |-> NoPkt]
    /\ timer' = FALSE
    /\ ResetRing

(* mlvpn_rtun_reorder_drain(0): every entry of the used list is injected   *)
(* and freed, the ring is reset and the timer stopped.                     *)
FlushPool ==
    /\ Inject("flush", Packets(held, Used(held)), {})
    /\ held' = [e \in Entries |-> NoPkt]
    /\ timer' = FALSE
    /\ ResetRing

-----------------------------------------------------------------------------
(* mlvpn_rtun_recv_data, first case: no reorder buffer, or the sender did  *)
(* not ask for reordering.                                                 *)
RecvUnordered(s, reorder) ==
    /\ size = 0 \/ ~reorder
    /\ Inject("direct", {s}, {s})
    /\ UNCHANGED <<optSize, size, init, minSeq, held, ring, timer, last>>

(* No entry is left in the free list: the packet is injected at once.      *)
RecvPoolFull(s) ==
    /\ size > 0
    /\ Used(held) = Entries
    /\ Inject("direct", {s}, {s})
    /\ UNCHANGED <<optSize, size, init, minSeq, held, ring, timer, last>>

(* Mutant: the window starts again at each packet.                         *)
BaseAlwaysNew(s) == s

(* The first sequence number after a reset is where the window starts.     *)
Base(s) == IF init THEN minSeq ELSE s

(* mlvpn_reorder_insert returns -2: the packet is injected at once, and    *)
(* the entry it was copied to stays in the used list.                      *)
RecvOutOfRange(s, e) ==
    /\ size > 0
    /\ held[e] = NoPkt
    /\ Dist(Base(s), s) >= 2 * size
    /\ held' = [held EXCEPT ![e] = s]
    /\ Inject("direct", {s}, {s})
    /\ UNCHANGED <<optSize, size, init, minSeq, ring, timer, last>>

(* Mutant: one place too few.                                              *)
ForcedShort(k) == IF k < size THEN 0 ELSE k - size

(* How far a packet k places into the window makes the window move at      *)
(* least: fill_overflow's n.                                               *)
Forced(k) == IF k < size THEN 0 ELSE k + 1 - size

(* fill_overflow finds no room in ready_buf.  With a size of 1 that buffer *)
(* is always full; larger ones have room for whatever the ring holds.      *)
NoRoom(k) == size = 1 /\ k = 1

(* mlvpn_reorder_insert returns -1: the ring is reset and the pool flushed,*)
(* the new packet included.                                                *)
RecvNoRoom(s, e) ==
    /\ size > 0
    /\ held[e] = NoPkt
    /\ NoRoom(Dist(Base(s), s))
    /\ Inject("flush", Packets(held, Used(held)) \cup {s}, {s})
    /\ held' = [f \in Entries |-> NoPkt]
    /\ timer' = FALSE
    /\ ResetRing
    /\ UNCHANGED <<optSize, size>>

(* Mutant: the timer runs while the ring, not the pool, has packets.       *)
TimerFollowsRing == timer' = (ring' # {})

(* The timer after an ordered drain: stopped by mlvpn_rtun_reorder_drain   *)
(* when the used list is empty, (re)started by recv_data when it is not.   *)
(* Its period is never 0 here: mlvpn_rtun_adjust_reorder_timeout sets it   *)
(* in the first iteration of the event loop.                               *)
DrainTimer == timer' = (Used(held') # {})

(* mlvpn_reorder_insert returns 0 and mlvpn_rtun_reorder_drain(1) follows: *)
(* the window gives up the gaps it must to make room for s, then moves on  *)
(* over every packet that is next in sequence; the packets it passes are   *)
(* injected and their entries freed.  An entry whose slot s takes over     *)
(* (another copy of s) leaves the ring but not the used list.              *)
RecvInsert(s, e) ==
    LET base == Base(s)
        h    == [held EXCEPT ![e] = s]
        kept == {f \in ring : held[f] # s} \cup {e}
        pos(f) == Dist(base, h[f])
        filled(j) == \E f \in kept : pos(f) = j
        n    == Forced(Dist(base, s))
    IN  /\ size > 0
        /\ held[e] = NoPkt
        /\ Dist(base, s) < 2 * size
        /\ ~NoRoom(Dist(base, s))
        /\ \E adv \in n .. 2 * size :
             /\ ~filled(adv)
             /\ \A j \in n .. adv - 1 : filled(j)
             /\ LET released == {f \in kept : pos(f) < adv}
                IN  /\ minSeq' = Plus(base, adv)
                    /\ ring' = kept \ released
                    /\ held' = [f \in Entries |->
                                   IF f \in released THEN NoPkt ELSE h[f]]
                    /\ Inject("ring", Packets(h, released), {s})
                    /\ \/ released = {} /\ last' = last
                       \/ \E f \in released :
                             /\ \A g \in released : pos(g) <= pos(f)
                             /\ last' = h[f]
        /\ init' = TRUE
        /\ DrainTimer
        /\ UNCHANGED <<optSize, size>>

Recv(s, reorder) ==
    \/ RecvUnordered(s, reorder)
    \/ /\ reorder
       /\ \/ RecvPoolFull(s)
          \/ \E e \in Entries : RecvOutOfRange(s, e)
          \/ \E e \in Entries : RecvNoRoom(s, e)
          \/ \E e \in Entries : RecvInsert(s, e)

(* Mutant: the timeout only releases what is in order, which is nothing.   *)
DrainTimeoutInOrder ==
    /\ timer
    /\ UNCHANGED vars

(* mlvpn_rtun_reorder_drain_timeout: the missing packets did not come.     *)
DrainTimeout ==
    /\ timer
    /\ FlushPool
    /\ UNCHANGED <<optSize, size>>

(* mlvpn_rtun_status_down of a connected tunnel, or mlvpn_rtun_status_up   *)
(* of the first one: what is held is flushed.                              *)
TunnelChange ==
    /\ size > 0
    /\ FlushPool
    /\ UNCHANGED <<optSize, size>>

(* mlvpn_config on SIGHUP: a new non-zero size replaces the ring by an     *)
(* empty one (the pool keeps its packets), a size of 0 leaves the ring as  *)
(* it is.  Restarting or removing a connected tunnel in the same reload    *)
(* flushes as TunnelChange does.                                           *)
Reload(n, restart) ==
    /\ n # optSize
    /\ optSize' = n
    /\ size' = IF n = 0 THEN size ELSE n
    /\ IF restart /\ size' > 0 THEN FlushPool
       ELSE /\ Inject("none", {}, {})
            /\ UNCHANGED <<held, timer>>
            /\ IF n = 0 THEN UNCHANGED <<init, minSeq, ring, last>> ELSE ResetRing

Next ==
    \/ \E s \in Sent, reorder \in BOOLEAN : Recv(s, reorder)
    \/ DrainTimeout
    \/ TunnelChange
    \/ \E n \in Sizes \cup {0}, restart \in BOOLEAN : Reload(n, restart)

Spec == Init /\ [][Next]_vars

(* libev fires a timer that stays armed.                                   *)
FairSpec == Spec /\ WF_vars(DrainTimeout)

-----------------------------------------------------------------------------
(* Nothing received is lost: a packet that has not reached tuntap yet is   *)
(* in the used list of the pool, where the next forced drain finds it,     *)
(* whatever duplicates, forced window moves, resizes and resets did to the *)
(* pointers of the ring.                                                   *)
NoLoss == \A s \in owed : \E e \in Entries : held[e] = s

(* While a packet waits in the reorder buffer the drain timer runs, so the *)
(* wait is bounded even if no packet ever comes again.                     *)
TimerCoversOwed == owed # {} => timer

(* Between two handlers the slot of the next expected packet is empty, the *)
(* ring only points to entries of the used list (mlvpn_freebuffer_free     *)
(* would stop the process otherwise), each entry sits where its sequence   *)
(* number says, and no two entries hold the same one.                      *)
RingSound ==
    /\ \A e \in ring : held[e] # NoPkt /\ Dist(minSeq, held[e]) \in 1 .. size - 1
    /\ \A e, f \in ring : held[e] = held[f] => e = f
    /\ ring # {} => init

(* b comes after a, in the sense of the wrapping sequence numbers.         *)
After(a, b) == a # b /\ 2 * Dist(a, b) < SeqSpace

(* What the ring releases comes after everything it released since it was  *)
(* last reset: the purpose of the reorder buffer.                          *)
InOrder ==
    [][out'.via = "ring" /\ last # NoPkt =>
          \A s \in out'.pkts : After(last, s)]_vars

(* A forced drain injects packets that are still waiting, none that the    *)
(* handler of its arrival has already injected: a packet that comes too    *)
(* late for the window is injected as it is, and only then.                *)
FlushedOnce == [][DrainTimeout \/ TunnelChange => out'.pkts \subseteq owed]_vars

Arrival == \E s \in Sent, reorder \in BOOLEAN : Recv(s, reorder)

(* Every packet received reaches the tuntap send buffer, unless packets    *)
(* arrive for ever: each that is stored restarts the drain timer.          *)
Delivered == <>[][~Arrival]_vars => \A s \in Sent : s \in owed ~> s \notin owed

=============================================================================
