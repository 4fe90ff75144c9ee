------------------------------ MODULE RecvPath ------------------------------
(***************************************************************************)
(* The receive side in detail: mlvpn_rtun_recv_data and                    *)
(* mlvpn_rtun_reorder_drain (mlvpn.c) on the rings of ReorderRing and on   *)
(* the free and used lists of the pool (freebuffer, buffer.c).  It         *)
(* implements module Reorder.                                              *)
(***************************************************************************)
EXTENDS Integers, Sequences, Functions, ReorderRing

CONSTANTS
    Pool,   \* the pool entries, in the order of the initial free list
    Sizes,  \* values of reorder_buffer_size the configuration may give, 0 apart
    Sent    \* the sequence numbers of the packets that may arrive

Seqs == 0 .. SeqSpace - 1
Entries == Range(Pool)

(* main makes 512 entries, fewer than mlvpn_rtun_reorder_drain has room    *)
(* for.                                                                    *)
ASSUME PoolAssumption ==
    /\ Pool \in Seq(Entries) /\ IsInjective(Pool) /\ NoPkt \notin Entries
    /\ MaxDrain \in Nat /\ Len(Pool) <= MaxDrain

ASSUME SizesAssumption == Sizes \subseteq Nat \ {0}

(* A sequence number is far wider than any window.                         *)
ASSUME SeqSpaceAssumption == SeqSpace \in Nat \ {0} /\ \A n \in Sizes : 8 * n <= SeqSpace

ASSUME SentAssumption == Sent \subseteq Seqs /\ NoPkt \notin Seqs

(* For every size a masked position is one of the buffer, and a head that  *)
(* starts at 0 goes round: through c places, 2^j of them when size - 1     *)
(* ends in j ones.                                                         *)
ASSUME AndAssumption ==
    \A n \in Sizes :
       /\ \A x \in 0 .. 2 * SeqSpace : BitAnd(x, n - 1) \in 0 .. n - 1
       /\ \E c \in 1 .. n : \A x \in 0 .. c - 1 : BitAnd(x + 1, n - 1) = (x + 1) % c

VARIABLES
    optSize,  \* mlvpn_options.reorder_buffer_size
    buf,      \* *reorder_buffer; its size is 0 while reorder_buffer is NULL
    free,     \* freebuf->free_head, first entry first
    used,     \* freebuf->used_head, first entry first; freebuf->used is its length
    pkt,      \* the packet copied into each used entry
    timer,    \* ev_is_active(&reorder_drain_timeout)
    fatal,    \* mlvpn_freebuffer_free did not find an entry: the process stops
    last,     \* history: the packet the ring released last, since its reset
    owed,     \* history: packets received and not injected into tuntap since
    out       \* history: what the last handler injected, in order, and from where

vars == <<optSize, buf, free, used, pkt, timer, fatal, last, owed, out>>

Init ==
    /\ optSize \in Sizes \cup {0}
    /\ buf = NewRing(optSize)
    /\ free = Pool
    /\ used = <<>>
    /\ pkt = [e \in Entries |-> NoPkt]
    /\ timer = FALSE
    /\ fatal = FALSE
    /\ last = NoPkt
    /\ owed = {}
    /\ out = [via |-> "none", pkts |-> <<>>]

-----------------------------------------------------------------------------
(* Entries that move to the head of a list one after the other.            *)
Reversed(s) == [i \in 1 .. Len(s) |-> s[Len(s) - i + 1]]

(* The entries of a list that are not in S, in their order.                *)
Without(u, S) ==
    LET upTo[k \in 0 .. Len(u)] ==
          IF k = 0 THEN <<>>
          ELSE IF u[k] \in S THEN upTo[k - 1]
          ELSE Append(upTo[k - 1], u[k])
    IN  upTo[Len(u)]

(* The packets a handler hands to mlvpn_rtun_inject_tuntap, in order.      *)
Inject(via, s, received) ==
    /\ out' = [via |-> via, pkts |-> s]
    /\ owed' = (owed \cup received) \ Range(s)

(* mlvpn_rtun_reorder_drain(0) with free list f, used list u and p being   *)
(* the packets in the entries: mlvpn_freebuffer_drain_used until the list  *)
(* is empty, each packet injected and each entry moved to the head of the  *)
(* free list; then the ring is reset and the timer stopped.                *)
ForcedDrain(f, u, p, b, received) ==
    /\ Inject("flush", [i \in 1 .. Len(u) |-> p[u[i]]], received)
    /\ free' = Reversed(u) \o f
    /\ used' = <<>>
    /\ pkt' = [e \in Entries |-> NoPkt]
    /\ buf' = NewRing(b.size)
    /\ timer' = FALSE
    /\ last' = NoPkt

(* mlvpn_rtun_reorder_drain(1): what mlvpn_reorder_drain returns is        *)
(* injected, and mlvpn_freebuffer_free moves each entry from the used list *)
(* to the head of the free list, or stops the process if it is not there.  *)
OrderedDrain(f, u, p, b, received) ==
    LET drained == Drain(b).pkts
        found   == Range(drained) \subseteq Range(u) /\ IsInjective(drained)
        pkts    == [i \in 1 .. Len(drained) |-> p[drained[i]]]
    IN  /\ Inject("ring", pkts, received)
        /\ buf' = Drain(b).ring
        /\ free' = Reversed(drained) \o f
        /\ used' = Without(u, Range(drained))
        /\ pkt' = [e \in Entries |-> IF e \in Range(drained) THEN NoPkt ELSE p[e]]
        /\ fatal' = ~found
        /\ last' = IF drained = <<>> THEN last ELSE pkts[Len(pkts)]

-----------------------------------------------------------------------------
(* mlvpn_rtun_recv_data.  No reorder buffer, or the sender did not ask for *)
(* reordering.                                                             *)
RecvUnordered(s, reorder) ==
    /\ buf.size = 0 \/ ~reorder
    /\ Inject("direct", <<s>>, {s})
    /\ UNCHANGED <<optSize, buf, free, used, pkt, timer, fatal, last>>

(* mlvpn_freebuffer_get returns NULL.                                      *)
RecvPoolFull(s) ==
    /\ buf.size > 0
    /\ free = <<>>
    /\ Inject("direct", <<s>>, {s})
    /\ UNCHANGED <<optSize, buf, free, used, pkt, timer, fatal, last>>

(* The lists and the packets after mlvpn_freebuffer_get and the copy of s. *)
GotUsed == Append(used, Head(free))
Copied(s) == [pkt EXCEPT ![Head(free)] = s]

(* mlvpn_reorder_insert returns 0: drain, then run the timer if anything   *)
(* is left in the pool.                                                    *)
RecvInserted(s) ==
    /\ buf.size > 0
    /\ free # <<>>
    /\ LET res == Insert(buf, Head(free), s)
       IN  /\ res.ret = 0
           /\ OrderedDrain(Tail(free), GotUsed, Copied(s), res.ring, {s})
    /\ timer' = (used' # <<>>)
    /\ UNCHANGED optSize

(* It returns -1: the ring is reset and the whole pool drained.            *)
RecvNoRoom(s) ==
    /\ buf.size > 0
    /\ free # <<>>
    /\ Insert(buf, Head(free), s).ret = -1
    /\ ForcedDrain(Tail(free), GotUsed, Copied(s), buf, {s})
    /\ UNCHANGED <<optSize, fatal>>

(* It returns -2: the packet is injected and the handler returns.          *)
RecvOutOfRange(s) ==
    /\ buf.size > 0
    /\ free # <<>>
    /\ LET res == Insert(buf, Head(free), s)
       IN  /\ res.ret = -2
           /\ buf' = res.ring
    /\ free' = Tail(free)
    /\ used' = GotUsed
    /\ pkt' = Copied(s)
    /\ Inject("direct", <<s>>, {s})
    /\ UNCHANGED <<optSize, timer, fatal, last>>

Recv(s, reorder) ==
    /\ ~fatal
    /\ \/ RecvUnordered(s, reorder)
       \/ reorder /\ RecvPoolFull(s)
       \/ reorder /\ RecvInserted(s)
       \/ reorder /\ RecvNoRoom(s)
       \/ reorder /\ RecvOutOfRange(s)

(* mlvpn_rtun_reorder_drain_timeout                                        *)
DrainTimeout ==
    /\ timer /\ ~fatal
    /\ ForcedDrain(free, used, pkt, buf, {})
    /\ UNCHANGED <<optSize, fatal>>

(* mlvpn_rtun_status_down of a connected tunnel, mlvpn_rtun_status_up of   *)
(* the first one.                                                          *)
TunnelChange ==
    /\ buf.size > 0 /\ ~fatal
    /\ ForcedDrain(free, used, pkt, buf, {})
    /\ UNCHANGED <<optSize, fatal>>

(* mlvpn_config on SIGHUP with a new reorder_buffer_size; restart: it also *)
(* takes a connected tunnel down.                                          *)
Reload(n, restart) ==
    /\ n # optSize /\ ~fatal
    /\ optSize' = n
    /\ LET b == IF n = 0 THEN buf ELSE NewRing(n)
       IN  IF restart /\ b.size > 0
           THEN ForcedDrain(free, used, pkt, b, {})
           ELSE /\ buf' = b
                /\ last' = IF n = 0 THEN last ELSE NoPkt
                /\ Inject("none", <<>>, {})
                /\ UNCHANGED <<free, used, pkt, timer>>
    /\ UNCHANGED fatal

Next ==
    \/ \E s \in Sent, reorder \in BOOLEAN : Recv(s, reorder)
    \/ DrainTimeout
    \/ TunnelChange
    \/ \E n \in Sizes \cup {0}, restart \in BOOLEAN : Reload(n, restart)

Spec == Init /\ [][Next]_vars

-----------------------------------------------------------------------------
(* The rings, the masks, the loops and the lists do what module Reorder    *)
(* says with sets and distances.                                           *)
Window == INSTANCE Reorder WITH
    size   <- buf.size,
    init   <- buf.init,
    minSeq <- buf.min,
    held   <- pkt,
    ring   <- {buf.order[i] : i \in DOMAIN buf.order} \ {NoPkt},
    out    <- [via |-> out.via, pkts |-> Range(out.pkts)]

Refines == Window!Spec

(* Every pointer the ring returns is in the used list exactly once:        *)
(* mlvpn_freebuffer_free never stops the process ("could not find the      *)
(* packet you gave me").                                                   *)
NeverFatal == ~fatal

(* Between two handlers every entry is in exactly one list, and ready_buf  *)
(* is empty (fill_overflow relies on it to have room).                     *)
PoolSound ==
    /\ IsInjective(free \o used)
    /\ Range(free) \cup Range(used) = Entries
    /\ buf.rhead = buf.rtail

(* One handler's worth of packets from the ring, in the order they reach   *)
(* tuntap, each after the one before and all after the last release.       *)
ReleasedInOrder ==
    [][LET line == (IF last = NoPkt THEN <<>> ELSE <<last>>) \o out'.pkts
       IN  out'.via = "ring" =>
              \A i \in 1 .. Len(line) - 1 : Window!After(line[i], line[i + 1])]_vars

(* A packet that fits in the window never makes the ring give up a gap:    *)
(* what it releases is the expected packet and the ones that follow it     *)
(* without a hole, up to the first one missing.  So packets that follow a  *)
(* missing one are held, up to the size the configuration gives.           *)
HoldsForGap ==
    [][\A s \in Sent :
          /\ buf.init /\ RecvInserted(s)
          /\ Window!Dist(buf.min, s) < buf.size
          => out'.pkts = [i \in DOMAIN out'.pkts |-> Window!Plus(buf.min, i - 1)]]_vars

=============================================================================
