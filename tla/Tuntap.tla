-------------------------------- MODULE Tuntap --------------------------------
(***************************************************************************)
(* The circular packet buffer (buffer.c) on its indices, as the queue of   *)
(* packets for the tuntap device: mlvpn_rtun_inject_tuntap fills it, the   *)
(* write watcher of the device empties it.                                 *)
(*                                                                         *)
(* The send buffers of a tunnel are such buffers too; Peers has them as    *)
(* bounded sequences, which is what is shown here.                         *)
(***************************************************************************)
EXTENDS Integers, Sequences

CONSTANTS
    BufSize,   \* PKTBUFSIZE
    Pkts,      \* packets
    Blank      \* a packet as mlvpn_pktbuffer_init allocates it

ASSUME BufSizeAssumption == BufSize \in Nat \ {0}

VARIABLES
    sbuf,      \* tuntap.sbuf
    tunWrite,  \* tuntap.io_write is active
    queue      \* history: the packets that should wait

tuntapVars == <<sbuf, tunWrite, queue>>

-----------------------------------------------------------------------------
(* mlvpn_cb_init: one slot more than asked for.                            *)
CbSize == BufSize + 1
Slots == 0 .. BufSize

(* One slot further.                                                       *)
After(i) == (i + 1) % CbSize

CbIsEmpty(b) == b.end = b.start

(* Mutant: the oldest packet is not given up.                              *)
CbWriteKeepsStart(b, p) ==
    [b EXCEPT !.pkts = [@ EXCEPT ![b.end] = p], !.end = After(b.end)]

(* mlvpn_cb_write and the packet that is put into the slot: a full buffer  *)
(* gives up its oldest one.                                                *)
CbWrite(b, p) ==
    [start |-> IF After(b.end) = b.start THEN After(b.start) ELSE b.start,
     end |-> After(b.end),
     pkts |-> [b.pkts EXCEPT ![b.end] = p]]

(* mlvpn_cb_read: the buffer without its oldest packet.                    *)
CbRead(b) == [b EXCEPT !.start = After(b.start)]

-----------------------------------------------------------------------------
(* What the buffer stands for: a queue that loses its oldest packet.       *)
Newest(q, p) == IF Len(q) < BufSize THEN Append(q, p) ELSE Append(Tail(q), p)

(* mlvpn_pktbuffer_init                                                    *)
NewBuf == [start |-> 0, end |-> 0, pkts |-> [i \in Slots |-> Blank]]

TuntapInit ==
    /\ sbuf = NewBuf
    /\ tunWrite = FALSE
    /\ queue = <<>>

(* mlvpn_rtun_inject_tuntap                                                *)
InjectTuntap(p) ==
    /\ sbuf' = CbWrite(sbuf, p)
    /\ tunWrite' = TRUE
    /\ queue' = Newest(queue, p)

(* mlvpn_tuntap_write: the oldest packet leaves the buffer, whatever       *)
(* becomes of it.                                                          *)
TuntapWrite ==
    /\ sbuf' = CbRead(sbuf)
    /\ queue' = Tail(queue)

(* Mutant: the watcher is stopped before the packet is read.               *)
TuntapIoEventEarly ==
    /\ tunWrite /\ TuntapWrite
    /\ tunWrite' = ~CbIsEmpty(sbuf)

(* tuntap_io_event for a device that can be written to.                    *)
TuntapIoEvent ==
    /\ tunWrite /\ TuntapWrite
    /\ tunWrite' = ~CbIsEmpty(CbRead(sbuf))

TuntapNext == TuntapIoEvent \/ \E p \in Pkts : InjectTuntap(p)

-----------------------------------------------------------------------------
(* The buffer has its shape and the queue fits into it.                    *)
TuntapTypeOK ==
    /\ sbuf \in [start : Slots, end : Slots, pkts : [Slots -> Pkts \cup {Blank}]]
    /\ tunWrite \in BOOLEAN
    /\ queue \in Seq(Pkts)

(* From start to end lie the packets that wait, oldest first, however the  *)
(* indices have wrapped and whichever packets a full buffer gave up.       *)
HoldsNewest ==
    /\ Len(queue) = (sbuf.end - sbuf.start) % CbSize
    /\ \A i \in 1 .. Len(queue) : queue[i] = sbuf.pkts[(sbuf.start + i - 1) % CbSize]

(* The device is written to exactly while a packet waits: none is stuck,   *)
(* and mlvpn_tuntap_write, which ends the process when there is none, is   *)
(* never called in vain.                                                   *)
WriterHasWork == tunWrite <=> ~CbIsEmpty(sbuf)

=============================================================================
