-------------------------------- MODULE Wire --------------------------------
(***************************************************************************)
(* The header of a packet on one tunnel: the number and the timestamp      *)
(* mlvpn_rtun_send gives it, and what the receiver makes of them           *)
(* (mlvpn_protocol_read, mlvpn_loss_update, timestamp.c).                  *)
(*                                                                         *)
(* The vector of arrivals is the set of its bits that are 1.               *)
(***************************************************************************)
EXTENDS Integers, FiniteSets

CONSTANTS
    W,           \* bits of seq_vect: 64
    IntW,        \* bits of an int: 32
    TsMod,       \* number of timestamps: 65536
    Recent,      \* a timestamp is answered within 1000 ms
    MaxRtt,      \* a round trip is measured below 5000 ms
    MaxSeq,      \* bound: number of a packet
    MaxFlight    \* bound: packets under way

ASSUME WidthAssumption == W \in Nat /\ IntW \in 2 .. W

ASSUME SeqAssumption == MaxSeq \in Nat

ASSUME TimeAssumption == TsMod \in Nat /\ Recent \in Nat \ {0} /\ MaxRtt \in 0 .. TsMod - 1

VARIABLES
    seq,               \* tun->seq of the sender
    net,               \* packets under way
    vect, seqLast,     \* tun->seq_vect, tun->seq_last of the receiver
    base,              \* history: numbers below it are taken for received
    arrived, heard,    \* history: numbers received; of these, in time to count
    undefined,         \* history: a shift was undefined
    trip               \* a round trip to check the measurement on

receiver == <<vect, seqLast, base, arrived, heard, undefined>>
wireVars == <<seq, net, receiver, trip>>

Bits == 0 .. W - 1

(* The milliseconds a timestamp is sent at, is under way, is held by the   *)
(* other side, and is under way back.                                      *)
Trips == [sent : 0 .. TsMod - 1, out : 0 .. MaxRtt, hold : 0 .. Recent, back : 0 .. MaxRtt]
NoTrip == [sent |-> 0, out |-> 0, hold |-> 0, back |-> 0]

WireInit ==
    /\ seq = 0 /\ net = {}
    /\ vect = Bits /\ seqLast = 0 /\ base = 1 /\ arrived = {} /\ heard = {}
    /\ undefined = FALSE
    /\ trip \in Trips

-----------------------------------------------------------------------------
(* mlvpn_rtun_send: every packet takes a number; it may be lost.           *)
SendPacket ==
    /\ seq < MaxSeq
    /\ seq' = seq + 1
    /\ \/ UNCHANGED net
       \/ Cardinality(net) < MaxFlight /\ net' = net \cup {seq}
    /\ UNCHANGED <<receiver, trip>>

(* The sender restarts and numbers from 0 again.                           *)
Restart ==
    /\ seq > 0 /\ seq' = 0
    /\ UNCHANGED <<net, receiver, trip>>

-----------------------------------------------------------------------------
(* vect << n and what is defined of it.                                    *)
Shifted(n) == {b + n : b \in vect} \cap Bits

(* 1 << n as an int, widened: bit n below the sign; undefined from there,  *)
(* where a build sets all from the sign, wraps the shift, or sets none.    *)
IntBit(n) ==
    IF n < IntW - 1 THEN {{n}}
    ELSE {{n % IntW}, IntW - 1 .. W - 1, {}}

(* mlvpn_loss_update: far ahead,                                           *)
LossReset(s) ==
    /\ s > seqLast + W
    /\ vect' = Bits /\ seqLast' = s /\ base' = s
    /\ heard' = heard \cup {s}
    /\ UNCHANGED undefined

(* Mutant: the vector is shifted by one, whatever was skipped.             *)
LossNewerByOne(s) ==
    /\ seqLast < s /\ s <= seqLast + W
    /\ vect' = Shifted(1) \cup {0}
    /\ seqLast' = s
    /\ heard' = heard \cup {s}
    /\ undefined' = (undefined \/ s - seqLast = W)
    /\ UNCHANGED base

(* Mutant: the bit of the packet itself is not set.                        *)
LossNewerUnset(s) ==
    /\ seqLast < s /\ s <= seqLast + W
    /\ vect' = Shifted(s - seqLast)
    /\ seqLast' = s
    /\ heard' = heard \cup {s}
    /\ undefined' = (undefined \/ s - seqLast = W)
    /\ UNCHANGED base

(* newer; a shift by all the bits is undefined and may leave them as they  *)
(* are,                                                                    *)
LossNewer(s) ==
    /\ seqLast < s /\ s <= seqLast + W
    /\ vect' \in {v \cup {0} : v \in IF s - seqLast = W THEN {vect, {}} ELSE {Shifted(s - seqLast)}}
    /\ seqLast' = s
    /\ heard' = heard \cup {s}
    /\ undefined' = (undefined \/ s - seqLast = W)
    /\ UNCHANGED base

(* late,                                                                   *)
LossLate(s) ==
    LET n == seqLast - s
    IN  /\ s <= seqLast /\ seqLast >= W - 1 /\ n < W
        /\ vect' \in {vect \cup b : b \in IntBit(n)}
        /\ undefined' = (undefined \/ n >= IntW - 1)
        /\ heard' = heard \cup {s}
        /\ UNCHANGED <<seqLast, base>>

(* or too late: seq_last - 63 wraps below 63, and then nothing is late.    *)
LossIgnored(s) ==
    /\ s <= seqLast /\ (seqLast < W - 1 \/ seqLast - s >= W)
    /\ UNCHANGED <<vect, seqLast, base, heard, undefined>>

(* mlvpn_protocol_read; the network may deliver a packet again.            *)
Receive(s) ==
    /\ LossReset(s) \/ LossNewer(s) \/ LossLate(s) \/ LossIgnored(s)
    /\ arrived' = arrived \cup {s}
    /\ net' \in {net, net \ {s}}
    /\ UNCHANGED <<seq, trip>>

WireNext == SendPacket \/ Restart \/ \E s \in net : Receive(s)

-----------------------------------------------------------------------------
(* mlvpn_timestamp16: the last value means none.                           *)
None == TsMod - 1
Timestamp16(now) == IF now % TsMod = None THEN 0 ELSE now % TsMod

(* Mutant: a difference below 0 is not corrected.                          *)
Timestamp16DiffRaw(new, old) == IF new < old THEN old - new ELSE new - old

Timestamp16Diff(new, old) == IF new < old THEN new - old + TsMod ELSE new - old

(* The timestamp_reply the other side sends after hold,                    *)
TimestampReply(ts, hold) == IF hold < Recent THEN (ts + hold) % TsMod ELSE None

(* and what this one measures when it comes; None if nothing.              *)
Measured(r) ==
    LET reply == TimestampReply(Timestamp16(r.sent), r.hold)
        rtt == Timestamp16Diff(Timestamp16(r.sent + r.out + r.hold + r.back), reply)
    IN  IF reply # None /\ rtt < MaxRtt THEN rtt ELSE None

-----------------------------------------------------------------------------
(* Numbers and bits stay in their ranges.                                  *)
WireTypeOK ==
    /\ seq \in 0 .. MaxSeq /\ net \subseteq 0 .. MaxSeq
    /\ vect \subseteq Bits /\ seqLast \in 0 .. MaxSeq /\ base \in Nat
    /\ arrived \subseteq 0 .. MaxSeq /\ heard \subseteq 0 .. MaxSeq /\ undefined \in BOOLEAN

(* A bit that is 1 is a packet that came, or one before the receiver began *)
(* to count: a loss is never hidden while all shifts are defined, however  *)
(* packets are lost, repeated or late and the sender restarts.             *)
NoLossHidden ==
    ~undefined => \A b \in vect : seqLast - b < base \/ seqLast - b \in arrived

(* A packet that came in time is not taken for lost.                       *)
HeardCounted ==
    ~undefined => \A n \in heard : n <= seqLast /\ seqLast - n < W => seqLast - n \in vect

(* A measured round trip is the time under way, without what the other     *)
(* side held the timestamp for, to the millisecond the reserved value      *)
(* costs, across the wrap of the timestamps.                               *)
RttRight ==
    LET rtt == Measured(trip) - (trip.out + trip.back)
    IN  Measured(trip) # None /\ trip.out + trip.back < TsMod - 1 => rtt \in {-1, 0, 1}

=============================================================================
