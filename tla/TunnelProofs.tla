---------------------------- MODULE TunnelProofs ----------------------------
(***************************************************************************)
(* Proofs about the tunnels as they speak to each other (module Peers) and *)
(* as the configuration makes them (module Config).                        *)
(*                                                                         *)
(* Peers: for every capacity of the buffers and every timeout, a tunnel    *)
(* that is not connected holds nothing but challenges, and the watcher of  *)
(* a tunnel with nothing to write is stopped.  Both are properties of one  *)
(* tunnel, so the invariant is a predicate on a tunnel (Good), and each    *)
(* helper that computes a new tunnel preserves it.                         *)
(*                                                                         *)
(* Config: for all files, what a load leaves does not depend on the loads  *)
(* before it.  A load from any daemon is followed next to one from none    *)
(* (Along): line by line the two agree on the sections read so far.        *)
(***************************************************************************)
EXTENDS Peers, Config, WellFoundedInduction, TLAPS

-----------------------------------------------------------------------------
(* The two ends of a tunnel.                                               *)

Fits(t) == Len(t.hps) <= HpsSize /\ Len(t.sbuf) <= SbufSize

Quiet(p, t) ==
    t.status # "AUTHOK" =>
        /\ t.sbuf = <<>>
        /\ \A i \in DOMAIN t.hps : p = "client" /\ t.hps[i] = "AUTH"

Busy(t) == t.watch => t.hps # <<>> \/ t.sbuf # <<>>

Good(p, t) == t \in Tunnel /\ Fits(t) /\ Quiet(p, t) /\ Busy(t)

(* Where the count of silent seconds starts.                               *)
LEMMA ZeroInRange == 0 \in 0 .. Timeout
  BY TimeoutAssumption

(* mlvpn_rtun_new makes a tunnel, and a good one.                          *)
LEMMA FreshTunnel == New \in Tunnel
  BY TimeoutAssumption DEF New, Tunnel

LEMMA NewGood == ASSUME NEW p PROVE Good(p, New)
<1>1. New \in Tunnel
  BY FreshTunnel
<1>2. QED
  BY <1>1, SizesAssumption DEF New, Good, Fits, Quiet, Busy

(* mlvpn_rtun_status_down leaves a good tunnel, whatever it was.           *)
LEMMA DownGood == ASSUME NEW p, NEW t \in Tunnel PROVE Good(p, StatusDown(t))
<1>1. StatusDown(t) \in Tunnel
  BY FreshTunnel, ZenonT(30) DEF StatusDown, Tunnel
<1>2. QED
  BY <1>1, SizesAssumption DEF New, StatusDown, Good, Fits, Quiet, Busy

(* mlvpn_rtun_status_up keeps a tunnel good.                               *)
LEMMA UpGood == ASSUME NEW p, NEW t, Good(p, t) PROVE Good(p, StatusUp(t))
<1>1. StatusUp(t) \in Tunnel
  BY ZeroInRange, ZenonT(30) DEF StatusUp, Good, Tunnel
<1>2. QED
  BY <1>1 DEF StatusUp, Good, Fits, Quiet, Busy, Tunnel

(* A buffer written to is a buffer that fits and is not empty, and holds   *)
(* what it held and the new packet.                                        *)
LEMMA PutFits ==
    ASSUME NEW q \in Seq(Type), NEW size \in Nat \ {0}, Len(q) <= size, NEW m \in Type
    PROVE  /\ Put(q, size, m) \in Seq(Type)
           /\ Put(q, size, m) # <<>>
           /\ Len(Put(q, size, m)) <= size
           /\ \A x : (\A i \in DOMAIN q : q[i] = x) /\ m = x
                        => \A i \in DOMAIN Put(q, size, m) : Put(q, size, m)[i] = x
<1>1. CASE Len(q) < size
  BY <1>1 DEF Put
<1>2. CASE ~(Len(q) < size)
  BY <1>2 DEF Put
<1>3. QED
  BY <1>1, <1>2

(* The last packet is the only one whose departure empties a buffer.       *)
LEMMA TailLeft == ASSUME NEW q \in Seq(Type), Len(q) > 1 PROVE Tail(q) # <<>>
<1>1. Len(Tail(q)) >= 1
  OBVIOUS
<1>2. Len(<<>>) = 0 /\ ~(0 >= 1)
  OBVIOUS
<1>3. QED
  BY <1>1, <1>2, Zenon

(* A buffer with a packet added to it is not empty.                        *)
LEMMA AppendGrows ==
    ASSUME NEW q \in Seq(Type), NEW m \in Type
    PROVE  Append(q, m) \in Seq(Type) /\ Append(q, m) # <<>> /\ Len(Append(q, m)) = Len(q) + 1
<1>1. Append(q, m) \in Seq(Type) /\ Len(Append(q, m)) = Len(q) + 1 /\ Len(Append(q, m)) >= 1
  OBVIOUS
<1>2. Len(<<>>) = 0 /\ ~(0 >= 1)
  OBVIOUS
<1>3. QED
  BY <1>1, <1>2, Zenon

(* mlvpn_rtun_send: the packet leaves, and the watcher stops with the last *)
(* one of the buffer.                                                      *)
LEMMA SendGood ==
    ASSUME NEW p, NEW t, Good(p, t), NEW b \in {"hps", "sbuf"}, t[b] # <<>>,
           NEW result \in Result
    PROVE  Good(p, Send(t, b, result))
<1>1. CASE result = "error"
  BY <1>1, DownGood DEF Good, Send
<1>2. CASE result # "error" /\ b = "hps"
  <2> DEFINE u == Send(t, "hps", result)
  <2>1. Tail(t.hps) \in Seq(Type) /\ (t.watch /\ Len(t.hps) > 1) \in BOOLEAN
    BY <1>2 DEF Good, Tunnel
  <2>2. u = [t EXCEPT !.hps = Tail(t.hps), !.watch = t.watch /\ Len(t.hps) > 1]
    BY <1>2, Zenon DEF Send, Good, Tunnel
  <2>3. u \in Tunnel
    BY <2>1, <2>2, ZenonT(30) DEF Good, Tunnel
  <2>4. /\ u.hps = Tail(t.hps) /\ u.sbuf = t.sbuf /\ u.status = t.status
        /\ u.watch => Len(t.hps) > 1
    BY <2>2, ZenonT(30) DEF Good, Tunnel
  <2>5. t.hps \in Seq(Type) /\ t.hps # <<>> /\ Fits(t) /\ Quiet(p, t)
    BY <1>2, Zenon DEF Good, Tunnel
  <2> HIDE DEF u
  <2>6. Fits(u)
    BY <2>4, <2>5, SizesAssumption, SMTT(30) DEF Fits
  <2>7. Busy(u)
    BY <2>4, <2>5, TailLeft, Zenon DEF Busy
  <2>8. Quiet(p, u)
    BY <2>4, <2>5, SMTT(30) DEF Quiet
  <2>9. QED
    BY <1>2, <2>3, <2>6, <2>7, <2>8 DEF Good, u
<1>3. CASE result # "error" /\ b = "sbuf"
  <2> DEFINE u == Send(t, "sbuf", result)
  <2>1. Tail(t.sbuf) \in Seq(Type) /\ (t.watch /\ Len(t.sbuf) > 1) \in BOOLEAN
    BY <1>3 DEF Good, Tunnel
  <2>2. u = [t EXCEPT !.sbuf = Tail(t.sbuf), !.watch = t.watch /\ Len(t.sbuf) > 1]
    BY <1>3, Zenon DEF Send, Good, Tunnel
  <2>3. u \in Tunnel
    BY <2>1, <2>2, ZenonT(30) DEF Good, Tunnel
  <2>4. /\ u.sbuf = Tail(t.sbuf) /\ u.hps = t.hps /\ u.status = t.status
        /\ u.watch => Len(t.sbuf) > 1
    BY <2>2, ZenonT(30) DEF Good, Tunnel
  <2>5. t.sbuf \in Seq(Type) /\ t.sbuf # <<>> /\ Fits(t) /\ Quiet(p, t)
    BY <1>3, Zenon DEF Good, Tunnel
  <2> HIDE DEF u
  <2>6. Fits(u)
    BY <2>4, <2>5, SizesAssumption, SMTT(30) DEF Fits
  <2>7. Busy(u)
    BY <2>4, <2>5, TailLeft, Zenon DEF Busy
  <2>8. Quiet(p, u)
    BY <2>4, <2>5, SMTT(30) DEF Quiet
  <2>9. QED
    BY <1>3, <2>3, <2>6, <2>7, <2>8 DEF Good, u
<1>4. QED
  BY <1>1, <1>2, <1>3

(* A connected tunnel whose buffers fit and are not both empty is good.    *)
LEMMA ConnectedGood ==
    ASSUME NEW p, NEW u \in Tunnel, Fits(u), u.status = "AUTHOK", u.hps # <<>> \/ u.sbuf # <<>>
    PROVE  Good(p, u)
  BY Zenon DEF Good, Quiet, Busy

(* mlvpn_rtun_send_keepalive of a connected tunnel; with a full buffer the *)
(* keepalive is left out.                                                  *)
LEMMA KeepaliveGood ==
    ASSUME NEW p, NEW t \in Tunnel, Fits(t), t.status = "AUTHOK"
    PROVE  Good(p, SendKeepalive(t))
<1> DEFINE q == IF Len(t.hps) < HpsSize THEN Append(t.hps, "KEEPALIVE") ELSE t.hps
           u == SendKeepalive(t)
<1>1. t.hps \in Seq(Type) /\ "KEEPALIVE" \in Type
  BY Zenon DEF Tunnel, Type, Control
<1>2. q \in Seq(Type) /\ q # <<>> /\ Len(q) <= HpsSize
  <2>1. CASE Len(t.hps) < HpsSize
    <3>1. /\ Append(t.hps, "KEEPALIVE") \in Seq(Type) /\ Append(t.hps, "KEEPALIVE") # <<>>
          /\ Len(Append(t.hps, "KEEPALIVE")) = Len(t.hps) + 1
      BY <1>1, AppendGrows
    <3>2. q = Append(t.hps, "KEEPALIVE")
      BY <2>1
    <3>3. Len(t.hps) + 1 <= HpsSize
      BY <1>1, <2>1, SizesAssumption
    <3>4. QED
      BY <3>1, <3>2, <3>3, Zenon
  <2>2. CASE ~(Len(t.hps) < HpsSize)
    <3>1. t.hps # <<>>
      BY <1>1, <2>2, SizesAssumption
    <3>2. QED
      BY <1>1, <2>2, <3>1, Zenon DEF Fits
  <2>3. QED
    BY <2>1, <2>2
<1>3. u = [t EXCEPT !.hps = q, !.due = FALSE]
  BY Zenon DEF SendKeepalive, Tunnel
<1> HIDE DEF q, u
<1>4. u \in Tunnel
  BY <1>2, <1>3, ZenonT(30) DEF Tunnel
<1>5. u.hps = q /\ u.sbuf = t.sbuf /\ u.status = t.status
  BY <1>3, ZenonT(30) DEF Tunnel
<1>6. Fits(u)
  BY <1>2, <1>5 DEF Fits
<1>7. QED
  BY <1>2, <1>4, <1>5, <1>6, ConnectedGood DEF u

(* mlvpn_tuntap_generic_read: a packet is put in one of the buffers.       *)
LEMMA TuntapGood ==
    ASSUME NEW p, NEW t, Good(p, t), t.status = "AUTHOK",
           NEW b \in {"hps", "sbuf"},
           NEW size, size = IF b = "hps" THEN HpsSize ELSE SbufSize
    PROVE  Good(p, [t EXCEPT ![b] = Put(@, size, "DATA"), !.watch = TRUE])
<1> DEFINE q == Put(t[b], size, "DATA")
           u == [t EXCEPT ![b] = q, !.watch = TRUE]
<1>1. /\ t \in Tunnel /\ Fits(t)
      /\ t[b] \in Seq(Type) /\ t[b] \in {t.hps, t.sbuf} /\ "DATA" \in Type
  BY Zenon DEF Good, Tunnel, Type
<1>2. q \in Seq(Type) /\ q # <<>> /\ Len(q) <= size
  <2>1. size \in Nat \ {0} /\ Len(t[b]) <= size
    BY <1>1, SizesAssumption DEF Fits
  <2>2. QED
    BY <1>1, <2>1, PutFits, Zenon
<1>3. [t EXCEPT ![b] = Put(@, size, "DATA"), !.watch = TRUE] = u
  BY <1>1, Zenon DEF Tunnel
<1> HIDE DEF q
<1>4. CASE b = "hps"
  <2>1. u \in Tunnel
    BY <1>1, <1>2, <1>4, ZenonT(30) DEF Tunnel
  <2>2. u.hps = q /\ u.sbuf = t.sbuf /\ u.status = t.status
    BY <1>1, <1>4, ZenonT(30) DEF Tunnel
  <2>3. Fits(u)
    BY <1>1, <1>2, <1>4, <2>2 DEF Fits
  <2>4. QED
    BY Zenon, <1>2, <1>3, <2>1, <2>2, <2>3, ConnectedGood
<1>5. CASE b = "sbuf"
  <2>1. u \in Tunnel
    BY <1>1, <1>2, <1>5, ZenonT(30) DEF Tunnel
  <2>2. u.sbuf = q /\ u.hps = t.hps /\ u.status = t.status
    BY <1>1, <1>5, ZenonT(30) DEF Tunnel
  <2>3. Fits(u)
    BY <1>1, <1>2, <1>5, <2>2 DEF Fits
  <2>4. QED
    BY Zenon, <1>2, <1>3, <2>1, <2>2, <2>3, ConnectedGood
<1>6. QED
  BY Zenon, <1>4, <1>5

(* mlvpn_rtun_send_auth at either end.                                     *)
LEMMA SendAuthGood ==
    ASSUME NEW p, NEW t, Good(p, t)
    PROVE  Good(p, SendAuth(p, t))
<1>1. CASE p = "server"
  <2> DEFINE v == StatusUp(t)
             q == Append(IF Len(v.hps) < HpsSize THEN v.hps ELSE <<>>, "AUTH_OK")
             u == [v EXCEPT !.hps = q, !.watch = TRUE]
  <2>1. v \in Tunnel /\ Fits(v) /\ v.hps \in Seq(Type) /\ "AUTH_OK" \in Type
    BY UpGood, Zenon DEF Good, Tunnel, Type, Control
  <2>2. v.status = "AUTHOK"
    BY Zenon DEF StatusUp, Good, Tunnel
  <2>3. SendAuth(p, t) = u
    BY <1>1, <2>1, Zenon DEF SendAuth, Tunnel
  <2> HIDE DEF v
  <2>4. q \in Seq(Type) /\ q # <<>> /\ Len(q) <= HpsSize
    <3> DEFINE r == IF Len(v.hps) < HpsSize THEN v.hps ELSE <<>>
    <3>1. r \in Seq(Type) /\ Len(r) \in Nat /\ Len(r) + 1 <= HpsSize
      BY <2>1, SizesAssumption, SMTT(30)
    <3> HIDE DEF r
    <3>2. /\ Append(r, "AUTH_OK") \in Seq(Type) /\ Append(r, "AUTH_OK") # <<>>
          /\ Len(Append(r, "AUTH_OK")) <= HpsSize
      BY <2>1, <3>1, AppendGrows
    <3>3. QED
      BY <3>2, Zenon DEF r
  <2> HIDE DEF q
  <2>5. u \in Tunnel
    BY <2>1, <2>4, ZenonT(30) DEF Tunnel
  <2>6. u.hps = q /\ u.sbuf = v.sbuf /\ u.status = v.status
    BY <2>1, ZenonT(30) DEF Tunnel
  <2>7. Fits(u)
    BY <2>1, <2>4, <2>6 DEF Fits
  <2>8. QED
    BY Zenon, <2>2, <2>3, <2>4, <2>5, <2>6, <2>7, ConnectedGood
<1>2. CASE p # "server"
  BY <1>2, UpGood DEF SendAuth
<1>3. QED
  BY <1>1, <1>2

(* A received KEEPALIVE.                                                   *)
LEMMA GotKeepaliveGood ==
    ASSUME NEW p, NEW t, Good(p, t), t.status = "AUTHOK", NEW answer \in BOOLEAN
    PROVE  Good(p, GotKeepalive(t, answer))
<1>1. CASE answer
  <2> DEFINE v == SendKeepalive(t)
             u == [v EXCEPT !.silent = 0, !.quiet = FALSE]
  <2>1. Good(p, v)
    BY KeepaliveGood DEF Good
  <2>2. v \in Tunnel /\ u = GotKeepalive(t, answer)
    BY <1>1, <2>1, Zenon DEF Good, GotKeepalive
  <2> HIDE DEF v
  <2>3. u \in Tunnel
    BY <2>2, ZeroInRange, ZenonT(30) DEF Tunnel
  <2>4. u.hps = v.hps /\ u.sbuf = v.sbuf /\ u.status = v.status /\ u.watch = v.watch
    BY <2>2, ZenonT(30) DEF Tunnel
  <2>5. Good(p, u)
    BY <2>1, <2>3, <2>4, ZenonT(30) DEF Good, Fits, Quiet, Busy
  <2>6. QED
    BY <2>2, <2>5
<1>2. CASE ~answer
  <2> DEFINE u == [t EXCEPT !.silent = 0]
  <2>1. t \in Tunnel /\ u = GotKeepalive(t, answer)
    BY <1>2, Zenon DEF Good, GotKeepalive
  <2>2. u \in Tunnel
    BY <2>1, ZeroInRange, ZenonT(30) DEF Tunnel
  <2>3. u.hps = t.hps /\ u.sbuf = t.sbuf /\ u.status = t.status /\ u.watch = t.watch
    BY <2>1, ZenonT(30) DEF Tunnel
  <2>4. QED
    BY <2>1, <2>2, <2>3, Zenon DEF Good, Fits, Quiet, Busy
<1>3. QED
  BY <1>1, <1>2

(* mlvpn_rtun_check_timeout of a connected tunnel.                         *)
LEMMA CheckAliveGood ==
    ASSUME NEW p, NEW t, Good(p, t), t.status = "AUTHOK", NEW keepalive \in BOOLEAN
    PROVE  Good(p, CheckAlive(t, keepalive))
<1>1. CASE t.silent = Timeout
  BY <1>1, DownGood DEF CheckAlive, Good
<1>2. CASE t.silent # Timeout
  <2> DEFINE n == t.silent + 1
             u == [t EXCEPT !.silent = n, !.due = TRUE, !.quiet = TRUE]
  <2>1. t \in Tunnel /\ t.silent \in 0 .. Timeout
    BY Zenon DEF Good, Tunnel
  <2>2. n \in 0 .. Timeout
    BY <1>2, <2>1, TimeoutAssumption
  <2>3. CheckAlive(t, keepalive) = IF keepalive \/ t.due THEN SendKeepalive(u) ELSE u
    BY <1>2, <2>1, Zenon DEF CheckAlive, Tunnel
  <2> HIDE DEF n
  <2>4. u \in Tunnel
    BY <2>1, <2>2, ZenonT(30) DEF Tunnel
  <2>5. u.hps = t.hps /\ u.sbuf = t.sbuf /\ u.status = t.status /\ u.watch = t.watch
    BY <2>1, ZenonT(30) DEF Tunnel
  <2>6. Good(p, u)
    BY <2>4, <2>5, Zenon DEF Good, Fits, Quiet, Busy
  <2> HIDE DEF u
  <2>7. Good(p, SendKeepalive(u))
    BY <2>5, <2>6, KeepaliveGood DEF Good
  <2>8. QED
    BY <2>3, <2>6, <2>7
<1>3. QED
  BY <1>1, <1>2

(* mlvpn_rtun_tick_connect of a tunnel that is not connected.              *)
LEMMA TickConnectGood ==
    ASSUME NEW p \in Process, NEW t, Good(p, t), t.status # "AUTHOK", NEW started \in BOOLEAN
    PROVE  Good(p, TickConnect(p, t, started))
<1> DEFINE v == [t EXCEPT !.open = t.open \/ started]
           q == Put(v.hps, HpsSize, "AUTH")
           u == [v EXCEPT !.status = "AUTHSENT", !.hps = q]
<1>1. t \in Tunnel /\ (t.open \/ started) \in BOOLEAN
  BY Zenon DEF Good
<1>2. v \in Tunnel
  BY <1>1, ZenonT(30) DEF Tunnel
<1>3. v.hps = t.hps /\ v.sbuf = t.sbuf /\ v.status = t.status /\ v.watch = t.watch
  BY <1>1, ZenonT(30) DEF Tunnel
<1>4. Good(p, v)
  BY <1>2, <1>3, ZenonT(30) DEF Good, Fits, Quiet, Busy
<1>5. TickConnect(p, t, started) = IF p = "server" \/ ~v.open THEN v ELSE u
  BY <1>1, <1>2, ZenonT(30) DEF TickConnect, Tunnel
<1> HIDE DEF v
<1>6. ASSUME p = "client" PROVE Good(p, u)
  <2>1. v.hps \in Seq(Type) /\ Len(v.hps) <= HpsSize /\ "AUTH" \in Type
    BY <1>4, Zenon DEF Good, Fits, Tunnel, Type, Control
  <2>2. \A i \in DOMAIN v.hps : v.hps[i] = "AUTH"
    BY <1>3, <1>4, Zenon DEF Good, Quiet
  <2>3. q \in Seq(Type) /\ q # <<>> /\ Len(q) <= HpsSize
    BY <2>1, PutFits, SizesAssumption, Zenon
  <2>4. \A i \in DOMAIN q : q[i] = "AUTH"
    BY <2>1, <2>2, PutFits, SizesAssumption, Zenon
  <2> HIDE DEF q
  <2>5. u \in Tunnel
    BY <1>2, <2>3, ZenonT(30) DEF Tunnel
  <2>6. u.hps = q /\ u.sbuf = v.sbuf /\ v.sbuf = <<>>
    BY <1>2, <1>3, <1>4, ZenonT(30) DEF Tunnel, Good, Quiet
  <2>7. Fits(u)
    BY <1>4, <2>3, <2>6, Zenon DEF Fits, Good
  <2>8. QED
    BY <1>6, <2>3, <2>4, <2>5, <2>6, <2>7, ZenonT(30) DEF Good, Quiet, Busy
<1>7. QED
  BY <1>4, <1>5, <1>6 DEF Process

(* The end of mlvpn_rtun_check_timeout.                                    *)
LEMMA StartWriteGood ==
    ASSUME NEW p, NEW t, Good(p, t)
    PROVE  Good(p, StartWrite(t))
<1> DEFINE w == t.watch \/ t.hps # <<>>
           u == [t EXCEPT !.watch = w]
<1>1. t \in Tunnel /\ w \in BOOLEAN
  BY Zenon DEF Good
<1>2. StartWrite(t) = u
  BY <1>1, Zenon DEF StartWrite, Tunnel
<1>3. u \in Tunnel
  BY <1>1, ZenonT(30) DEF Tunnel
<1>4. u.hps = t.hps /\ u.sbuf = t.sbuf /\ u.status = t.status /\ u.watch = w
  BY <1>1, ZenonT(30) DEF Tunnel
<1>5. Good(p, u)
  BY <1>3, <1>4, ZenonT(30) DEF Good, Fits, Quiet, Busy
<1>6. QED
  BY <1>2, <1>5

-----------------------------------------------------------------------------
IInv ==
    /\ alive \subseteq Process
    /\ tun \in [Process -> Tunnel]
    /\ \A p \in Process : Good(p, tun[p])
    /\ net \in [Process -> SUBSET Control]

(* A handler that leaves its own tunnel good leaves every tunnel good.     *)
LEMMA BecomesGood ==
    ASSUME IInv, NEW p \in Process, NEW t, Good(p, t), tun' = [tun EXCEPT ![p] = t]
    PROVE  tun' \in [Process -> Tunnel] /\ \A q \in Process : Good(q, tun'[q])
<1>1. t \in Tunnel
  BY DEF Good
<1>2. tun' \in [Process -> Tunnel]
  BY <1>1, Zenon DEF IInv
<1>3. ASSUME NEW q \in Process PROVE Good(q, tun'[q])
  <2>1. tun'[q] = IF q = p THEN t ELSE tun[q]
    BY Zenon DEF IInv
  <2>2. QED
    BY <2>1, Zenon DEF IInv
<1>4. QED
  BY <1>2, <1>3

(* The other end of the tunnel is a process.                               *)
LEMMA OtherProcess == ASSUME NEW p \in Process PROVE Other(p) \in Process
<1>1. \E q \in Process : q # p
  BY DEF Process
<1>2. QED
  BY <1>1, Zenon DEF Other

(* What is sent is a set of control messages.                              *)
LEMMA SentType ==
    ASSUME net \in [Process -> SUBSET Control], NEW q \in Process, NEW S
    PROVE  Sent(q, S) \in [Process -> SUBSET Control]
  BY Zenon DEF Sent

(* What the event handlers of a process do to its tunnel.                  *)
LEMMA HandlerGood ==
    ASSUME IInv, NEW p \in Process, Handler(p)
    PROVE  IInv'
<1>1. Good(p, tun[p]) /\ tun[p] \in Tunnel /\ Other(p) \in Process
  BY OtherProcess DEF IInv
<1>2. ASSUME NEW b \in {"hps", "sbuf"}, TuntapRead(p, b) PROVE IInv'
  <2> DEFINE size == IF b = "hps" THEN HpsSize ELSE SbufSize
             u == [tun[p] EXCEPT ![b] = Put(@, size, "DATA"), !.watch = TRUE]
  <2>1. tun' = [tun EXCEPT ![p] = u] /\ alive' = alive /\ net' = net /\ Up(p)
    BY <1>2, Zenon DEF TuntapRead, Becomes
  <2>2. Good(p, u)
    BY <1>1, <2>1, TuntapGood, Zenon DEF Up
  <2> HIDE DEF u
  <2>3. QED
    BY Zenon, <2>1, <2>2, BecomesGood DEF IInv
<1>3. ASSUME NEW r1 \in Result, NEW r2 \in Result, Write(p, r1, r2) PROVE IInv'
  <2> DEFINE t == tun[p]
             t1 == IF t.hps = <<>> THEN t ELSE Send(t, "hps", r1)
             t2 == IF t1.sbuf = <<>> THEN t1 ELSE Send(t1, "sbuf", r2)
             S == {m \in Type : \/ t.hps # <<>> /\ r1 = "sent" /\ m = Head(t.hps)
                                \/ t1.sbuf # <<>> /\ r2 = "sent" /\ m = Head(t1.sbuf)}
  <2>1. tun' = [tun EXCEPT ![p] = t2] /\ alive' = alive /\ net' = Sent(Other(p), S)
    BY <1>3, Zenon DEF Write, Becomes
  <2> HIDE DEF S
  <2>2. Good(p, t1)
    BY <1>1, <1>3, SendGood, Zenon
  <2> HIDE DEF t1
  <2>3. Good(p, t2)
    BY <1>3, <2>2, SendGood, Zenon
  <2> HIDE DEF t2
  <2>4. net' \in [Process -> SUBSET Control]
    BY <1>1, <2>1, SentType DEF IInv
  <2>5. QED
    BY Zenon, <2>1, <2>3, <2>4, BecomesGood DEF IInv
<1>4. ASSUME NEW m \in Control, NEW answer \in BOOLEAN, NEW again \in BOOLEAN,
             Read(p, m, answer, again)
      PROVE  IInv'
  <2> DEFINE u == CASE m \in {"AUTH", "AUTH_OK"} -> SendAuth(p, tun[p])
                    [] m = "KEEPALIVE" /\ Up(p) -> GotKeepalive(tun[p], answer)
                    [] m = "DISCONNECT" /\ Up(p) -> StatusDown(tun[p])
                    [] OTHER -> tun[p]
  <2>1. /\ tun' = [tun EXCEPT ![p] = u] /\ alive' = alive
        /\ net' = [net EXCEPT ![p] = IF again THEN @ ELSE @ \ {m}]
    BY <1>4, Zenon DEF Read, Becomes
  <2>2. Good(p, u)
    <3>1. Good(p, SendAuth(p, tun[p])) /\ Good(p, StatusDown(tun[p]))
      BY <1>1, SendAuthGood, DownGood, Zenon
    <3>2. Up(p) => Good(p, GotKeepalive(tun[p], answer))
      BY <1>1, GotKeepaliveGood, Zenon DEF Up
    <3>3. \/ u = SendAuth(p, tun[p]) \/ u = StatusDown(tun[p]) \/ u = tun[p]
          \/ Up(p) /\ u = GotKeepalive(tun[p], answer)
      BY Zenon
    <3>4. QED
      BY <1>1, <3>1, <3>2, <3>3, Zenon
  <2> HIDE DEF u
  <2>3. net' \in [Process -> SUBSET Control]
    BY <2>1, Zenon DEF IInv
  <2>4. QED
    BY Zenon, <2>1, <2>2, <2>3, BecomesGood DEF IInv
<1>5. ASSUME NEW keepalive \in BOOLEAN, NEW started \in BOOLEAN,
             CheckTimeout(p, keepalive, started)
      PROVE  IInv'
  <2> DEFINE v == IF Up(p) THEN CheckAlive(tun[p], keepalive)
                  ELSE TickConnect(p, tun[p], started)
  <2>1. tun' = [tun EXCEPT ![p] = StartWrite(v)] /\ alive' = alive /\ net' = net
    BY <1>5, Zenon DEF CheckTimeout, Becomes
  <2>2. Good(p, v)
    BY <1>1, <1>5, CheckAliveGood, TickConnectGood, Zenon DEF Up
  <2> HIDE DEF v
  <2>3. QED
    BY Zenon, <2>1, <2>2, StartWriteGood, BecomesGood DEF IInv
<1>6. QED
  BY <1>2, <1>3, <1>4, <1>5, Zenon DEF Handler

(* Errors, reloads, and the end and the start of a process.                *)
LEMMA FaultGood ==
    ASSUME IInv, NEW p \in Process, Fault(p)
    PROVE  IInv'
<1>1. tun[p] \in Tunnel /\ Other(p) \in Process
  BY OtherProcess DEF IInv
<1>2. CASE SocketError(p)
  BY Zenon, <1>1, <1>2, DownGood, BecomesGood DEF SocketError, Becomes, IInv
<1>3. CASE ReloadMoved(p)
  BY Zenon, <1>1, <1>3, DownGood, BecomesGood DEF ReloadMoved, Becomes, IInv
<1>4. CASE Quit(p)
  <2>1. /\ net' \in [Process -> SUBSET Control] /\ alive' \subseteq Process
        /\ tun' = [tun EXCEPT ![p] = New]
    BY <1>1, <1>4, SentType, Zenon DEF Quit, IInv
  <2>2. QED
    BY Zenon, <2>1, NewGood, BecomesGood DEF IInv
<1>5. CASE Crash(p)
  <2>1. net' = net /\ alive' \subseteq Process /\ tun' = [tun EXCEPT ![p] = New]
    BY <1>5, Zenon DEF Crash, IInv
  <2>2. QED
    BY Zenon, <2>1, NewGood, BecomesGood DEF IInv
<1>6. CASE Restart(p)
  BY <1>6, Zenon DEF Restart, IInv
<1>7. ASSUME NEW m \in Control, Lose(p, m) PROVE IInv'
  <2>1. net' \in [Process -> SUBSET Control] /\ alive' = alive /\ tun' = tun
    BY <1>7, Zenon DEF Lose, IInv
  <2>2. QED
    BY <2>1, Zenon DEF IInv
<1>8. QED
  BY <1>2, <1>3, <1>4, <1>5, <1>6, <1>7, Zenon DEF Fault

(* The invariant of the two ends of a tunnel.                              *)
THEOREM Invariance == Spec => []IInv
<1>1. Init => IInv
  <2> SUFFICES ASSUME Init PROVE IInv
    OBVIOUS
  <2>1. tun \in [Process -> Tunnel] /\ \A p \in Process : tun[p] = New
    BY FreshTunnel, Zenon DEF Init
  <2>2. alive \subseteq Process /\ net \in [Process -> SUBSET Control]
    BY Zenon DEF Init
  <2>3. QED
    BY <2>1, <2>2, NewGood DEF IInv
<1>2. IInv /\ [Next]_vars => IInv'
  <2> SUFFICES ASSUME IInv, [Next]_vars PROVE IInv'
    OBVIOUS
  <2>1. CASE Next
    BY <2>1, HandlerGood, FaultGood DEF Next
  <2>2. CASE UNCHANGED vars
    BY <2>2, Zenon DEF vars, IInv
  <2>3. QED
    BY <2>1, <2>2
<1>3. QED
  BY <1>1, <1>2, PTL DEF Spec

(* The buffers of a tunnel never hold more than they have room for.        *)
THEOREM TypeCorrect == Spec => []TypeOK
<1>1. IInv => TypeOK
  BY Zenon DEF IInv, TypeOK, Good, Fits
<1>2. QED
  BY <1>1, Invariance, PTL

(* Nothing of a session that ended is left for the next one, whatever      *)
(* errors, timeouts, reloads and messages of the peer ended it.            *)
THEOREM NothingStale == Spec => []NoStaleQueue
<1>1. IInv => NoStaleQueue
  BY Zenon DEF IInv, NoStaleQueue, Good, Quiet, Up
<1>2. QED
  BY <1>1, Invariance, PTL

(* The event loop never spins on the write watcher of a tunnel that has    *)
(* nothing to write.                                                       *)
THEOREM WatcherWorks == Spec => []WatchMeansWork
<1>1. IInv => WatchMeansWork
  BY Zenon DEF IInv, WatchMeansWork, Good, Busy
<1>2. QED
  BY <1>1, Invariance, PTL


-----------------------------------------------------------------------------
(* The configuration: loops over the lines of a file.                      *)

(* Induction over the numbers, for a set.                                  *)
LEMMA SetInduction ==
    ASSUME NEW S, 0 \in S, \A n \in Nat : n \in S => n + 1 \in S
    PROVE  Nat \subseteq S
<1> DEFINE T == Nat \ S
           R == OpToRel(<, Nat)
<1> SUFFICES ASSUME T # {} PROVE FALSE
  OBVIOUS
<1>1. \E x \in T : \A y \in T : ~ (<<y, x>> \in R)
  <2>1. IsWellFoundedOn(R, Nat)
    BY Zenon, NatLessThanWellFounded
  <2>2. T \subseteq Nat /\ T # {}
    BY Zenon
  <2> HIDE DEF T, R
  <2> QED
    BY Zenon, <2>1, <2>2, WFMin
<1>2. PICK x \in T : \A y \in T : ~ (<<y, x>> \in R)
  BY Zenon, <1>1
<1>3. x # 0 /\ x \in Nat /\ x - 1 \in Nat
  BY SMT
<1>4. x - 1 \in S
  <2>1. SUFFICES ASSUME x - 1 \in T PROVE FALSE
     BY <1>3
  <2>2. <<x - 1, x>> \in R
     BY SMT, <1>3 DEF OpToRel
  <2> QED
    BY Zenon, <1>2, <2>1, <2>2
<1> QED
  BY SMT, <1>3, <1>4

(* What holds of every pass of a loop of N passes.                         *)
LEMMA EveryPass ==
    ASSUME NEW N \in Nat, NEW T, 0 \in T, \A k \in 1 .. N : k - 1 \in T => k \in T
    PROVE  \A k \in 0 .. N : k \in T
<1> DEFINE U == {k \in Nat : k <= N => k \in T}
<1>1. 0 \in U
  BY SMT
<1>2. \A k \in Nat : k \in U => k + 1 \in U
  <2> SUFFICES ASSUME NEW k \in Nat, k \in U, k + 1 <= N PROVE k + 1 \in T
    BY SMT
  <2>1. k + 1 \in 1 .. N /\ (k + 1) - 1 = k /\ k \in T
    BY SMT
  <2> QED
    BY Zenon, <2>1
<1> HIDE DEF U
<1>3. Nat \subseteq U
  BY Zenon, <1>1, <1>2, SetInduction
<1> QED
  BY SMT, <1>3 DEF U

(* The function of a loop exists.                                          *)

(* The values of a variable before and after each pass of a loop.          *)
Passes(N, S, a, F) ==
    {f \in [0 .. N -> S] : f[0] = a /\ \A k \in 1 .. N : f[k] = F[k][f[k - 1]]}

LEMMA PassesExist ==
    ASSUME NEW N \in Nat, NEW S, NEW a \in S, NEW F \in [Nat -> [S -> S]]
    PROVE  Passes(N, S, a, F) # {}
<1> DEFINE T == {n \in Nat : Passes(n, S, a, F) # {}}
<1>1. 0 \in T
  <2>1. [k \in 0 .. 0 |-> a] \in Passes(0, S, a, F)
    BY SMT DEF Passes
  <2> QED
    BY Zenon, <2>1
<1>2. \A n \in Nat : n \in T => n + 1 \in T
  <2> SUFFICES ASSUME NEW n \in Nat, NEW f \in Passes(n, S, a, F) PROVE Passes(n + 1, S, a, F) # {}
    BY SMT
  <2> DEFINE g == [k \in 0 .. n + 1 |-> IF k <= n THEN f[k] ELSE F[n + 1][f[n]]]
  <2>1. g \in [0 .. n + 1 -> S] /\ g[0] = a
    BY SMT DEF Passes
  <2>2. ASSUME NEW k \in 1 .. n + 1 PROVE g[k] = F[k][g[k - 1]]
    BY SMT DEF Passes
  <2>3. g \in Passes(n + 1, S, a, F)
    BY Zenon, <2>1, <2>2 DEF Passes
  <2> QED
    BY Zenon, <2>3
<1> HIDE DEF T
<1>3. Nat \subseteq T
  BY Zenon, <1>1, <1>2, SetInduction
<1> QED
  BY Zenon, <1>3 DEF T

IsLoop(f, N, a, F) == \A k \in 0 .. N : f[k] = IF k = 0 THEN a ELSE F[k][f[k - 1]]

LEMMA LoopExists ==
    ASSUME NEW N \in Nat, NEW S, NEW a \in S, NEW F \in [Nat -> [S -> S]]
    PROVE  \E f \in [0 .. N -> S] : IsLoop(f, N, a, F)
<1>1. Passes(N, S, a, F) # {}
  BY Zenon, PassesExist
<1>2. PICK f \in Passes(N, S, a, F) : TRUE
  BY Zenon, <1>1
<1>3. f \in [0 .. N -> S] /\ f[0] = a /\ \A k \in 1 .. N : f[k] = F[k][f[k - 1]]
  BY Zenon, <1>2 DEF Passes
<1>4. \A k \in 0 .. N : k # 0 => k \in 1 .. N
  BY SMT
<1>5. IsLoop(f, N, a, F)
  BY Zenon, <1>3, <1>4 DEF IsLoop
<1> QED
  BY Zenon, <1>3, <1>5

-----------------------------------------------------------------------------
(* What a daemon is made of.                                               *)

Options ==
    {<<"interface_name">>, <<"mode">>, <<"password">>, <<"ip4">>, <<"ip4_gateway">>,
     <<"ip4_routes">>, <<"bindhost">>, <<"bindport">>, <<"remotehost">>, <<"remoteport">>}

SectionsOf(cfg) == {cfg[k].section : k \in DOMAIN cfg}
TunnelsOf(cfg) == {n \in SectionsOf(cfg) : n # General /\ ~IsFilters(n)}

TunnelNames == UNION {TunnelsOf(cfg) : cfg \in Files}

ValuesOf(cfg, n) == {GetValue(cfg, n, v) : v \in Options}
ValuesIn(cfg) == UNION {ValuesOf(cfg, n) : n \in TunnelNames \cup {General}}
Values == {Null, <<"mlvpn0">>} \cup UNION {ValuesIn(cfg) : cfg \in Files}

Wanted == [from : Values, bind : Values, fib : Nat, host : Values, port : Values, bw : Nat,
           timeout : Nat \ {0, 1}, loss : 0 .. 100, fallback : BOOLEAN]

Totals == UNION {[D -> Nat] : D \in SUBSET TunnelNames}
Weights == {<<1, 0>>} \cup UNION {{<<b, SumFunction(f)>> : b \in Nat} : f \in Totals}

Tunnels ==
    [server : BOOLEAN, timeout : Nat \ {0, 1}, loss : 0 .. 100, bw : Nat, fallback : BOOLEAN,
     from : Values, bind : Values, fib : Nat, host : Values, port : Values,
     weight : Weights, open : BOOLEAN, addrinfo : {Null} \cup (Values \X Values)]

Tables == UNION {[D -> Tunnels] : D \in SUBSET TunnelNames}


Filters == [expr : UNION {{cfg[k].val : k \in DOMAIN cfg} : cfg \in Files}, tun : TunnelNames]

Defaults == [server : BOOLEAN, timeout : Nat \ {0, 1}, loss : 0 .. 100]

Daemons ==
    [alive : BOOLEAN, devname : Values, password : Values, cleartext : Nat, reorder : Nat,
     ring : Nat, ip4 : Values, gateway : Values, routes : Values, mtu : Nat, fallback : BOOLEAN,
     tunnels : Tables, up : SUBSET TunnelNames, filters : Seq(Filters), local : Defaults]

(* The list of a file is a sequence.                                       *)
LEMMA ListFacts ==
    ASSUME NEW cfg \in Files
    PROVE  /\ Len(cfg) \in Nat /\ DOMAIN cfg = 1 .. Len(cfg)
           /\ \A k \in 1 .. Len(cfg) : k \in Nat
<1>1. cfg \in Seq({cfg[i] : i \in DOMAIN cfg})
  BY Zenon, FilesAssumption
<1> QED
  BY SMT, <1>1

-----------------------------------------------------------------------------
(* The section [general].                                                  *)

(* What _conf_set_str_from_conf may find.                                  *)
LEMMA ValueType ==
    ASSUME NEW cfg \in Files, NEW n \in TunnelNames \cup {General}, NEW v \in Options
    PROVE  GetValue(cfg, n, v) \in Values
<1>1. GetValue(cfg, n, v) \in ValuesOf(cfg, n)
  BY Zenon DEF ValuesOf
<1>2. GetValue(cfg, n, v) \in ValuesIn(cfg)
  BY Zenon, <1>1 DEF ValuesIn
<1> QED
  BY Zenon, <1>2 DEF Values

(* _conf_set_uint_from_conf finds a number.                                *)
LEMMA UintType ==
    ASSUME NEW cfg, NEW n, NEW v, NEW def \in Nat
    PROVE  GetUint(cfg, n, v, def) \in Nat
<1>1. \A val : Atoi(val) \in {0, 1, 4, 9, 150}
  BY Zenon DEF Atoi
<1>2. GetUint(cfg, n, v, def) \in {def, 0, 1, 4, 9, 150}
  BY Zenon, <1>1 DEF GetUint
<1> QED
  BY SMT, <1>2

(* What the section leaves, with or without the options that are read at   *)
(* the start only.                                                         *)
GeneralOf(s, cfg) ==
    /\ s.password = GetValue(cfg, General, <<"password">>)
    /\ s.cleartext = GetUint(cfg, General, <<"cleartext_data">>, 0)
    /\ s.reorder = GetUint(cfg, General, <<"reorder_buffer_size">>, 0)
    /\ s.gateway = GetValue(cfg, General, <<"ip4_gateway">>)
    /\ s.routes = GetValue(cfg, General, <<"ip4_routes">>)
    /\ GetValue(cfg, General, <<"ip4">>) \in {Null, s.ip4}
    /\ GetUint(cfg, General, <<"mtu">>, 1432) \in {0, s.mtu}

DefaultsOf(l, cfg) ==
    [server |-> l.server \/ GetValue(cfg, General, <<"mode">>) = <<"server">>,
     timeout |-> AtLeast(2, GetUint(cfg, General, <<"timeout">>, 60)),
     loss |-> AtMost(100, GetUint(cfg, General, <<"loss_tolerence">>, 100))]

Refused(cfg) == Null \in {GetValue(cfg, General, v) : v \in {<<"mode">>, <<"password">>}}

Named(s, r, v, first) == r = [s EXCEPT !.devname = v] /\ (~first => v = s.devname)

(* interface_name is read at the start only.                               *)
LEMMA DeviceIs ==
    ASSUME NEW s \in Daemons, NEW cfg \in Files, NEW first,
           NEW r, r = IF first THEN SetDevice(s, cfg) ELSE s
    PROVE  \E v \in Values : Named(s, r, v, first)
<1>1. CASE first
  <2>1. GetValue(cfg, General, <<"interface_name">>) \in Values
    BY Zenon, ValueType DEF Options
  <2>2. <<"mlvpn0">> \in Values
    BY Zenon DEF Values
  <2> QED
    BY Zenon, <1>1, <2>1, <2>2 DEF SetDevice, Named
<1>2. CASE ~first
  <2>1. s.devname \in Values /\ s = [s EXCEPT !.devname = s.devname]
    BY SMT DEF Daemons
  <2> QED
    BY Zenon, <1>2, <2>1 DEF Named
<1> QED
  BY Zenon, <1>1, <1>2

(* The defaults of [general] for the tunnels.                              *)
LEMMA DefaultsIs ==
    ASSUME NEW s \in Daemons, NEW cfg \in Files
    PROVE  /\ DefaultsOf(s.local, cfg) \in Defaults
           /\ SetDefaults(s, cfg) = [s EXCEPT !.local = DefaultsOf(s.local, cfg)]
<1> DEFINE m == GetValue(cfg, General, <<"mode">>) = <<"server">>
           t == AtLeast(2, GetUint(cfg, General, <<"timeout">>, 60))
           l == AtMost(100, GetUint(cfg, General, <<"loss_tolerence">>, 100))
<1>1. m \in BOOLEAN /\ t \in Nat \ {0, 1} /\ l \in 0 .. 100
  <2>1. GetUint(cfg, General, <<"timeout">>, 60) \in Nat /\ GetUint(cfg, General, <<"loss_tolerence">>, 100) \in Nat
    BY Zenon, UintType
  <2> QED
    BY SMT, <2>1 DEF AtLeast, AtMost
<1>2. s.local \in Defaults /\ s.local.server \in BOOLEAN
  BY Zenon DEF Daemons, Defaults
<1>3. DefaultsOf(s.local, cfg) = [server |-> s.local.server \/ m, timeout |-> t, loss |-> l]
  BY Zenon DEF DefaultsOf
<1>4. SetDefaults(s, cfg) = [s EXCEPT !.local = DefaultsOf(s.local, cfg)]
  BY Zenon DEF SetDefaults, DefaultsOf
<1> HIDE DEF m, t, l
<1>5. DefaultsOf(s.local, cfg) \in Defaults
  BY SMT, <1>1, <1>2, <1>3 DEF Defaults
<1> QED
  BY Zenon, <1>4, <1>5

GeneralRead(s, r, cfg, first) ==
    /\ r.alive = s.alive /\ r.fallback = s.fallback /\ r.tunnels = s.tunnels /\ r.up = s.up
    /\ r.local = DefaultsOf(s.local, cfg)
    /\ GeneralOf(r, cfg)
    /\ ~first /\ GeneralOf(s, cfg) => r = [s EXCEPT !.local = r.local]

GeneralDone(s, r, cfg, first) ==
    IF Refused(cfg) THEN ~r.alive ELSE GeneralRead(s, r, cfg, first)

(* Section [general]: the options are those of the file, or the daemon     *)
(* ends; the same file again changes nothing but the locals.               *)
LEMMA GeneralIs ==
    ASSUME NEW s \in Daemons, NEW cfg \in Files, NEW first,
           NEW r, r = LoadGeneral(s, cfg, first)
    PROVE  /\ r \in Daemons /\ r.filters = s.filters
           /\ GeneralDone(s, r, cfg, first)
<1> DEFINE s1 == IF first THEN SetDevice(s, cfg) ELSE s
           pw == GetValue(cfg, General, <<"password">>)
           clear == GetUint(cfg, General, <<"cleartext_data">>, 0)
           size == GetUint(cfg, General, <<"reorder_buffer_size">>, 0)
           ip4 == GetValue(cfg, General, <<"ip4">>)
           gw == GetValue(cfg, General, <<"ip4_gateway">>)
           rt == GetValue(cfg, General, <<"ip4_routes">>)
           mtu == GetUint(cfg, General, <<"mtu">>, 1432)
           l == DefaultsOf(s.local, cfg)
<1>1. PICK dev \in Values : s1 = [s EXCEPT !.devname = dev] /\ (~first => dev = s.devname)
  <2>1. s1 = IF first THEN SetDevice(s, cfg) ELSE s
    BY Zenon
  <2> HIDE DEF s1
  <2>2. \E dev \in Values : Named(s, s1, dev, first)
    BY Zenon, <2>1, DeviceIs
  <2> QED
    BY Zenon, <2>2 DEF Named
<1>2. /\ s1 \in Daemons /\ s1.local = s.local /\ s1.devname = dev
      /\ s1.alive = s.alive /\ s1.fallback = s.fallback /\ s1.tunnels = s.tunnels /\ s1.filters = s.filters
      /\ s1.reorder = s.reorder /\ s1.ring = s.ring /\ s1.ip4 = s.ip4 /\ s1.gateway = s.gateway
      /\ s1.routes = s.routes /\ s1.mtu = s.mtu /\ s1.up = s.up
  <2> HIDE DEF s1
  <2> QED
    BY Zenon, <1>1 DEF Daemons
<1>3. l \in Defaults /\ SetDefaults(s1, cfg) = [s1 EXCEPT !.local = l]
  <2> HIDE DEF s1
  <2>1. DefaultsOf(s1.local, cfg) = l
    BY Zenon, <1>2
  <2> QED
    BY ZenonT(40), <1>2, <2>1, DefaultsIs
<1>4. pw \in Values /\ ip4 \in Values /\ gw \in Values /\ rt \in Values
  BY Zenon, ValueType DEF Options
<1>5. clear \in Nat /\ size \in Nat /\ mtu \in Nat
  BY SMT, UintType
<1>6. Null \in Values
  BY Zenon DEF Values
<1>7. r = IF Refused(cfg) THEN [s1 EXCEPT !.alive = FALSE]
          ELSE SetMtu(SetAddresses(SetReorder([[s1 EXCEPT !.local = l] EXCEPT !.password = pw, !.cleartext = clear],
                                              size), cfg), cfg)
  BY Zenon, <1>3 DEF LoadGeneral, Refused
<1>8. GeneralOf(r, cfg) <=>
         /\ r.password = pw /\ r.cleartext = clear /\ r.reorder = size /\ r.gateway = gw /\ r.routes = rt
         /\ ip4 \in {Null, r.ip4} /\ mtu \in {0, r.mtu}
  BY DEF GeneralOf
<1>9. GeneralOf(s, cfg) <=>
         /\ s.password = pw /\ s.cleartext = clear /\ s.reorder = size /\ s.gateway = gw /\ s.routes = rt
         /\ ip4 \in {Null, s.ip4} /\ mtu \in {0, s.mtu}
  BY DEF GeneralOf
<1>10. \A t : SetAddresses(t, cfg) = [t EXCEPT !.ip4 = IF ip4 = Null THEN @ ELSE ip4, !.gateway = gw, !.routes = rt]
  BY Zenon DEF SetAddresses
<1>11. \A t : SetMtu(t, cfg) = IF mtu # 0 THEN [t EXCEPT !.mtu = mtu] ELSE t
  BY Zenon DEF SetMtu
<1> HIDE DEF s1, pw, clear, size, ip4, gw, rt, mtu, l
<1>12. CASE Refused(cfg)
  <2>1. r = [s1 EXCEPT !.alive = FALSE]
    BY Zenon, <1>7, <1>12
  <2>2. r \in Daemons /\ r.filters = s1.filters /\ ~r.alive
    BY Zenon, <2>1, <1>2 DEF Daemons
  <2> QED
    BY Zenon, <1>2, <1>12, <2>2 DEF GeneralDone
<1>13. CASE ~Refused(cfg)
  <2> DEFINE s2 == [[s1 EXCEPT !.local = l] EXCEPT !.password = pw, !.cleartext = clear]
             s3 == SetReorder(s2, size)
             s4 == SetAddresses(s3, cfg)
             Same(t, u) == /\ t.alive = u.alive /\ t.fallback = u.fallback /\ t.tunnels = u.tunnels
                           /\ t.filters = u.filters /\ t.up = u.up
  <2>1. /\ s2 \in Daemons /\ Same(s2, s)
        /\ s2.local = l /\ s2.password = pw /\ s2.cleartext = clear /\ s2.devname = dev
        /\ s2.reorder = s.reorder /\ s2.ring = s.ring /\ s2.ip4 = s.ip4 /\ s2.gateway = s.gateway
        /\ s2.routes = s.routes /\ s2.mtu = s.mtu
    BY Zenon, <1>2, <1>3, <1>4, <1>5 DEF Daemons
  <2> HIDE DEF s2
  <2>2. /\ s3 \in Daemons /\ Same(s3, s)
        /\ s3.local = l /\ s3.password = pw /\ s3.cleartext = clear /\ s3.devname = dev /\ s3.reorder = size
        /\ s3.ip4 = s.ip4 /\ s3.gateway = s.gateway /\ s3.routes = s.routes /\ s3.mtu = s.mtu
        /\ size = s.reorder => s3.ring = s.ring
    <3>1. s.ring \in Nat /\ s2.ring \in Nat
      BY Zenon, <2>1 DEF Daemons
    <3>2. PICK ring \in Nat : s3 = [s2 EXCEPT !.reorder = size, !.ring = ring] /\ (size = s.reorder => ring = s.ring)
      <4>1. CASE size = s.reorder
        <5>1. s3 = s2
          BY Zenon, <2>1, <4>1 DEF SetReorder
        <5>2. s2 = [s2 EXCEPT !.reorder = s2.reorder, !.ring = s2.ring]
          BY Zenon, <2>1 DEF Daemons
        <5> QED
          BY Zenon, <2>1, <3>1, <4>1, <5>1, <5>2
      <4>2. CASE size # s.reorder
        <5> DEFINE ring == IF size > 0 THEN size ELSE s2.ring
        <5>1. s3 = [s2 EXCEPT !.reorder = size, !.ring = ring]
          BY Zenon, <2>1, <4>2 DEF SetReorder
        <5>2. ring \in Nat
          BY Zenon, <1>5, <3>1
        <5> HIDE DEF ring
        <5> QED
          BY Zenon, <4>2, <5>1, <5>2
      <4> QED
        BY Zenon, <4>1, <4>2
    <3> HIDE DEF s3
    <3> QED
      BY Zenon, <2>1, <1>5, <3>2 DEF Daemons
  <2> HIDE DEF s3
  <2>3. /\ s4 \in Daemons /\ Same(s4, s)
        /\ s4.local = l /\ s4.password = pw /\ s4.cleartext = clear /\ s4.devname = dev /\ s4.reorder = size
        /\ s4.gateway = gw /\ s4.routes = rt /\ s4.mtu = s.mtu /\ ip4 \in {Null, s4.ip4}
        /\ ip4 = Null => s4.ip4 = s.ip4
        /\ size = s.reorder => s4.ring = s.ring
    <3>1. s4 = [s3 EXCEPT !.ip4 = IF ip4 = Null THEN @ ELSE ip4, !.gateway = gw, !.routes = rt]
      BY Zenon, <1>10
    <3> HIDE DEF s4
    <3>2. PICK v \in Values : /\ s4 = [s3 EXCEPT !.ip4 = v, !.gateway = gw, !.routes = rt]
                              /\ ip4 \in {Null, v} /\ (ip4 = Null => v = s.ip4)
      <4>1. s3.ip4 \in Values
        BY Zenon, <2>2 DEF Daemons
      <4> QED
        BY Zenon, <2>2, <3>1, <1>4, <4>1
    <3> QED
      BY Zenon, <2>2, <3>2, <1>4 DEF Daemons
  <2>4. r = IF mtu # 0 THEN [s4 EXCEPT !.mtu = mtu] ELSE s4
    BY Zenon, <1>7, <1>11, <1>13 DEF s2, s3
  <2> HIDE DEF s4
  <2>5. /\ r \in Daemons /\ Same(r, s)
        /\ r.local = l /\ r.password = pw /\ r.cleartext = clear /\ r.devname = dev /\ r.reorder = size
        /\ r.gateway = gw /\ r.routes = rt /\ mtu \in {0, r.mtu} /\ ip4 \in {Null, r.ip4}
        /\ ip4 = Null => r.ip4 = s.ip4
        /\ mtu = 0 => r.mtu = s.mtu
        /\ size = s.reorder => r.ring = s.ring
    BY SMTT(20), <2>3, <2>4, <1>5 DEF Daemons
  <2>6. ~first /\ GeneralOf(s, cfg) => r = [s EXCEPT !.local = r.local]
    BY SMT, <2>5, <1>1, <1>9 DEF Daemons
  <2> QED
    BY Zenon, <2>5, <2>6, <1>8, <1>13 DEF l, GeneralRead, GeneralDone
<1> QED
  BY Zenon, <1>12, <1>13

-----------------------------------------------------------------------------
(* The section of a tunnel.                                                *)

(* A tunnel is what its section says, the tolerance apart, which depends   *)
(* on the locals.                                                          *)
TunnelOf(t, cfg, n) ==
    /\ GetValue(cfg, n, <<"bindhost">>) \in {Null, t.from}
    /\ GetValue(cfg, n, <<"bindport">>) \in {Null, t.bind}
    /\ t.fib = GetUint(cfg, n, <<"bindfib">>, 0)
    /\ GetValue(cfg, n, <<"remotehost">>) \in {Null, t.host}
    /\ GetValue(cfg, n, <<"remoteport">>) \in {Null, t.port}
    /\ t.bw = GetUint(cfg, n, <<"bandwidth_upload">>, 0)
    /\ t.fallback = (GetUint(cfg, n, <<"fallback_only">>, 0) # 0)

LossOf(l, cfg, n) == AtMost(100, GetUint(cfg, n, <<"loss_tolerence">>, l.loss))

Lacking(l, cfg, n) ==
    IF l.server THEN GetValue(cfg, n, <<"bindport">>) = Null
    ELSE Null \in {GetValue(cfg, n, <<"remotehost">>), GetValue(cfg, n, <<"remoteport">>)}

(* What a section asks for is within bounds.                               *)
LEMMA WantsType ==
    ASSUME NEW s \in Daemons, NEW cfg \in Files, NEW n \in TunnelNames
    PROVE  Wants(s, cfg, n) \in Wanted
<1>1. /\ GetValue(cfg, n, <<"bindhost">>) \in Values /\ GetValue(cfg, n, <<"bindport">>) \in Values
      /\ GetValue(cfg, n, <<"remotehost">>) \in Values
      /\ GetValue(cfg, n, <<"remoteport">>) \in Values
  BY Zenon, ValueType DEF Options
<1>2. s.local \in Defaults /\ s.local.timeout \in Nat /\ s.local.loss \in Nat
  <2>1. s.local \in Defaults
    BY Zenon DEF Daemons
  <2> QED
    BY SMT, <2>1 DEF Defaults
<1>3. GetUint(cfg, n, <<"bandwidth_upload">>, 0) \in Nat /\ GetUint(cfg, n, <<"bindfib">>, 0) \in Nat
  BY SMT, UintType
<1>4. AtLeast(2, GetUint(cfg, n, <<"timeout">>, s.local.timeout)) \in Nat \ {0, 1}
  <2>1. GetUint(cfg, n, <<"timeout">>, s.local.timeout) \in Nat
    BY Zenon, <1>2, UintType
  <2> QED
    BY SMT, <2>1 DEF AtLeast
<1>5. AtMost(100, GetUint(cfg, n, <<"loss_tolerence">>, s.local.loss)) \in 0 .. 100
  <2>1. GetUint(cfg, n, <<"loss_tolerence">>, s.local.loss) \in Nat
    BY Zenon, <1>2, UintType
  <2> QED
    BY SMT, <2>1 DEF AtMost
<1>6. (GetUint(cfg, n, <<"fallback_only">>, 0) # 0) \in BOOLEAN
  OBVIOUS
<1> QED
  BY Zenon, <1>1, <1>3, <1>4, <1>5, <1>6 DEF Wants, Wanted

Matches(t, w) ==
    /\ w.from \in {Null, t.from} /\ w.bind \in {Null, t.bind}
    /\ w.host \in {Null, t.host} /\ w.port \in {Null, t.port}
    /\ t.fib = w.fib /\ t.bw = w.bw /\ t.fallback = w.fallback

(* mlvpn_rtun_new makes what the section asks for,                         *)
LEMMA NewTunnelIs ==
    ASSUME NEW s \in Daemons, NEW w \in Wanted
    PROVE  NewTunnel(s, w) \in Tunnels /\ Matches(NewTunnel(s, w), w) /\ NewTunnel(s, w).loss = w.loss
<1>1. s.local.server \in BOOLEAN
  BY Zenon DEF Daemons, Defaults
<1>2. <<1, 0>> \in Weights /\ Null \in Values
  BY Zenon DEF Weights, Values
<1>3. /\ w.timeout \in Nat \ {0, 1} /\ w.loss \in 0 .. 100 /\ w.bw \in Nat /\ w.fallback \in BOOLEAN
      /\ w.from \in Values /\ w.bind \in Values /\ w.host \in Values /\ w.port \in Values /\ w.fib \in Nat
  BY Zenon DEF Wanted
<1>4. NewTunnel(s, w) \in Tunnels
  BY Zenon, <1>1, <1>2, <1>3 DEF NewTunnel, Tunnels
<1>5. /\ NewTunnel(s, w).from = w.from /\ NewTunnel(s, w).bind = w.bind /\ NewTunnel(s, w).fib = w.fib
      /\ NewTunnel(s, w).host = w.host /\ NewTunnel(s, w).port = w.port
      /\ NewTunnel(s, w).bw = w.bw /\ NewTunnel(s, w).loss = w.loss /\ NewTunnel(s, w).fallback = w.fallback
  BY Zenon DEF NewTunnel
<1>6. Matches(NewTunnel(s, w), w)
  BY Zenon, <1>5 DEF Matches
<1> QED
  BY Zenon, <1>4, <1>5, <1>6

(* and a tunnel that exists becomes it; one that was it changes its        *)
(* tolerance at most.                                                      *)
LEMMA UpdateTunnelIs ==
    ASSUME NEW t \in Tunnels, NEW w \in Wanted, NEW u, u = UpdateTunnel(t, w)
    PROVE  /\ u \in Tunnels
           /\ Matches(u, w) /\ u.loss = w.loss
           /\ Matches(t, w) => u = [t EXCEPT !.loss = u.loss]
<1> DEFINE f == IF w.from = Null THEN t.from ELSE w.from
           b == IF w.bind = Null THEN t.bind ELSE w.bind
           h == IF w.host = Null THEN t.host ELSE w.host
           p == IF w.port = Null THEN t.port ELSE w.port
<1>1. /\ w.loss \in 0 .. 100 /\ w.bw \in Nat /\ w.fallback \in BOOLEAN
      /\ w.from \in Values /\ w.bind \in Values /\ w.host \in Values /\ w.port \in Values /\ w.fib \in Nat
  BY Zenon DEF Wanted
<1>2. t.from \in Values /\ t.bind \in Values /\ t.host \in Values /\ t.port \in Values
  BY Zenon DEF Tunnels
<1>3. f \in Values /\ b \in Values /\ h \in Values /\ p \in Values
  BY Zenon, <1>1, <1>2
<1>4. u = [t EXCEPT !.from = f, !.bind = b, !.fib = w.fib, !.host = h, !.port = p,
                    !.fallback = w.fallback, !.bw = w.bw, !.loss = w.loss]
  BY Zenon DEF UpdateTunnel
<1>5. /\ w.from \in {Null, f} /\ w.bind \in {Null, b} /\ w.host \in {Null, h} /\ w.port \in {Null, p}
      /\ w.from \in {Null, t.from} => f = t.from
      /\ w.bind \in {Null, t.bind} => b = t.bind
      /\ w.host \in {Null, t.host} => h = t.host
      /\ w.port \in {Null, t.port} => p = t.port
  BY Zenon
<1> HIDE DEF f, b, h, p
<1>6. u \in Tunnels
  BY ZenonT(40), <1>1, <1>3, <1>4 DEF Tunnels
<1>7. /\ u.from = f /\ u.bind = b /\ u.host = h /\ u.port = p /\ u.fib = w.fib
      /\ u.bw = w.bw /\ u.loss = w.loss /\ u.fallback = w.fallback
  BY Zenon, <1>4 DEF Tunnels
<1>8. ASSUME f = t.from, b = t.bind, h = t.host, p = t.port, w.fib = t.fib, w.bw = t.bw, w.fallback = t.fallback
      PROVE  u = [t EXCEPT !.loss = u.loss]
  <2>1. u = [t EXCEPT !.from = t.from, !.bind = t.bind, !.fib = t.fib, !.host = t.host, !.port = t.port,
                      !.fallback = t.fallback, !.bw = t.bw, !.loss = u.loss]
    BY Zenon, <1>4, <1>7, <1>8
  <2> QED
    BY Zenon, <2>1 DEF Tunnels
<1>9. Matches(u, w)
  BY Zenon, <1>5, <1>7 DEF Matches
<1>10. Matches(t, w) => u = [t EXCEPT !.loss = u.loss]
  <2>1. Matches(t, w) => /\ f = t.from /\ b = t.bind /\ h = t.host /\ p = t.port
                         /\ w.fib = t.fib /\ w.bw = t.bw /\ w.fallback = t.fallback
    BY Zenon, <1>5 DEF Matches
  <2> QED
    BY Zenon, <1>8, <2>1
<1> QED
  BY Zenon, <1>6, <1>7, <1>9, <1>10

(* An address of the tunnel that the section leaves out counts as changed. *)
LEMMA AddressesIs ==
    ASSUME NEW t, NEW cfg, NEW n, TunnelOf(t, cfg, n),
           NEW w, w.from = GetValue(cfg, n, <<"bindhost">>), w.bind = GetValue(cfg, n, <<"bindport">>),
           w.fib = GetUint(cfg, n, <<"bindfib">>, 0),
           w.host = GetValue(cfg, n, <<"remotehost">>), w.port = GetValue(cfg, n, <<"remoteport">>)
    PROVE  SameAddresses(t, w) <=> GivesAddresses(cfg, n)
BY Zenon DEF TunnelOf, SameAddresses, GivesAddresses, StrEq

TunnelRead(s, r, cfg, n) ==
    /\ r = [s EXCEPT !.fallback = r.fallback, !.up = r.up, !.tunnels = r.tunnels]
    /\ r.fallback = (s.fallback \/ GetUint(cfg, n, <<"fallback_only">>, 0) # 0)
    /\ DOMAIN r.tunnels = DOMAIN s.tunnels \cup {n}
    /\ \A m \in DOMAIN s.tunnels : m # n => r.tunnels[m] = s.tunnels[m]
    /\ TunnelOf(r.tunnels[n], cfg, n)
    /\ r.tunnels[n].loss = LossOf(s.local, cfg, n)
    /\ n \in DOMAIN s.tunnels /\ TunnelOf(s.tunnels[n], cfg, n) =>
          /\ r.tunnels[n] = [s.tunnels[n] EXCEPT !.loss = r.tunnels[n].loss]
          /\ r.up = IF GivesAddresses(cfg, n) THEN s.up ELSE s.up \ {n}

TunnelDone(s, r, cfg, n) ==
    IF Lacking(s.local, cfg, n) THEN ~r.alive ELSE TunnelRead(s, r, cfg, n)

(* The section of a tunnel.                                                *)
LEMMA TunnelIs ==
    ASSUME NEW s \in Daemons, NEW cfg \in Files, NEW n \in TunnelNames,
           NEW r, r = LoadTunnel(s, cfg, n)
    PROVE  /\ r \in Daemons /\ r.filters = s.filters
           /\ TunnelDone(s, r, cfg, n)
<1> DEFINE w == Wants(s, cfg, n)
           made == IF n \in DOMAIN s.tunnels THEN UpdateTunnel(s.tunnels[n], w) ELSE NewTunnel(s, w)
           tab == [m \in DOMAIN s.tunnels \cup {n} |-> IF m = n THEN made ELSE s.tunnels[m]]
           fb == s.fallback \/ w.fallback
           up == IF n \in DOMAIN s.tunnels /\ SameAddresses(s.tunnels[n], w) THEN s.up ELSE s.up \ {n}
<1>1. w \in Wanted
  BY Zenon, WantsType
<1>2. /\ w.from = GetValue(cfg, n, <<"bindhost">>) /\ w.bind = GetValue(cfg, n, <<"bindport">>)
      /\ w.fib = GetUint(cfg, n, <<"bindfib">>, 0) /\ w.host = GetValue(cfg, n, <<"remotehost">>)
      /\ w.port = GetValue(cfg, n, <<"remoteport">>) /\ w.bw = GetUint(cfg, n, <<"bandwidth_upload">>, 0)
      /\ w.loss = LossOf(s.local, cfg, n)
      /\ w.fallback = (GetUint(cfg, n, <<"fallback_only">>, 0) # 0)
  BY Zenon DEF Wants, LossOf
<1>3. Lacking(s.local, cfg, n) <=> Null \in IF s.local.server THEN {w.bind} ELSE {w.host, w.port}
  BY Zenon, <1>2 DEF Lacking
<1>4. r = IF Lacking(s.local, cfg, n) THEN [s EXCEPT !.alive = FALSE]
          ELSE [s EXCEPT !.fallback = fb, !.up = up, !.tunnels = tab]
  BY Zenon, <1>3 DEF LoadTunnel
<1>5. \A t : TunnelOf(t, cfg, n) <=> Matches(t, w)
  BY Zenon, <1>2 DEF TunnelOf, Matches
<1> HIDE DEF w
<1>6. PICK D \in SUBSET TunnelNames : s.tunnels \in [D -> Tunnels]
  BY Zenon DEF Daemons, Tables
<1>7. /\ made \in Tunnels /\ TunnelOf(made, cfg, n) /\ made.loss = w.loss
      /\ n \in DOMAIN s.tunnels /\ TunnelOf(s.tunnels[n], cfg, n) => made = [s.tunnels[n] EXCEPT !.loss = made.loss]
  <2>1. CASE n \in DOMAIN s.tunnels
    <3>1. s.tunnels[n] \in Tunnels
      BY Zenon, <1>6, <2>1
    <3>2. made = UpdateTunnel(s.tunnels[n], w)
      BY Zenon, <2>1
    <3> HIDE DEF made
    <3> DEFINE t == s.tunnels[n]
    <3> HIDE DEF t
    <3>3. t \in Tunnels /\ made = UpdateTunnel(t, w)
      BY Zenon, <3>1, <3>2 DEF t
    <3>4. /\ made \in Tunnels /\ Matches(made, w) /\ made.loss = w.loss
          /\ Matches(t, w) => made = [t EXCEPT !.loss = made.loss]
      BY Zenon, <1>1, <3>3, UpdateTunnelIs
    <3>5. TunnelOf(made, cfg, n)
      BY Zenon, <1>5, <3>4
    <3>6. TunnelOf(t, cfg, n) => made = [t EXCEPT !.loss = made.loss]
      BY Zenon, <1>5, <3>4
    <3> QED
      BY Zenon, <3>4, <3>5, <3>6 DEF t
  <2>2. CASE n \notin DOMAIN s.tunnels
    <3>1. made = NewTunnel(s, w)
      BY Zenon, <2>2
    <3> HIDE DEF made
    <3>2. made \in Tunnels /\ Matches(made, w) /\ made.loss = w.loss
      BY Zenon, <1>1, <3>1, NewTunnelIs
    <3>3. TunnelOf(made, cfg, n)
      BY Zenon, <1>5, <3>2
    <3> QED
      BY Zenon, <2>2, <3>2, <3>3
  <2> QED
    BY Zenon, <2>1, <2>2
<1> HIDE DEF made
<1>8. /\ tab \in Tables /\ DOMAIN tab = DOMAIN s.tunnels \cup {n} /\ tab[n] = made
      /\ \A m \in DOMAIN s.tunnels : m # n => tab[m] = s.tunnels[m]
  <2>1. D \cup {n} \in SUBSET TunnelNames /\ DOMAIN s.tunnels = D
    BY Zenon, <1>6
  <2>2. tab \in [D \cup {n} -> Tunnels]
    BY Zenon, <1>6, <1>7, <2>1
  <2>3. tab \in Tables
    BY Zenon, <2>1, <2>2 DEF Tables
  <2> QED
    BY Zenon, <2>3
<1>9. /\ fb \in BOOLEAN /\ up \in SUBSET TunnelNames
      /\ n \in DOMAIN s.tunnels /\ TunnelOf(s.tunnels[n], cfg, n) =>
            up = IF GivesAddresses(cfg, n) THEN s.up ELSE s.up \ {n}
  <2>1. s.up \in SUBSET TunnelNames
    BY Zenon DEF Daemons
  <2>2. TunnelOf(s.tunnels[n], cfg, n) => (SameAddresses(s.tunnels[n], w) <=> GivesAddresses(cfg, n))
    BY Zenon, <1>2, AddressesIs
  <2> QED
    BY Zenon, <2>1, <2>2
<1> HIDE DEF tab, fb, up
<1>10. CASE Lacking(s.local, cfg, n)
  <2>1. r = [s EXCEPT !.alive = FALSE]
    BY Zenon, <1>4, <1>10
  <2>2. r \in Daemons /\ r.filters = s.filters /\ ~r.alive
    BY Zenon, <2>1 DEF Daemons
  <2> QED
    BY Zenon, <1>10, <2>2 DEF TunnelDone
<1>11. CASE ~Lacking(s.local, cfg, n)
  <2>1. r = [s EXCEPT !.fallback = fb, !.up = up, !.tunnels = tab]
    BY Zenon, <1>4, <1>11
  <2>2. r \in Daemons /\ r.filters = s.filters /\ r.fallback = fb /\ r.up = up /\ r.tunnels = tab
    BY Zenon, <1>8, <1>9, <2>1 DEF Daemons
  <2>3. fb = (s.fallback \/ GetUint(cfg, n, <<"fallback_only">>, 0) # 0)
    BY Zenon, <1>2 DEF fb
  <2> QED
    BY Zenon, <1>2, <1>7, <1>8, <1>9, <1>11, <2>1, <2>2, <2>3 DEF TunnelRead, TunnelDone
<1> QED
  BY Zenon, <1>10, <1>11

(* A section leaves a daemon and no filters.                               *)
LEMMA SectionType ==
    ASSUME NEW cfg \in Files, NEW n \in SectionsOf(cfg), n # General, ~IsFilters(n)
    PROVE  n \in TunnelNames
<1>1. n \in TunnelsOf(cfg)
  BY Zenon DEF TunnelsOf
<1> QED
  BY Zenon, <1>1 DEF TunnelNames

(* A section is refused for what is in the file and the mode it gives.     *)
LEMMA SectionIs ==
    ASSUME NEW s \in Daemons, NEW cfg \in Files, NEW n \in SectionsOf(cfg), NEW first
    PROVE  /\ LoadSection(s, cfg, n, first) \in Daemons
           /\ LoadSection(s, cfg, n, first).filters = s.filters
<1>1. CASE ~s.alive \/ (n # General /\ IsFilters(n))
  BY Zenon, <1>1 DEF LoadSection
<1>2. CASE s.alive /\ n = General
  <2>1. LoadSection(s, cfg, n, first) = LoadGeneral(s, cfg, first)
    BY Zenon, <1>2 DEF LoadSection
  <2>2. \A r : r = LoadGeneral(s, cfg, first) => r \in Daemons /\ r.filters = s.filters
    BY ZenonT(40), GeneralIs
  <2> QED
    BY Zenon, <2>1, <2>2
<1>3. CASE s.alive /\ n # General /\ ~IsFilters(n)
  <2>1. n \in TunnelNames
    BY Zenon, <1>3, SectionType
  <2>2. LoadSection(s, cfg, n, first) = LoadTunnel(s, cfg, n)
    BY Zenon, <1>3 DEF LoadSection
  <2>3. \A r : r = LoadTunnel(s, cfg, n) => r \in Daemons /\ r.filters = s.filters
    BY ZenonT(40), <2>1, TunnelIs
  <2> QED
    BY Zenon, <2>2, <2>3
<1> QED
  BY Zenon, <1>1, <1>2, <1>3

(* The lines of a file, one after the other.                               *)
IsLoad(g, s, cfg, first) ==
    /\ g \in [0 .. Len(cfg) -> Daemons] /\ g[0] = s
    /\ \A k \in 1 .. Len(cfg) : g[k] = LoadLine(g[k - 1], cfg, k, first)
    /\ LoadLines(s, cfg, first) = g[Len(cfg)]

(* The loop over the lines, pass by pass.                                  *)
LEMMA LoadLoop ==
    ASSUME NEW s \in Daemons, NEW cfg \in Files, NEW first
    PROVE  \E g : IsLoad(g, s, cfg, first)
<1> DEFINE N == Len(cfg)
           Step(f, k) == IF k = 0 THEN s ELSE LoadLine(f[k - 1], cfg, k, first)
           Is(f) == f = [k \in 0 .. N |-> Step(f, k)]
           F == [k \in Nat |-> [r \in Daemons |-> IF k \in 1 .. N THEN LoadLine(r, cfg, k, first) ELSE r]]
           g == CHOOSE f : Is(f)
<1>1. N \in Nat /\ DOMAIN cfg = 1 .. N
  BY Zenon, ListFacts
<1>2. ASSUME NEW r \in Daemons, NEW k \in 1 .. N PROVE LoadLine(r, cfg, k, first) \in Daemons
  <2>1. cfg[k].section \in SectionsOf(cfg)
    BY Zenon, <1>1 DEF SectionsOf
  <2>2. LoadSection(r, cfg, cfg[k].section, first) \in Daemons
    BY Zenon, <2>1, SectionIs
  <2> QED
    BY Zenon, <2>2 DEF LoadLine
<1>3. F \in [Nat -> [Daemons -> Daemons]]
  <2> HIDE DEF N
  <2> QED
    BY Zenon, <1>2
<1>4. LoadLines(s, cfg, first) = g[N]
  BY Zenon DEF LoadLines
<1> HIDE DEF N
<1>5. PICK f \in [0 .. N -> Daemons] : IsLoop(f, N, s, F)
  <2> HIDE DEF F
  <2> QED
    BY Zenon, <1>1, <1>3, LoopExists
<1>6. \A k \in 1 .. N : k \in Nat /\ k # 0 /\ k \in 0 .. N /\ k - 1 \in 0 .. N
  BY SMT, <1>1
<1>7. \A k \in 0 .. N : f[k] = Step(f, k)
  <2>1. \A k \in 0 .. N : k # 0 => k \in 1 .. N
    BY SMT, <1>1
  <2> QED
    BY Zenon, <1>5, <1>6, <2>1 DEF IsLoop
<1>8. Is(g)
  <2>1. Is(f)
    BY Zenon, <1>5, <1>7
  <2> HIDE DEF Is
  <2> QED
    BY Zenon, <2>1
<1> HIDE DEF g
<1>9. g[0] = s /\ \A k \in 1 .. N : g[k] = LoadLine(g[k - 1], cfg, k, first)
  <2>1. 0 \in 0 .. N
    BY SMT, <1>1
  <2>2. \A k \in 0 .. N : g[k] = Step(g, k)
    BY Zenon, <1>8
  <2> QED
    BY Zenon, <1>6, <2>1, <2>2
<1> DEFINE T == {k \in 0 .. N : g[k] \in Daemons}
<1>10. \A k \in 0 .. N : k \in T
  <2>1. 0 \in T /\ \A k \in 1 .. N : k - 1 \in T => k \in T
    <3>1. 0 \in 0 .. N
      BY SMT, <1>1
    <3> QED
      BY Zenon, <1>2, <1>6, <1>9, <3>1
  <2> HIDE DEF T
  <2> QED
    BY Zenon, <1>1, <2>1, EveryPass
<1>11. g \in [0 .. N -> Daemons]
  BY Zenon, <1>8, <1>10
<1> QED
  BY Zenon, <1>4, <1>9, <1>11 DEF IsLoad, N

(* The lines of the filters, one after the other.                          *)
IsFiltering(g, s, cfg) ==
    /\ g \in [0 .. Len(cfg) -> Daemons] /\ g[0] = s
    /\ \A k \in 1 .. Len(cfg) : g[k] = AddFilter(g[k - 1], cfg[k])
    /\ s.alive => AddFilters(s, cfg) = g[Len(cfg)]

(* A line of the filters changes the filters only.                         *)
LEMMA FilterType ==
    ASSUME NEW s \in Daemons, NEW cfg \in Files, NEW k \in DOMAIN cfg
    PROVE  /\ AddFilter(s, cfg[k]) \in Daemons
           /\ AddFilter(s, cfg[k]) = [s EXCEPT !.filters = AddFilter(s, cfg[k]).filters]
<1> DEFINE e == cfg[k]
           f == [expr |-> e.val, tun |-> e.var]
<1>1. PICK D \in SUBSET TunnelNames : s.tunnels \in [D -> Tunnels]
  BY Zenon DEF Daemons, Tables
<1>2. ASSUME e.var \in DOMAIN s.tunnels PROVE f \in Filters
  <2>1. e.var \in TunnelNames
    BY Zenon, <1>1, <1>2
  <2>2. e.val \in UNION {{c[i].val : i \in DOMAIN c} : c \in Files}
    <3> DEFINE V(c) == {c[i].val : i \in DOMAIN c}
    <3>1. e.val \in V(cfg)
      BY Zenon
    <3> HIDE DEF V
    <3>2. e.val \in UNION {V(c) : c \in Files}
      BY Zenon, <3>1
    <3> QED
      BY Zenon, <3>2 DEF V
  <2> QED
    BY Zenon, <2>1, <2>2 DEF Filters
<1>3. s.filters \in Seq(Filters)
  BY Zenon DEF Daemons
<1>4. s = [s EXCEPT !.filters = s.filters]
  BY Zenon DEF Daemons
<1>5. CASE AddFilter(s, e) = s
  BY Zenon, <1>4, <1>5
<1>6. CASE e.var \in DOMAIN s.tunnels /\ AddFilter(s, e) = [s EXCEPT !.filters = Append(s.filters, f)]
  <2> HIDE DEF f
  <2>1. Append(s.filters, f) \in Seq(Filters)
    BY SMT, <1>2, <1>3, <1>6
  <2> DEFINE q == Append(s.filters, f)
  <2> HIDE DEF q
  <2>2. AddFilter(s, e) = [s EXCEPT !.filters = q] /\ q \in Seq(Filters)
    BY Zenon, <1>6, <2>1 DEF q
  <2>3. [s EXCEPT !.filters = q] \in Daemons /\ [s EXCEPT !.filters = q].filters = q
    BY Zenon, <2>2 DEF Daemons
  <2> QED
    BY Zenon, <2>2, <2>3
<1> QED
  BY Zenon, <1>5, <1>6 DEF AddFilter

(* The loop over the filters, pass by pass.                                *)
LEMMA FilterLoop ==
    ASSUME NEW s \in Daemons, NEW cfg \in Files
    PROVE  \E g : IsFiltering(g, s, cfg)
<1> DEFINE N == Len(cfg)
           Step(f, k) == IF k = 0 THEN s ELSE AddFilter(f[k - 1], cfg[k])
           Is(f) == f = [k \in 0 .. N |-> Step(f, k)]
           F == [k \in Nat |-> [r \in Daemons |-> IF k \in 1 .. N THEN AddFilter(r, cfg[k]) ELSE r]]
           g == CHOOSE f : Is(f)
<1>1. N \in Nat /\ DOMAIN cfg = 1 .. N
  BY Zenon, ListFacts
<1>2. ASSUME NEW r \in Daemons, NEW k \in 1 .. N PROVE AddFilter(r, cfg[k]) \in Daemons
  BY Zenon, <1>1, FilterType
<1>3. F \in [Nat -> [Daemons -> Daemons]]
  <2> HIDE DEF N
  <2> QED
    BY Zenon, <1>2
<1>4. s.alive => AddFilters(s, cfg) = g[N]
  BY Zenon DEF AddFilters
<1> HIDE DEF N
<1>5. PICK f \in [0 .. N -> Daemons] : IsLoop(f, N, s, F)
  <2> HIDE DEF F
  <2> QED
    BY Zenon, <1>1, <1>3, LoopExists
<1>6. \A k \in 1 .. N : k \in Nat /\ k # 0 /\ k \in 0 .. N /\ k - 1 \in 0 .. N
  BY SMT, <1>1
<1>7. \A k \in 0 .. N : f[k] = Step(f, k)
  <2>1. \A k \in 0 .. N : k # 0 => k \in 1 .. N
    BY SMT, <1>1
  <2> QED
    BY Zenon, <1>5, <1>6, <2>1 DEF IsLoop
<1>8. Is(g)
  <2>1. Is(f)
    BY Zenon, <1>5, <1>7
  <2> HIDE DEF Is
  <2> QED
    BY Zenon, <2>1
<1> HIDE DEF g
<1>9. g[0] = s /\ \A k \in 1 .. N : g[k] = AddFilter(g[k - 1], cfg[k])
  <2>1. 0 \in 0 .. N
    BY SMT, <1>1
  <2>2. \A k \in 0 .. N : g[k] = Step(g, k)
    BY Zenon, <1>8
  <2> QED
    BY Zenon, <1>6, <2>1, <2>2
<1> DEFINE T == {k \in 0 .. N : g[k] \in Daemons}
<1>10. \A k \in 0 .. N : k \in T
  <2>1. 0 \in T /\ \A k \in 1 .. N : k - 1 \in T => k \in T
    <3>1. 0 \in 0 .. N
      BY SMT, <1>1
    <3> QED
      BY Zenon, <1>2, <1>6, <1>9, <3>1
  <2> HIDE DEF T
  <2> QED
    BY Zenon, <1>1, <2>1, EveryPass
<1>11. g \in [0 .. N -> Daemons]
  BY Zenon, <1>8, <1>10
<1> QED
  BY Zenon, <1>4, <1>9, <1>11 DEF IsFiltering, N

-----------------------------------------------------------------------------
(* A load that starts from daemon s, next to one that starts from none.    *)
(* After the sections S: r and q are what the two have come to.            *)

TunnelsIn(S) == {n \in S : n # General /\ ~IsFilters(n)}

IsRead(r, cfg, S) ==
    /\ General \in S => GeneralOf(r, cfg)
    /\ \A n \in TunnelsIn(S) : TunnelOf(r.tunnels[n], cfg, n)

Alike(r, q, S) ==
    /\ r.local = q.local /\ r.fallback = q.fallback
    /\ \A n \in TunnelsIn(S) : r.tunnels[n].loss = q.tunnels[n].loss

SameOptions(s, r) ==
    /\ r.devname = s.devname /\ r.password = s.password /\ r.cleartext = s.cleartext
    /\ r.reorder = s.reorder /\ r.ring = s.ring /\ r.ip4 = s.ip4
    /\ r.gateway = s.gateway /\ r.routes = s.routes /\ r.mtu = s.mtu

ButLoss(t, u) == u = [t EXCEPT !.loss = u.loss]

SameTunnels(s, r) ==
    /\ DOMAIN r.tunnels = DOMAIN s.tunnels
    /\ \A n \in DOMAIN s.tunnels : ButLoss(s.tunnels[n], r.tunnels[n])

(* The tunnels of S that leave an address out are down.                    *)
UpAfter(s, r, cfg, S) == r.up = s.up \ {n \in TunnelsIn(S) : ~GivesAddresses(cfg, n)}

(* The daemon is as a load of the list has left it.                        *)
Settled(s, cfg) == DOMAIN s.tunnels = TunnelsOf(cfg) /\ IsRead(s, cfg, SectionsOf(cfg))

Going(s, r, q, cfg, S, first) ==
    /\ DOMAIN r.tunnels = DOMAIN s.tunnels \cup TunnelsIn(S) /\ DOMAIN q.tunnels = TunnelsIn(S)
    /\ IsRead(r, cfg, S) /\ IsRead(q, cfg, S) /\ Alike(r, q, S)
    /\ ~first /\ Settled(s, cfg) => SameOptions(s, r) /\ SameTunnels(s, r) /\ UpAfter(s, r, cfg, S)

(* r is s, and q a daemon before its first load, after the sections S of   *)
(* the list.                                                               *)
Along(s, r, q, cfg, S, first) ==
    /\ r \in Daemons /\ q \in Daemons
    /\ r.alive = q.alive /\ r.filters = <<>> /\ q.filters = <<>>
    /\ r.alive => Going(s, r, q, cfg, S, first)

(* GeneralOf is about the options only.                                    *)
LEMMA SameGeneral ==
    ASSUME NEW s, NEW r, NEW cfg, SameOptions(s, r), GeneralOf(s, cfg)
    PROVE  GeneralOf(r, cfg)
BY SMT DEF SameOptions, GeneralOf

(* A change of the tolerance leaves the rest of a tunnel.                  *)
LEMMA LossIs ==
    ASSUME NEW t \in Tunnels, NEW u, ButLoss(t, u)
    PROVE  /\ u.from = t.from /\ u.bind = t.bind /\ u.fib = t.fib
           /\ u.host = t.host /\ u.port = t.port
           /\ u.bw = t.bw /\ u.fallback = t.fallback
           /\ u.weight = t.weight /\ u.server = t.server /\ u.timeout = t.timeout
           /\ u.open = t.open /\ u.addrinfo = t.addrinfo
BY SMT DEF ButLoss, Tunnels

LEMMA LossTwice ==
    ASSUME NEW t \in Tunnels, NEW u, ButLoss(t, u), NEW w, ButLoss(u, w)
    PROVE  ButLoss(t, w)
<1> DEFINE a == u.loss
           b == w.loss
<1>1. u = [t EXCEPT !.loss = a] /\ w = [u EXCEPT !.loss = b]
  BY Zenon DEF ButLoss
<1> HIDE DEF a, b
<1>2. w = [t EXCEPT !.loss = b]
  BY Zenon, <1>1 DEF Tunnels
<1> QED
  BY Zenon, <1>2 DEF ButLoss, b

LEMMA LossTunnel ==
    ASSUME NEW t \in Tunnels, NEW u, ButLoss(t, u), NEW cfg, NEW n, TunnelOf(t, cfg, n)
    PROVE  TunnelOf(u, cfg, n)
BY Zenon, LossIs DEF TunnelOf

(* The tunnels of a daemon.                                                *)
LEMMA TableFacts ==
    ASSUME NEW s \in Daemons
    PROVE  /\ DOMAIN s.tunnels \subseteq TunnelNames
           /\ \A n \in DOMAIN s.tunnels : s.tunnels[n] \in Tunnels
           /\ s.alive \in BOOLEAN
<1>1. PICK D \in SUBSET TunnelNames : s.tunnels \in [D -> Tunnels]
  BY Zenon DEF Daemons, Tables
<1>2. s.alive \in BOOLEAN
  BY Zenon DEF Daemons
<1> QED
  BY Zenon, <1>1, <1>2

(* Along is preserved by section [general],                                *)
LEMMA GeneralStep ==
    ASSUME NEW s \in Daemons, NEW r, NEW q, NEW cfg \in Files, NEW S, NEW first,
           Along(s, r, q, cfg, S, first), r.alive, General \in SectionsOf(cfg),
           NEW r2, r2 = LoadGeneral(r, cfg, first), NEW q2, q2 = LoadGeneral(q, cfg, TRUE)
    PROVE  Along(s, r2, q2, cfg, S \cup {General}, first)
<1>1. r \in Daemons /\ q \in Daemons /\ r.filters = <<>> /\ q.filters = <<>> /\ Going(s, r, q, cfg, S, first)
  BY Zenon DEF Along
<1>2. r2 \in Daemons /\ r2.filters = <<>> /\ GeneralDone(r, r2, cfg, first)
  BY Zenon, <1>1, GeneralIs
<1>3. q2 \in Daemons /\ q2.filters = <<>> /\ GeneralDone(q, q2, cfg, TRUE)
  BY Zenon, <1>1, GeneralIs
<1>4. CASE Refused(cfg)
  <2>1. ~r2.alive /\ ~q2.alive
    BY Zenon, <1>2, <1>3, <1>4 DEF GeneralDone
  <2>2. r2.alive = q2.alive
    BY Zenon, <1>2, <1>3, <2>1, TableFacts
  <2> QED
    BY Zenon, <1>2, <1>3, <2>1, <2>2 DEF Along
<1>5. CASE ~Refused(cfg)
  <2>1. GeneralRead(r, r2, cfg, first) /\ GeneralRead(q, q2, cfg, TRUE)
    BY Zenon, <1>2, <1>3, <1>5 DEF GeneralDone
  <2>2. /\ r2.alive = r.alive /\ r2.fallback = r.fallback /\ r2.tunnels = r.tunnels /\ r2.up = r.up
        /\ r2.local = DefaultsOf(r.local, cfg) /\ GeneralOf(r2, cfg)
        /\ q2.alive = q.alive /\ q2.fallback = q.fallback /\ q2.tunnels = q.tunnels
        /\ q2.local = DefaultsOf(q.local, cfg) /\ GeneralOf(q2, cfg)
        /\ ~first /\ GeneralOf(r, cfg) => r2 = [r EXCEPT !.local = r2.local]
    BY Zenon, <2>1 DEF GeneralRead
  <2>3. TunnelsIn(S \cup {General}) = TunnelsIn(S)
    BY Zenon DEF TunnelsIn
  <2>4. IsRead(r2, cfg, S \cup {General}) /\ IsRead(q2, cfg, S \cup {General})
    BY Zenon, <1>1, <2>2, <2>3 DEF Going, IsRead
  <2>5. Alike(r2, q2, S \cup {General})
    BY ZenonT(40), <1>1, <2>2, <2>3 DEF Going, Alike
  <2>6. ASSUME ~first, Settled(s, cfg)
        PROVE  SameOptions(s, r2) /\ SameTunnels(s, r2) /\ UpAfter(s, r2, cfg, S \cup {General})
    <3>1. SameOptions(s, r) /\ SameTunnels(s, r) /\ GeneralOf(s, cfg)
      BY Zenon, <1>1, <2>6 DEF Going, Settled, IsRead
    <3>2. r2 = [r EXCEPT !.local = r2.local]
      BY Zenon, <2>2, <2>6, <3>1, SameGeneral
    <3>3. SameOptions(r, r2)
      <4> DEFINE l == r2.local
      <4>1. r2 = [r EXCEPT !.local = l]
        BY Zenon, <3>2
      <4> HIDE DEF l
      <4> QED
        BY Zenon, <1>1, <4>1 DEF Daemons, SameOptions
    <3>4. SameOptions(s, r2)
      BY Zenon, <3>1, <3>3 DEF SameOptions
    <3>5. SameTunnels(s, r2)
      BY Zenon, <2>2, <3>1 DEF SameTunnels
    <3>6. UpAfter(s, r2, cfg, S \cup {General})
      BY Zenon, <1>1, <2>2, <2>3, <2>6 DEF Going, UpAfter
    <3> QED
      BY Zenon, <3>4, <3>5, <3>6
  <2>7. Going(s, r2, q2, cfg, S \cup {General}, first)
    BY Zenon, <1>1, <2>2, <2>3, <2>4, <2>5, <2>6 DEF Going
  <2>8. r2.alive = q2.alive
    BY Zenon, <2>2 DEF Along
  <2> QED
    BY Zenon, <1>2, <1>3, <2>7, <2>8 DEF Along
<1> QED
  BY Zenon, <1>4, <1>5

(* by the section of a tunnel,                                             *)
LEMMA TunnelStep ==
    ASSUME NEW s \in Daemons, NEW r, NEW q, NEW cfg \in Files, NEW S, NEW first,
           Along(s, r, q, cfg, S, first), r.alive, NEW n \in TunnelsOf(cfg),
           NEW r2, r2 = LoadTunnel(r, cfg, n), NEW q2, q2 = LoadTunnel(q, cfg, n)
    PROVE  Along(s, r2, q2, cfg, S \cup {n}, first)
<1>1. /\ r \in Daemons /\ q \in Daemons /\ r.filters = <<>> /\ q.filters = <<>>
      /\ Going(s, r, q, cfg, S, first) /\ r.local = q.local
  BY Zenon DEF Along, Going, Alike
<1>2. n \in TunnelNames /\ n # General /\ ~IsFilters(n)
  BY Zenon DEF TunnelNames, TunnelsOf
<1>3. r2 \in Daemons /\ r2.filters = <<>> /\ TunnelDone(r, r2, cfg, n)
  BY Zenon, <1>1, <1>2, TunnelIs
<1>4. q2 \in Daemons /\ q2.filters = <<>> /\ TunnelDone(q, q2, cfg, n)
  BY Zenon, <1>1, <1>2, TunnelIs
<1>5. CASE Lacking(r.local, cfg, n)
  <2>1. ~r2.alive /\ ~q2.alive
    BY Zenon, <1>1, <1>3, <1>4, <1>5 DEF TunnelDone
  <2>2. r2.alive = q2.alive
    BY Zenon, <1>3, <1>4, <2>1, TableFacts
  <2> QED
    BY Zenon, <1>3, <1>4, <2>1, <2>2 DEF Along
<1>6. CASE ~Lacking(r.local, cfg, n)
  <2>1. TunnelRead(r, r2, cfg, n) /\ TunnelRead(q, q2, cfg, n)
    BY Zenon, <1>1, <1>3, <1>4, <1>6 DEF TunnelDone
  <2>2. TunnelsIn(S \cup {n}) = TunnelsIn(S) \cup {n}
    BY Zenon, <1>2 DEF TunnelsIn
  <2>3. ASSUME NEW u \in Daemons, NEW u2, TunnelRead(u, u2, cfg, n)
        PROVE  u2.alive = u.alive /\ u2.local = u.local /\ SameOptions(u, u2)
    <3> DEFINE f == u2.fallback
               t == u2.tunnels
               p == u2.up
    <3>1. u2 = [u EXCEPT !.fallback = f, !.up = p, !.tunnels = t]
      BY Zenon, <2>3 DEF TunnelRead
    <3> HIDE DEF f, t, p
    <3> QED
      BY Zenon, <3>1 DEF Daemons, SameOptions
  <2>4. ASSUME NEW u \in Daemons, NEW u2, TunnelRead(u, u2, cfg, n), IsRead(u, cfg, S),
               TunnelsIn(S) \subseteq DOMAIN u.tunnels
        PROVE  IsRead(u2, cfg, S \cup {n})
    <3>1. General \in S \cup {n} => GeneralOf(u2, cfg)
      BY Zenon, <1>2, <2>3, <2>4, SameGeneral DEF IsRead
    <3>2. \A m \in TunnelsIn(S) : m # n => TunnelOf(u2.tunnels[m], cfg, m)
      BY Zenon, <2>4 DEF TunnelRead, IsRead
    <3>3. TunnelOf(u2.tunnels[n], cfg, n)
      BY Zenon, <2>4 DEF TunnelRead
    <3> QED
      BY Zenon, <2>2, <3>1, <3>2, <3>3 DEF IsRead
  <2>5. /\ DOMAIN r.tunnels = DOMAIN s.tunnels \cup TunnelsIn(S) /\ DOMAIN q.tunnels = TunnelsIn(S)
        /\ IsRead(r, cfg, S) /\ IsRead(q, cfg, S) /\ Alike(r, q, S)
        /\ TunnelsIn(S) \subseteq DOMAIN r.tunnels /\ TunnelsIn(S) \subseteq DOMAIN q.tunnels
    BY Zenon, <1>1 DEF Going
  <2>6. IsRead(r2, cfg, S \cup {n}) /\ IsRead(q2, cfg, S \cup {n})
    BY Zenon, <1>1, <2>1, <2>4, <2>5
  <2>7. /\ DOMAIN r2.tunnels = DOMAIN s.tunnels \cup TunnelsIn(S \cup {n})
        /\ DOMAIN q2.tunnels = TunnelsIn(S \cup {n})
    <3>1. DOMAIN r2.tunnels = DOMAIN r.tunnels \cup {n} /\ DOMAIN q2.tunnels = DOMAIN q.tunnels \cup {n}
      BY Zenon, <2>1 DEF TunnelRead
    <3> QED
      BY Zenon, <2>2, <2>5, <3>1
  <2>8. Alike(r2, q2, S \cup {n})
    <3>1. r2.local = q2.local
      BY Zenon, <1>1, <2>1, <2>3
    <3>2. r2.fallback = q2.fallback
      BY Zenon, <2>1, <2>5 DEF TunnelRead, Alike
    <3>3. r2.tunnels[n].loss = q2.tunnels[n].loss
      BY ZenonT(40), <1>1, <2>1 DEF TunnelRead
    <3>4. ASSUME NEW m \in TunnelsIn(S), m # n PROVE r2.tunnels[m].loss = q2.tunnels[m].loss
      <4>1. r2.tunnels[m] = r.tunnels[m] /\ q2.tunnels[m] = q.tunnels[m]
        BY Zenon, <2>1, <2>5, <3>4 DEF TunnelRead
      <4>2. r.tunnels[m].loss = q.tunnels[m].loss
        BY Zenon, <2>5 DEF Alike
      <4> QED
        BY Zenon, <4>1, <4>2
    <3> QED
      BY Zenon, <2>2, <3>1, <3>2, <3>3, <3>4 DEF Alike
  <2>9. ASSUME ~first, Settled(s, cfg)
        PROVE  SameOptions(s, r2) /\ SameTunnels(s, r2) /\ UpAfter(s, r2, cfg, S \cup {n})
    <3>1. /\ SameOptions(s, r) /\ SameTunnels(s, r) /\ DOMAIN s.tunnels = TunnelsOf(cfg)
          /\ DOMAIN r.tunnels = DOMAIN s.tunnels
      BY Zenon, <1>1, <2>9 DEF Going, Settled, SameTunnels
    <3>2. TunnelOf(s.tunnels[n], cfg, n)
      BY Zenon, <2>9 DEF Settled, IsRead, TunnelsIn, TunnelsOf
    <3>3. SameOptions(s, r2)
      <4>1. SameOptions(r, r2)
        BY Zenon, <1>1, <2>1, <2>3
      <4> QED
        BY Zenon, <3>1, <4>1 DEF SameOptions
    <3>4. s.tunnels[n] \in Tunnels /\ ButLoss(s.tunnels[n], r.tunnels[n])
      BY Zenon, <3>1, TableFacts DEF SameTunnels
    <3>5. /\ ButLoss(r.tunnels[n], r2.tunnels[n])
          /\ r2.up = IF GivesAddresses(cfg, n) THEN r.up ELSE r.up \ {n}
      <4>1. TunnelOf(r.tunnels[n], cfg, n)
        BY Zenon, <3>2, <3>4, LossTunnel
      <4> QED
        BY Zenon, <2>1, <3>1, <4>1 DEF TunnelRead, ButLoss
    <3>6. ButLoss(s.tunnels[n], r2.tunnels[n])
      BY Zenon, <3>4, <3>5, LossTwice
    <3>7. DOMAIN r2.tunnels = DOMAIN s.tunnels
      BY Zenon, <2>1, <3>1 DEF TunnelRead
    <3>8. \A m \in DOMAIN s.tunnels : m # n => ButLoss(s.tunnels[m], r2.tunnels[m])
      <4>1. \A m \in DOMAIN r.tunnels : m # n => r2.tunnels[m] = r.tunnels[m]
        BY Zenon, <2>1 DEF TunnelRead
      <4>2. \A m \in DOMAIN s.tunnels : ButLoss(s.tunnels[m], r.tunnels[m])
        BY Zenon, <3>1 DEF SameTunnels
      <4> QED
        BY Zenon, <3>1, <4>1, <4>2
    <3>9. UpAfter(s, r2, cfg, S \cup {n})
      <4>1. r.up = s.up \ {m \in TunnelsIn(S) : ~GivesAddresses(cfg, m)}
        BY Zenon, <1>1, <2>9 DEF Going, UpAfter
      <4> DEFINE Out(T) == {m \in T : ~GivesAddresses(cfg, m)}
      <4>3. Out(TunnelsIn(S) \cup {n}) =
               Out(TunnelsIn(S)) \cup (IF GivesAddresses(cfg, n) THEN {} ELSE {n})
        BY Zenon
      <4>4. r2.up = s.up \ Out(TunnelsIn(S) \cup {n})
        <5> HIDE DEF Out
        <5>1. r.up = s.up \ Out(TunnelsIn(S))
          BY Zenon, <4>1 DEF Out
        <5> QED
          BY Zenon, <3>5, <4>3, <5>1
      <4> QED
        BY Zenon, <2>2, <4>4 DEF UpAfter
    <3> QED
      BY Zenon, <3>3, <3>6, <3>7, <3>8, <3>9 DEF SameTunnels
  <2>10. Going(s, r2, q2, cfg, S \cup {n}, first)
    BY Zenon, <2>6, <2>7, <2>8, <2>9 DEF Going
  <2>11. r2.alive = q2.alive
    BY Zenon, <1>1, <2>1, <2>3 DEF Along
  <2> QED
    BY Zenon, <1>3, <1>4, <2>10, <2>11 DEF Along
<1> QED
  BY Zenon, <1>5, <1>6

(* by any section,                                                         *)
LEMMA SectionWalk ==
    ASSUME NEW s \in Daemons, NEW r, NEW q, NEW cfg \in Files, NEW S, NEW first,
           Along(s, r, q, cfg, S, first), NEW n \in SectionsOf(cfg)
    PROVE  Along(s, LoadSection(r, cfg, n, first), LoadSection(q, cfg, n, TRUE), cfg, S \cup {n}, first)
<1> DEFINE r2 == LoadSection(r, cfg, n, first)
           q2 == LoadSection(q, cfg, n, TRUE)
<1>1. r.alive = q.alive
  BY Zenon DEF Along
<1>2. CASE ~r.alive
  <2>1. r2 = r /\ q2 = q
    BY Zenon, <1>1, <1>2 DEF LoadSection
  <2> HIDE DEF r2, q2
  <2>2. Along(s, r2, q2, cfg, S \cup {n}, first)
    BY Zenon, <1>2, <2>1 DEF Along
  <2> QED
    BY Zenon, <2>2 DEF r2, q2
<1>3. CASE r.alive /\ n = General
  <2>1. r2 = LoadGeneral(r, cfg, first) /\ q2 = LoadGeneral(q, cfg, TRUE)
    BY Zenon, <1>1, <1>3 DEF LoadSection
  <2> HIDE DEF r2, q2
  <2>2. Along(s, r2, q2, cfg, S \cup {n}, first)
    BY Zenon, <1>3, <2>1, GeneralStep
  <2> QED
    BY Zenon, <2>2 DEF r2, q2
<1>4. CASE r.alive /\ n # General /\ IsFilters(n)
  <2>1. r2 = r /\ q2 = q
    BY Zenon, <1>4 DEF LoadSection
  <2>2. TunnelsIn(S \cup {n}) = TunnelsIn(S) /\ (General \in S \cup {n} => General \in S)
    BY Zenon, <1>4 DEF TunnelsIn
  <2>3. Going(s, r, q, cfg, S, first)
    BY Zenon, <1>4 DEF Along
  <2>4. IsRead(r, cfg, S \cup {n}) /\ IsRead(q, cfg, S \cup {n}) /\ Alike(r, q, S \cup {n})
    BY Zenon, <2>2, <2>3 DEF Going, IsRead, Alike
  <2>5. Going(s, r, q, cfg, S \cup {n}, first)
    BY Zenon, <2>2, <2>3, <2>4 DEF Going, UpAfter
  <2> HIDE DEF r2, q2
  <2>6. Along(s, r2, q2, cfg, S \cup {n}, first)
    BY Zenon, <2>1, <2>5 DEF Along
  <2> QED
    BY Zenon, <2>6 DEF r2, q2
<1>5. CASE r.alive /\ n # General /\ ~IsFilters(n)
  <2>1. r2 = LoadTunnel(r, cfg, n) /\ q2 = LoadTunnel(q, cfg, n)
    BY Zenon, <1>1, <1>5 DEF LoadSection
  <2>2. n \in TunnelsOf(cfg)
    BY Zenon, <1>5 DEF TunnelsOf
  <2> HIDE DEF r2, q2
  <2>3. Along(s, r2, q2, cfg, S \cup {n}, first)
    BY Zenon, <1>5, <2>1, <2>2, TunnelStep
  <2> QED
    BY Zenon, <2>3 DEF r2, q2
<1> QED
  BY Zenon, <1>2, <1>3, <1>4, <1>5

SectionsTo(cfg, k) == {cfg[i].section : i \in 1 .. k}

(* and by a line, with the section it starts.                              *)
LEMMA LinesStep ==
    ASSUME NEW s \in Daemons, NEW r, NEW q, NEW cfg \in Files, NEW first, NEW k \in 1 .. Len(cfg),
           Along(s, r, q, cfg, SectionsTo(cfg, k - 1), first)
    PROVE  Along(s, LoadLine(r, cfg, k, first), LoadLine(q, cfg, k, TRUE), cfg, SectionsTo(cfg, k), first)
<1> DEFINE n == cfg[k].section
<1>1. Len(cfg) \in Nat /\ DOMAIN cfg = 1 .. Len(cfg)
  BY Zenon, ListFacts
<1>2. 1 .. k = (1 .. k - 1) \cup {k} /\ k \in Nat /\ (k # 1 => k - 1 \in 1 .. k - 1)
  BY SMT, <1>1
<1>3. SectionsTo(cfg, k) = SectionsTo(cfg, k - 1) \cup {n}
  BY Zenon, <1>2 DEF SectionsTo
<1>4. CASE k = 1 \/ n # cfg[k - 1].section
  <2>1. n \in SectionsOf(cfg)
    BY Zenon, <1>1 DEF SectionsOf
  <2>2. Along(s, LoadSection(r, cfg, n, first), LoadSection(q, cfg, n, TRUE), cfg, SectionsTo(cfg, k), first)
    <3> DEFINE S == SectionsTo(cfg, k - 1)
    <3>1. SectionsTo(cfg, k) = S \cup {n} /\ Along(s, r, q, cfg, S, first)
      BY Zenon, <1>3
    <3> HIDE DEF S, n
    <3>2. Along(s, LoadSection(r, cfg, n, first), LoadSection(q, cfg, n, TRUE), cfg, S \cup {n}, first)
      BY Zenon, <2>1, <3>1, SectionWalk
    <3> QED
      BY Zenon, <3>1, <3>2
  <2>3. /\ LoadLine(r, cfg, k, first) = LoadSection(r, cfg, n, first)
        /\ LoadLine(q, cfg, k, TRUE) = LoadSection(q, cfg, n, TRUE)
    BY Zenon, <1>4 DEF LoadLine
  <2> QED
    BY Zenon, <2>2, <2>3
<1>5. CASE ~(k = 1 \/ n # cfg[k - 1].section)
  <2>1. n \in SectionsTo(cfg, k - 1)
    BY Zenon, <1>2, <1>5 DEF SectionsTo
  <2>2. SectionsTo(cfg, k) = SectionsTo(cfg, k - 1)
    BY Zenon, <1>3, <2>1
  <2>3. LoadLine(r, cfg, k, first) = r /\ LoadLine(q, cfg, k, TRUE) = q
    BY Zenon, <1>5 DEF LoadLine
  <2> QED
    BY Zenon, <2>2, <2>3
<1> QED
  BY Zenon, <1>4, <1>5

(* The daemon before its first load.                                       *)
LEMMA NoDaemonType == NoDaemon \in Daemons /\ NoDaemon.alive /\ NoDaemon.filters = <<>> /\ DOMAIN NoDaemon.tunnels = {}
<1>1. Null \in Values
  BY Zenon DEF Values
<1>2. Locals \in Defaults
  BY SMT DEF Locals, Defaults
<1>3. <<>> \in Tables /\ <<>> \in Seq(Filters) /\ DOMAIN <<>> = {}
  <2>1. <<>> \in [{} -> Tunnels]
    BY SMT
  <2>2. <<>> \in Tables
    BY Zenon, <2>1 DEF Tables
  <2>3. <<>> \in Seq(Filters) /\ DOMAIN <<>> = {}
    BY SMT
  <2> QED
    BY Zenon, <2>2, <2>3
<1>4. 0 \in Nat /\ 1 \in Nat
  BY SMT
<1>5. NoDaemon \in Daemons
  BY Zenon, <1>1, <1>2, <1>3, <1>4 DEF NoDaemon, Daemons
<1> QED
  BY Zenon, <1>3, <1>5 DEF NoDaemon

(* What mlvpn_config clears.                                               *)
LEMMA ForgetIs ==
    ASSUME NEW s \in Daemons, NEW r, r = Forget(s)
    PROVE  /\ r \in Daemons /\ SameOptions(s, r) /\ r.tunnels = s.tunnels /\ r.alive = s.alive
           /\ r.up = s.up /\ r.fallback = FALSE /\ r.filters = <<>> /\ r.local = Locals
<1>1. Locals \in Defaults /\ <<>> \in Seq(Filters)
  BY SMT DEF Locals, Defaults
<1>2. r = [s EXCEPT !.fallback = FALSE, !.filters = <<>>, !.local = Locals]
  BY Zenon DEF Forget
<1> QED
  BY ZenonT(40), <1>1, <1>2 DEF Daemons, SameOptions

(* After all lines the two loads agree on all sections.                    *)
LEMMA LinesAlong ==
    ASSUME NEW s \in Daemons, s.alive, NEW cfg \in Files, NEW first
    PROVE  Along(s, LoadLines(Forget(s), cfg, first), LoadLines(Forget(NoDaemon), cfg, TRUE),
                 cfg, SectionsOf(cfg), first)
<1> DEFINE N == Len(cfg)
           r == Forget(s)
           q == Forget(NoDaemon)
<1>1. N \in Nat /\ DOMAIN cfg = 1 .. N
  BY Zenon, ListFacts
<1>2. /\ r \in Daemons /\ SameOptions(s, r) /\ r.tunnels = s.tunnels /\ r.alive = s.alive
      /\ r.up = s.up /\ r.fallback = FALSE /\ r.filters = <<>> /\ r.local = Locals
  BY Zenon, ForgetIs
<1>3. /\ q \in Daemons /\ q.tunnels = NoDaemon.tunnels /\ q.alive = NoDaemon.alive
      /\ q.fallback = FALSE /\ q.filters = <<>> /\ q.local = Locals
  BY Zenon, ForgetIs, NoDaemonType
<1> HIDE DEF r, q, N
<1>4. PICK g : IsLoad(g, r, cfg, first)
  BY Zenon, <1>2, LoadLoop
<1>5. PICK h : IsLoad(h, q, cfg, TRUE)
  BY Zenon, <1>3, LoadLoop
<1>6. Along(s, r, q, cfg, SectionsTo(cfg, 0), first)
  <2>1. SectionsTo(cfg, 0) = {}
    <3>1. 1 .. 0 = {}
      BY SMT
    <3> QED
      BY Zenon, <3>1 DEF SectionsTo
  <2>2. TunnelsIn({}) = {}
    BY Zenon DEF TunnelsIn
  <2>3. DOMAIN r.tunnels = DOMAIN s.tunnels /\ DOMAIN q.tunnels = {} /\ r.alive = q.alive
    <3>1. s.alive \in BOOLEAN /\ NoDaemon.alive \in BOOLEAN
      BY Zenon, TableFacts, NoDaemonType
    <3> QED
      BY Zenon, <1>2, <1>3, <3>1, NoDaemonType
  <2>4. \A n \in DOMAIN s.tunnels : ButLoss(s.tunnels[n], s.tunnels[n])
    <3>1. ASSUME NEW t \in Tunnels PROVE ButLoss(t, t)
      BY SMT DEF ButLoss, Tunnels
    <3> QED
      BY Zenon, <3>1, TableFacts
  <2>5. SameTunnels(s, r)
    BY Zenon, <1>2, <2>4 DEF SameTunnels
  <2>6. IsRead(r, cfg, {}) /\ IsRead(q, cfg, {}) /\ Alike(r, q, {})
    BY Zenon, <1>2, <1>3, <2>2 DEF IsRead, Alike
  <2>7. UpAfter(s, r, cfg, {})
    BY SMT, <1>2, <2>2 DEF UpAfter
  <2>8. Going(s, r, q, cfg, {}, first)
    BY Zenon, <1>2, <2>2, <2>3, <2>5, <2>6, <2>7 DEF Going
  <2> QED
    BY Zenon, <1>2, <1>3, <2>1, <2>3, <2>8 DEF Along
<1> DEFINE A(k) == Along(s, g[k], h[k], cfg, SectionsTo(cfg, k), first)
           T == {k \in 0 .. N : A(k)}
<1>7. \A k \in 1 .. N : k \in 0 .. N /\ k - 1 \in 0 .. N
  BY SMT, <1>1
<1>8. \A k \in 1 .. N : /\ g[k] = LoadLine(g[k - 1], cfg, k, first)
                        /\ h[k] = LoadLine(h[k - 1], cfg, k, TRUE)
  BY Zenon, <1>4, <1>5 DEF IsLoad, N
<1>9. ASSUME NEW k \in 1 .. N, A(k - 1) PROVE A(k)
  <2>1. k \in 1 .. Len(cfg) /\ Along(s, g[k - 1], h[k - 1], cfg, SectionsTo(cfg, k - 1), first)
    BY Zenon, <1>9 DEF N
  <2>2. Along(s, LoadLine(g[k - 1], cfg, k, first), LoadLine(h[k - 1], cfg, k, TRUE), cfg,
              SectionsTo(cfg, k), first)
    BY Zenon, <2>1, LinesStep
  <2> QED
    BY Zenon, <1>8, <2>2
<1>10. A(0)
  BY Zenon, <1>4, <1>5, <1>6 DEF IsLoad
<1>11. 0 \in T /\ \A k \in 1 .. N : k - 1 \in T => k \in T
  <2> HIDE DEF A
  <2>1. 0 \in 0 .. N
    BY SMTT(20), <1>1
  <2> QED
    BY Zenon, <1>7, <1>9, <1>10, <2>1
<1>12. N \in T
  <2> HIDE DEF T
  <2>1. N \in 0 .. N
    BY SMT, <1>1
  <2> QED
    BY Zenon, <1>1, <1>11, <2>1, EveryPass
<1>13. SectionsTo(cfg, N) = SectionsOf(cfg)
  BY Zenon, <1>1 DEF SectionsTo, SectionsOf
<1>14. LoadLines(r, cfg, first) = g[N] /\ LoadLines(q, cfg, TRUE) = h[N]
  BY Zenon, <1>4, <1>5 DEF IsLoad, N
<1> QED
  BY Zenon, <1>12, <1>13, <1>14 DEF r, q

-----------------------------------------------------------------------------
(* The tunnels that left the file.                                         *)

(* All but the tunnels, their status and the filters is the same.          *)
SameRest(s, r) ==
    SameOptions(s, r) /\ r.alive = s.alive /\ r.fallback = s.fallback /\ r.local = s.local

(* A tunnel is in the file if it has a section.                            *)
LEMMA InFileIs ==
    ASSUME NEW cfg, NEW n \in TunnelNames
    PROVE  InFile(cfg, n) <=> n \in TunnelsOf(cfg)
<1>1. n # General /\ ~IsFilters(n)
  BY Zenon DEF TunnelNames, TunnelsOf
<1> QED
  BY Zenon, <1>1 DEF InFile, TunnelsOf, SectionsOf

DropDone(s, r, cfg) ==
    r.alive => /\ SameRest(s, r) /\ DOMAIN r.tunnels = DOMAIN s.tunnels \cap TunnelsOf(cfg)
               /\ \A n \in DOMAIN r.tunnels : r.tunnels[n] = s.tunnels[n]
               /\ DOMAIN s.tunnels = TunnelsOf(cfg) => r.up = s.up

(* The tunnels left are those of the file.                                 *)
LEMMA DropIs ==
    ASSUME NEW s \in Daemons, NEW cfg, NEW r, r = DropOld(s, cfg)
    PROVE  r \in Daemons /\ r.filters = s.filters /\ DropDone(s, r, cfg)
<1> DEFINE old == {n \in DOMAIN s.tunnels : ~InFile(cfg, n)}
           tab == [n \in DOMAIN s.tunnels \ old |-> s.tunnels[n]]
<1>1. DOMAIN s.tunnels \ old = DOMAIN s.tunnels \cap TunnelsOf(cfg)
  BY Zenon, InFileIs, TableFacts
<1>2. tab \in Tables
  <2>1. tab \in [DOMAIN s.tunnels \ old -> Tunnels] /\ DOMAIN s.tunnels \ old \in SUBSET TunnelNames
    BY Zenon, TableFacts
  <2> HIDE DEF tab, old
  <2> QED
    BY Zenon, <2>1 DEF Tables
<1>3. r = IF ~s.alive THEN s
          ELSE IF \E n \in old : s.tunnels[n].addrinfo = Null THEN [s EXCEPT !.alive = FALSE]
          ELSE [s EXCEPT !.up = s.up \ old, !.tunnels = tab]
  BY Zenon DEF DropOld
<1>4. DOMAIN tab = DOMAIN s.tunnels \cap TunnelsOf(cfg) /\ \A n \in DOMAIN tab : tab[n] = s.tunnels[n]
  BY Zenon, <1>1
<1> DEFINE up == s.up \ old
<1>8. up \in SUBSET TunnelNames /\ (DOMAIN s.tunnels = TunnelsOf(cfg) => up = s.up)
  <2>1. s.up \in SUBSET TunnelNames
    BY Zenon DEF Daemons
  <2>2. DOMAIN s.tunnels = TunnelsOf(cfg) => old = {}
    BY Zenon, InFileIs, TableFacts
  <2> HIDE DEF old
  <2> QED
    BY SMT, <2>1, <2>2
<1> HIDE DEF tab, old, up
<1>5. CASE ~s.alive
  BY Zenon, <1>3, <1>5 DEF DropDone
<1>6. CASE s.alive /\ \E n \in old : s.tunnels[n].addrinfo = Null
  <2>1. r = [s EXCEPT !.alive = FALSE]
    BY Zenon, <1>3, <1>6
  <2>2. r \in Daemons /\ r.filters = s.filters /\ ~r.alive
    BY Zenon, <2>1 DEF Daemons
  <2> QED
    BY Zenon, <2>2 DEF DropDone
<1>7. CASE s.alive /\ ~\E n \in old : s.tunnels[n].addrinfo = Null
  <2>1. r = [s EXCEPT !.up = up, !.tunnels = tab]
    BY Zenon, <1>3, <1>7 DEF up
  <2>2. r \in Daemons /\ r.filters = s.filters /\ SameRest(s, r) /\ r.tunnels = tab /\ r.up = up
    BY Zenon, <1>2, <1>8, <2>1 DEF Daemons, SameRest, SameOptions
  <2> QED
    BY Zenon, <1>4, <1>8, <2>2 DEF DropDone
<1> QED
  BY Zenon, <1>5, <1>6, <1>7

-----------------------------------------------------------------------------
(* The filters, of two daemons with the same tunnels.                      *)

Targets(r) == Len(r.filters) <= MaxFilters /\ \A i \in DOMAIN r.filters : r.filters[i].tun \in DOMAIN r.tunnels

Kept(s, r) == SameRest(s, r) /\ r.tunnels = s.tunnels /\ r.up = s.up

Filtered(s, r, t, q) ==
    /\ r \in Daemons /\ q \in Daemons /\ Kept(s, r) /\ Kept(t, q)
    /\ r.filters = q.filters /\ Targets(r)

(* A line of the filters adds the same one to two daemons with the same    *)
(* tunnels and filters, or none to both.                                   *)
LEMMA FilterStep ==
    ASSUME NEW s, NEW t, DOMAIN s.tunnels = DOMAIN t.tunnels, NEW r, NEW q, Filtered(s, r, t, q),
           NEW cfg \in Files, NEW k \in DOMAIN cfg
    PROVE  Filtered(s, AddFilter(r, cfg[k]), t, AddFilter(q, cfg[k]))
<1> DEFINE e == cfg[k]
           f == [expr |-> e.val, tun |-> e.var]
           fs == Append(r.filters, f)
           r2 == AddFilter(r, e)
           q2 == AddFilter(q, e)
           c == /\ IsFilters(e.section) /\ e.val # <<"bad">>
                /\ e.var \in DOMAIN s.tunnels /\ Len(r.filters) < MaxFilters
<1>1. /\ r \in Daemons /\ q \in Daemons /\ r.filters = q.filters /\ Targets(r)
      /\ r.tunnels = s.tunnels /\ q.tunnels = t.tunnels /\ Kept(s, r) /\ Kept(t, q)
  BY Zenon DEF Filtered, Kept
<1>2. r2 \in Daemons /\ q2 \in Daemons
  BY Zenon, <1>1, FilterType
<1>3. CASE ~c
  <2>1. r2 = r /\ q2 = q
    BY Zenon, <1>1, <1>3 DEF AddFilter
  <2> HIDE DEF r2, q2
  <2>2. Filtered(s, r2, t, q2)
    BY Zenon, <2>1
  <2> QED
    BY Zenon, <2>2 DEF r2, q2
<1>4. CASE c
  <2>1. r2 = [r EXCEPT !.filters = fs] /\ q2 = [q EXCEPT !.filters = fs]
    BY Zenon, <1>1, <1>4 DEF AddFilter
  <2>2. /\ f.tun \in DOMAIN s.tunnels /\ Len(r.filters) < MaxFilters
    BY Zenon, <1>4
  <2>3. Len(fs) <= MaxFilters /\ \A i \in DOMAIN fs : fs[i].tun \in DOMAIN s.tunnels
    <3> DEFINE o == r.filters
    <3>1. o \in Seq(Filters) /\ Len(o) < MaxFilters /\ \A i \in DOMAIN o : o[i].tun \in DOMAIN s.tunnels
      BY Zenon, <1>1, <2>2 DEF Daemons, Targets
    <3>2. fs = Append(o, f)
      BY Zenon
    <3> HIDE DEF o, f, fs
    <3>3. /\ Len(fs) <= MaxFilters
          /\ \A i \in DOMAIN fs : (i \in DOMAIN o /\ fs[i] = o[i]) \/ fs[i] = f
      BY SMTT(20), <3>1, <3>2, BoundsAssumption
    <3> QED
      BY Zenon, <2>2, <3>1, <3>3
  <2> HIDE DEF fs, f, r2, q2, c
  <2>4. /\ r2.filters = fs /\ SameRest(r, r2) /\ r2.tunnels = r.tunnels /\ r2.up = r.up
        /\ q2.filters = fs /\ SameRest(q, q2) /\ q2.tunnels = q.tunnels /\ q2.up = q.up
    BY Zenon, <1>1, <2>1 DEF Daemons, SameRest, SameOptions
  <2>5. Kept(s, r2) /\ Kept(t, q2)
    BY Zenon, <1>1, <2>4 DEF Kept, SameRest, SameOptions
  <2>6. Targets(r2)
    BY Zenon, <1>1, <2>3, <2>4 DEF Targets
  <2>7. Filtered(s, r2, t, q2)
    BY Zenon, <1>2, <2>4, <2>5, <2>6 DEF Filtered
  <2> QED
    BY Zenon, <2>7 DEF r2, q2
<1> QED
  BY Zenon, <1>3, <1>4

(* So the filters of the two loads are the same.                           *)
LEMMA FiltersAgree ==
    ASSUME NEW s \in Daemons, NEW t \in Daemons, DOMAIN s.tunnels = DOMAIN t.tunnels,
           s.filters = <<>>, t.filters = <<>>, s.alive, t.alive, NEW cfg \in Files
    PROVE  Filtered(s, AddFilters(s, cfg), t, AddFilters(t, cfg))
<1> DEFINE N == Len(cfg)
<1>1. N \in Nat /\ DOMAIN cfg = 1 .. N
  BY Zenon, ListFacts
<1> HIDE DEF N
<1>2. PICK g : IsFiltering(g, s, cfg)
  BY Zenon, FilterLoop
<1>3. PICK h : IsFiltering(h, t, cfg)
  BY Zenon, FilterLoop
<1> DEFINE A(k) == Filtered(s, g[k], t, h[k])
           T == {k \in 0 .. N : A(k)}
<1>4. A(0)
  <2>1. Len(<<>>) <= MaxFilters /\ DOMAIN <<>> = {}
    BY SMT, BoundsAssumption
  <2>2. Targets(s)
    BY Zenon, <2>1 DEF Targets
  <2>3. Kept(s, s) /\ Kept(t, t)
    BY Zenon DEF Kept, SameRest, SameOptions
  <2>4. g[0] = s /\ h[0] = t
    BY Zenon, <1>2, <1>3 DEF IsFiltering
  <2> QED
    BY Zenon, <2>2, <2>3, <2>4 DEF Filtered
<1>5. ASSUME NEW k \in 1 .. N, A(k - 1) PROVE A(k)
  <2>1. g[k] = AddFilter(g[k - 1], cfg[k]) /\ h[k] = AddFilter(h[k - 1], cfg[k]) /\ k \in DOMAIN cfg
    BY Zenon, <1>1, <1>2, <1>3 DEF IsFiltering, N
  <2> QED
    BY ZenonT(40), <1>5, <2>1, FilterStep
<1>6. \A k \in 1 .. N : k \in 0 .. N /\ k - 1 \in 0 .. N
  BY SMT, <1>1
<1>7. 0 \in T /\ \A k \in 1 .. N : k - 1 \in T => k \in T
  <2> HIDE DEF A
  <2>1. 0 \in 0 .. N
    BY SMT, <1>1
  <2> QED
    BY Zenon, <1>4, <1>5, <1>6, <2>1
<1>8. N \in T
  <2> HIDE DEF T
  <2>1. N \in 0 .. N
    BY SMT, <1>1
  <2> QED
    BY Zenon, <1>1, <1>7, <2>1, EveryPass
<1>9. AddFilters(s, cfg) = g[N] /\ AddFilters(t, cfg) = h[N]
  BY Zenon, <1>2, <1>3 DEF IsFiltering, N
<1> QED
  BY Zenon, <1>8, <1>9

-----------------------------------------------------------------------------
(* mlvpn_config as a whole, from daemon s and from none.                   *)

Fresh(cfg) == Load(NoDaemon, cfg, TRUE)

LossesOf(r, q, cfg) == \A n \in TunnelsOf(cfg) : r.tunnels[n].loss = q.tunnels[n].loss

LoadDone(s, r, q, cfg, first) ==
    /\ q \in Daemons /\ q.alive /\ Settled(r, cfg) /\ Settled(q, cfg) /\ LossesOf(r, q, cfg)
    /\ r.fallback = q.fallback /\ r.filters = q.filters /\ Targets(r)
    /\ ~first /\ Settled(s, cfg) =>
          SameOptions(s, r) /\ SameTunnels(s, r) /\ UpAfter(s, r, cfg, SectionsOf(cfg))

(* What is read stays read when other tunnels are dropped.                 *)
LEMMA KeptSettled ==
    ASSUME NEW r, NEW r2, NEW cfg, SameOptions(r, r2), DOMAIN r2.tunnels = TunnelsOf(cfg),
           \A n \in TunnelsOf(cfg) : r2.tunnels[n] = r.tunnels[n], IsRead(r, cfg, SectionsOf(cfg))
    PROVE  Settled(r2, cfg)
<1>1. TunnelsIn(SectionsOf(cfg)) = TunnelsOf(cfg)
  BY Zenon DEF TunnelsIn, TunnelsOf
<1>2. General \in SectionsOf(cfg) => GeneralOf(r2, cfg)
  BY Zenon, SameGeneral DEF IsRead
<1>3. \A n \in TunnelsOf(cfg) : TunnelOf(r2.tunnels[n], cfg, n)
  BY Zenon, <1>1 DEF IsRead
<1> QED
  BY Zenon, <1>1, <1>2, <1>3 DEF Settled, IsRead

(* mlvpn_config leaves what a start with the file would, and changes no    *)
(* option and no tunnel, its tolerance apart, if the file was loaded       *)
(* before.                                                                 *)
LEMMA LoadIs ==
    ASSUME NEW s \in Daemons, s.alive, NEW cfg \in Files, NEW first, first => s = NoDaemon,
           NEW r, r = Load(s, cfg, first)
    PROVE  /\ r \in Daemons /\ Len(r.filters) <= MaxFilters
           /\ r.alive => LoadDone(s, r, Fresh(cfg), cfg, first)
<1> DEFINE a == LoadLines(Forget(s), cfg, first)
           b == LoadLines(Forget(NoDaemon), cfg, TRUE)
           k == IF first THEN a ELSE DropOld(a, cfg)
           q == Fresh(cfg)
<1>2. r = AddFilters(k, cfg) /\ q = AddFilters(b, cfg)
  BY Zenon DEF Load, Fresh
<1>3. Along(s, a, b, cfg, SectionsOf(cfg), first)
  BY Zenon, LinesAlong
<1> HIDE DEF q
<1>4. TunnelsIn(SectionsOf(cfg)) = TunnelsOf(cfg)
  BY Zenon DEF TunnelsIn, TunnelsOf
<1>5. /\ a \in Daemons /\ b \in Daemons /\ a.alive = b.alive /\ a.filters = <<>> /\ b.filters = <<>>
      /\ a.alive => Going(s, a, b, cfg, SectionsOf(cfg), first)
  BY Zenon, <1>3 DEF Along
<1>6. k \in Daemons /\ k.filters = <<>> /\ (k.alive => a.alive)
  <2> HIDE DEF a
  <2>1. CASE first
    BY Zenon, <1>5, <2>1
  <2>2. CASE ~first
    <3>1. k = DropOld(a, cfg)
      BY Zenon, <2>2
    <3> HIDE DEF k
    <3>2. k \in Daemons /\ k.filters = a.filters /\ DropDone(a, k, cfg)
      BY Zenon, <1>5, <3>1, DropIs
    <3>3. k.alive => a.alive
      BY Zenon, <3>2 DEF DropDone, SameRest
    <3> QED
      BY Zenon, <1>5, <3>2, <3>3
  <2> QED
    BY Zenon, <2>1, <2>2
<1>7. CASE ~k.alive
  <2>1. r = k
    BY Zenon, <1>2, <1>7 DEF AddFilters
  <2>2. Len(<<>>) <= MaxFilters
    BY SMT, BoundsAssumption
  <2> HIDE DEF k
  <2> QED
    BY Zenon, <1>6, <1>7, <2>1, <2>2
<1>8. CASE k.alive
  <2>1. a.alive /\ b.alive /\ Going(s, a, b, cfg, SectionsOf(cfg), first)
    BY Zenon, <1>5, <1>6, <1>8
  <2> HIDE DEF a, b
  <2>2. /\ DOMAIN a.tunnels = DOMAIN s.tunnels \cup TunnelsOf(cfg) /\ DOMAIN b.tunnels = TunnelsOf(cfg)
        /\ IsRead(a, cfg, SectionsOf(cfg)) /\ IsRead(b, cfg, SectionsOf(cfg)) /\ Alike(a, b, SectionsOf(cfg))
        /\ ~first /\ Settled(s, cfg) =>
              SameOptions(s, a) /\ SameTunnels(s, a) /\ UpAfter(s, a, cfg, SectionsOf(cfg))
    BY Zenon, <1>4, <2>1 DEF Going
  <2>3. /\ SameRest(a, k) /\ DOMAIN k.tunnels = TunnelsOf(cfg)
        /\ \A n \in TunnelsOf(cfg) : k.tunnels[n] = a.tunnels[n]
        /\ DOMAIN a.tunnels = TunnelsOf(cfg) => k.up = a.up
    <3>1. CASE first
      <4>1. DOMAIN s.tunnels = {}
        BY Zenon, <3>1, NoDaemonType
      <4>2. k = a
        BY Zenon, <3>1
      <4> HIDE DEF k
      <4>3. SameRest(a, k)
        BY Zenon, <4>2 DEF SameRest, SameOptions
      <4> QED
        BY Zenon, <2>2, <4>1, <4>2, <4>3
    <3>2. CASE ~first
      <4>1. k = DropOld(a, cfg)
        BY Zenon, <3>2
      <4> HIDE DEF k
      <4>2. DropDone(a, k, cfg)
        BY Zenon, <1>5, <4>1, DropIs
      <4> QED
        BY Zenon, <1>8, <2>2, <4>2 DEF DropDone
    <3> QED
      BY Zenon, <3>1, <3>2
  <2> HIDE DEF k
  <2>4. Filtered(k, r, b, q)
    BY Zenon, <1>2, <1>5, <1>6, <1>8, <2>1, <2>2, <2>3, FiltersAgree
  <2>5. /\ r \in Daemons /\ q \in Daemons /\ Kept(k, r) /\ Kept(b, q) /\ r.filters = q.filters /\ Targets(r)
    BY Zenon, <2>4 DEF Filtered
  <2>6. q.alive /\ r.fallback = q.fallback
    BY Zenon, <2>1, <2>2, <2>3, <2>5 DEF Kept, SameRest, Alike
  <2>7. SameOptions(a, r) /\ r.tunnels = k.tunnels /\ SameOptions(b, q) /\ q.tunnels = b.tunnels
    BY Zenon, <2>3, <2>5 DEF Kept, SameRest, SameOptions
  <2>8. Settled(r, cfg)
    <3>1. DOMAIN r.tunnels = TunnelsOf(cfg) /\ \A n \in TunnelsOf(cfg) : r.tunnels[n] = a.tunnels[n]
      BY Zenon, <2>3, <2>7
    <3>2. SameOptions(a, r) /\ IsRead(a, cfg, SectionsOf(cfg))
      BY Zenon, <2>2, <2>7
    <3> QED
      BY Zenon, <3>1, <3>2, KeptSettled
  <2>9. Settled(q, cfg)
    BY Zenon, <2>2, <2>7, KeptSettled
  <2>10. LossesOf(r, q, cfg)
    BY ZenonT(40), <1>4, <2>2, <2>3, <2>7 DEF LossesOf, Alike
  <2>11. ASSUME ~first, Settled(s, cfg)
         PROVE  SameOptions(s, r) /\ SameTunnels(s, r) /\ UpAfter(s, r, cfg, SectionsOf(cfg))
    <3>1. /\ SameOptions(s, a) /\ SameTunnels(s, a) /\ DOMAIN s.tunnels = TunnelsOf(cfg)
          /\ UpAfter(s, a, cfg, SectionsOf(cfg))
      BY Zenon, <2>2, <2>11 DEF Settled
    <3>2. SameOptions(s, r)
      BY Zenon, <2>7, <3>1 DEF SameOptions
    <3>3. SameTunnels(s, r)
      BY Zenon, <2>3, <2>7, <3>1 DEF SameTunnels
    <3>4. UpAfter(s, r, cfg, SectionsOf(cfg))
      <4>1. DOMAIN a.tunnels = TunnelsOf(cfg)
        BY Zenon, <3>1 DEF SameTunnels
      <4>2. r.up = a.up
        BY Zenon, <2>3, <2>5, <4>1 DEF Kept
      <4> QED
        BY Zenon, <3>1, <4>2 DEF UpAfter
    <3> QED
      BY Zenon, <3>2, <3>3, <3>4
  <2>12. LoadDone(s, r, q, cfg, first)
    BY Zenon, <2>5, <2>6, <2>8, <2>9, <2>10, <2>11 DEF LoadDone
  <2>13. Len(r.filters) <= MaxFilters
    BY Zenon, <2>5 DEF Targets
  <2> QED
    BY Zenon, <2>5, <2>12, <2>13 DEF q
<1> QED
  BY Zenon, <1>7, <1>8

-----------------------------------------------------------------------------
(* mlvpn_rtun_recalc_weight.                                               *)

Bandwidths(tab) == [n \in DOMAIN tab |-> tab[n].bw]

(* The weights are those of the bandwidths, unless one has none.           *)
Weighted(tab) ==
    \/ \E n \in DOMAIN tab : tab[n].bw = 0
    \/ \A n \in DOMAIN tab : tab[n].weight = <<tab[n].bw, SumFunction(Bandwidths(tab))>>

ButWeight(t, u) == u = [t EXCEPT !.weight = u.weight]

Reweighted(s, r) ==
    /\ SameRest(s, r) /\ r.filters = s.filters /\ DOMAIN r.tunnels = DOMAIN s.tunnels
    /\ \A n \in DOMAIN s.tunnels : ButWeight(s.tunnels[n], r.tunnels[n])
    /\ Weighted(r.tunnels)
    /\ Weighted(s.tunnels) => r = s

(* A change of the weight leaves the rest of a tunnel.                     *)
LEMMA WeightIs ==
    ASSUME NEW t \in Tunnels, NEW u, ButWeight(t, u)
    PROVE  /\ u.from = t.from /\ u.bind = t.bind /\ u.fib = t.fib
           /\ u.host = t.host /\ u.port = t.port
           /\ u.bw = t.bw /\ u.fallback = t.fallback /\ u.loss = t.loss
BY SMT DEF ButWeight, Tunnels

(* The weights are up to date afterwards, and unchanged if they were       *)
(* before.                                                                 *)
LEMMA RecalcIs ==
    ASSUME NEW s \in Daemons, NEW r, r = RecalcWeight(s)
    PROVE  r \in Daemons /\ Reweighted(s, r)
<1> DEFINE tab == s.tunnels
           bw == Bandwidths(tab)
           total == SumFunction(bw)
           W(n) == [tab[n] EXCEPT !.weight = <<bw[n], total>>]
           new == [n \in DOMAIN tab |-> W(n)]
<1>1. r = IF \E n \in DOMAIN bw : bw[n] = 0 THEN s ELSE [s EXCEPT !.tunnels = new]
  BY Zenon DEF RecalcWeight, Bandwidths
<1>2. /\ DOMAIN tab \subseteq TunnelNames /\ \A n \in DOMAIN tab : tab[n] \in Tunnels
      /\ \A n \in DOMAIN tab : tab[n].bw \in Nat
  BY Zenon, TableFacts DEF Tunnels
<1>3. DOMAIN bw = DOMAIN tab /\ \A n \in DOMAIN tab : bw[n] = tab[n].bw
  BY Zenon DEF Bandwidths
<1>4. bw \in Totals
  <2>1. bw \in [DOMAIN tab -> Nat]
    BY Zenon, <1>2 DEF Bandwidths
  <2> HIDE DEF bw, tab
  <2> QED
    BY Zenon, <1>2, <2>1 DEF Totals
<1>5. tab = s.tunnels
  OBVIOUS
<1> HIDE DEF bw, total, tab
<1>6. ASSUME NEW n \in DOMAIN tab
      PROVE  /\ W(n) \in Tunnels /\ ButWeight(tab[n], W(n))
             /\ W(n).bw = tab[n].bw /\ W(n).weight = <<bw[n], total>>
             /\ tab[n].weight = <<bw[n], total>> => W(n) = tab[n]
  <2> DEFINE w == <<bw[n], total>>
             t == tab[n]
  <2>1. w \in Weights
    <3>1. bw[n] \in Nat
      BY Zenon, <1>2, <1>3
    <3>2. w \in {<<b, SumFunction(bw)>> : b \in Nat}
      BY Zenon, <3>1 DEF total
    <3> QED
      BY Zenon, <1>4, <3>2 DEF Weights
  <2>2. W(n) = [t EXCEPT !.weight = w] /\ t \in Tunnels
    BY Zenon, <1>2
  <2> DEFINE u == W(n)
  <2>3. u = [t EXCEPT !.weight = w]
    BY Zenon, <2>2
  <2> HIDE DEF w, t, u
  <2>4. u \in Tunnels /\ u.weight = w /\ u.bw = t.bw
    BY Zenon, <2>1, <2>2, <2>3 DEF Tunnels
  <2>5. ButWeight(t, u)
    BY Zenon, <2>3, <2>4 DEF ButWeight
  <2>6. t.weight = w => u = t
    BY ZenonT(40), <2>2, <2>3 DEF Tunnels
  <2> QED
    BY Zenon, <2>4, <2>5, <2>6 DEF w, t, u
<1>7. SameRest(s, s)
  BY Zenon DEF SameRest, SameOptions
<1>8. CASE \E n \in DOMAIN bw : bw[n] = 0
  <2>1. r = s
    BY Zenon, <1>1, <1>8
  <2>2. Weighted(tab)
    BY Zenon, <1>3, <1>8 DEF Weighted
  <2>3. ASSUME NEW t \in Tunnels PROVE ButWeight(t, t)
    BY SMT DEF ButWeight, Tunnels
  <2> QED
    BY Zenon, <1>2, <1>5, <1>7, <2>1, <2>2, <2>3 DEF Reweighted
<1>9. CASE ~\E n \in DOMAIN bw : bw[n] = 0
  <2>1. r = [s EXCEPT !.tunnels = new]
    BY Zenon, <1>1, <1>9
  <2>2. new \in Tables
    <3>1. new \in [DOMAIN tab -> Tunnels] /\ DOMAIN tab \in SUBSET TunnelNames
      BY Zenon, <1>2, <1>6
    <3> HIDE DEF new
    <3> QED
      BY Zenon, <3>1 DEF Tables
  <2>3. DOMAIN new = DOMAIN tab /\ \A n \in DOMAIN tab : new[n] = W(n)
    BY Zenon
  <2> HIDE DEF new
  <2>4. r \in Daemons /\ r.filters = s.filters /\ SameRest(s, r) /\ r.tunnels = new
    BY Zenon, <2>1, <2>2 DEF Daemons, SameRest, SameOptions
  <2>5. Bandwidths(new) = bw
    <3>1. \A n \in DOMAIN tab : new[n].bw = tab[n].bw
      BY Zenon, <1>6, <2>3
    <3> QED
      BY Zenon, <2>3, <3>1 DEF bw, Bandwidths
  <2>6. Weighted(new)
    <3>1. ASSUME NEW n \in DOMAIN tab PROVE new[n].weight = <<bw[n], total>> /\ new[n].bw = bw[n]
      BY Zenon, <1>3, <1>6, <2>3
    <3>2. \A n \in DOMAIN new : new[n].weight = <<new[n].bw, SumFunction(bw)>>
      BY Zenon, <2>3, <3>1 DEF total
    <3> QED
      BY Zenon, <2>5, <3>2 DEF Weighted
  <2>7. ASSUME Weighted(tab) PROVE r = s
    <3>1. \A n \in DOMAIN tab : tab[n].weight = <<bw[n], total>>
      BY Zenon, <1>3, <1>9, <2>7 DEF Weighted, total, bw
    <3>2. \A n \in DOMAIN tab : new[n] = tab[n]
      BY Zenon, <1>6, <2>3, <3>1
    <3>3. new = tab
      <4>1. new \in [DOMAIN tab -> Tunnels] /\ tab \in [DOMAIN tab -> Tunnels]
        <5>1. PICK D \in SUBSET TunnelNames : s.tunnels \in [D -> Tunnels]
          BY Zenon DEF Daemons, Tables
        <5>2. PICK E \in SUBSET TunnelNames : new \in [E -> Tunnels]
          BY Zenon, <2>2 DEF Tables
        <5> QED
          BY Zenon, <1>5, <2>3, <5>1, <5>2
      <4> QED
        BY SMT, <3>2, <4>1
    <3> QED
      BY Zenon, <1>5, <2>1, <3>3 DEF Daemons
  <2>8. \A n \in DOMAIN tab : ButWeight(tab[n], new[n])
    BY Zenon, <1>6, <2>3
  <2> QED
    BY Zenon, <1>5, <2>3, <2>4, <2>6, <2>7, <2>8 DEF Reweighted
<1> QED
  BY Zenon, <1>8, <1>9

-----------------------------------------------------------------------------
(* The inductive invariant.                                                *)

(* What the daemon keeps of its file until the next load: the options and  *)
(* the tunnels are what the file says, tolerances as in a first load of it *)
(* (they depend on the place of [general]), and the weights are up to      *)
(* date.                                                                   *)
SteadyAs(s, q, cfg) ==
    /\ Settled(s, cfg) /\ LossesOf(s, q, cfg) /\ Weighted(s.tunnels)
    /\ q \in Daemons /\ q.alive /\ Settled(q, cfg)

Steady(s, cfg) == SteadyAs(s, Fresh(cfg), cfg)

(* What a failed load clears.                                              *)
Whole(s, cfg) == s.filters = Fresh(cfg).filters /\ s.fallback = Fresh(cfg).fallback

(* The inductive invariant.                                                *)
ConfigInv ==
    /\ d \in Daemons /\ clean \in BOOLEAN /\ file \in Files \cup {NoFile}
    /\ Len(d.filters) <= MaxFilters /\ FiltersAlive
    /\ file = NoFile => d = NoDaemon
    /\ file # NoFile /\ d.alive => Steady(d, file) /\ (clean => Whole(d, file))

(* What the daemon keeps of its file depends on options and settings only. *)
LEMMA SameSettled ==
    ASSUME NEW s, NEW r, NEW q, NEW cfg, Settled(s, cfg), LossesOf(s, q, cfg),
           SameOptions(s, r), DOMAIN r.tunnels = DOMAIN s.tunnels,
           \A n \in DOMAIN s.tunnels :
              /\ r.tunnels[n].from = s.tunnels[n].from
              /\ r.tunnels[n].bind = s.tunnels[n].bind /\ r.tunnels[n].fib = s.tunnels[n].fib
              /\ r.tunnels[n].host = s.tunnels[n].host
              /\ r.tunnels[n].port = s.tunnels[n].port /\ r.tunnels[n].bw = s.tunnels[n].bw
              /\ r.tunnels[n].fallback = s.tunnels[n].fallback /\ r.tunnels[n].loss = s.tunnels[n].loss
    PROVE  Settled(r, cfg) /\ LossesOf(r, q, cfg)
<1>1. TunnelsIn(SectionsOf(cfg)) = TunnelsOf(cfg)
  BY Zenon DEF TunnelsIn, TunnelsOf
<1>2. DOMAIN s.tunnels = TunnelsOf(cfg) /\ IsRead(s, cfg, SectionsOf(cfg))
  BY Zenon DEF Settled
<1>3. General \in SectionsOf(cfg) => GeneralOf(r, cfg)
  BY Zenon, <1>2, SameGeneral DEF IsRead
<1>4. ASSUME NEW n \in TunnelsOf(cfg) PROVE TunnelOf(r.tunnels[n], cfg, n)
  <2>1. TunnelOf(s.tunnels[n], cfg, n) /\ n \in DOMAIN s.tunnels
    BY Zenon, <1>1, <1>2 DEF IsRead
  <2> QED
    BY Zenon, <2>1 DEF TunnelOf
<1>5. Settled(r, cfg)
  BY Zenon, <1>1, <1>2, <1>3, <1>4 DEF Settled, IsRead
<1>6. LossesOf(r, q, cfg)
  BY Zenon, <1>2 DEF LossesOf
<1> QED
  BY Zenon, <1>5, <1>6

(* A load that does not end the daemon.                                    *)
Reloaded(s, r, cfg, first) ==
    /\ Steady(r, cfg) /\ Whole(r, cfg) /\ Targets(r)
    /\ ~first /\ Steady(s, cfg) =>
          /\ r = [s EXCEPT !.filters = r.filters, !.fallback = r.fallback, !.local = r.local, !.up = r.up]
          /\ r.up = s.up \ {n \in DOMAIN s.tunnels : ~GivesAddresses(cfg, n)}

(* Daemons that differ in what mlvpn_config clears, and in the status of   *)
(* the tunnels.                                                            *)
LEMMA DaemonIs ==
    ASSUME NEW s \in Daemons, NEW r \in Daemons, r.alive = s.alive,
           r.devname = s.devname, r.password = s.password, r.cleartext = s.cleartext,
           r.reorder = s.reorder, r.ring = s.ring, r.ip4 = s.ip4,
           r.gateway = s.gateway, r.routes = s.routes, r.mtu = s.mtu, r.tunnels = s.tunnels
    PROVE  r = [s EXCEPT !.filters = r.filters, !.fallback = r.fallback, !.local = r.local, !.up = r.up]
<1> DEFINE x == r.filters
           y == r.fallback
           z == r.local
           p == r.up
           v == [s EXCEPT !.filters = x, !.fallback = y, !.local = z, !.up = p]
<1>1. x \in Seq(Filters) /\ y \in BOOLEAN /\ z \in Defaults /\ p \in SUBSET TunnelNames
  BY Zenon DEF Daemons
<1>2. r.filters = x /\ r.fallback = y /\ r.local = z /\ r.up = p
  BY Zenon
<1> HIDE DEF x, y, z, p
<1>3. /\ v \in Daemons /\ v.filters = x /\ v.fallback = y /\ v.local = z /\ v.up = p /\ v.alive = s.alive
      /\ v.devname = s.devname /\ v.password = s.password /\ v.cleartext = s.cleartext
      /\ v.reorder = s.reorder /\ v.ring = s.ring /\ v.ip4 = s.ip4
      /\ v.gateway = s.gateway /\ v.routes = s.routes /\ v.mtu = s.mtu /\ v.tunnels = s.tunnels
  BY Zenon, <1>1 DEF Daemons
<1> HIDE DEF v
<1>4. r = v
  BY SMT, <1>2, <1>3 DEF Daemons
<1> QED
  BY Zenon, <1>4 DEF v, x, y, z, p

(* Tunnels that differ in their tolerance at most, and not in that.        *)
LEMMA SameTable ==
    ASSUME NEW s \in Daemons, NEW r \in Daemons, NEW q, NEW cfg,
           SameTunnels(s, r), DOMAIN s.tunnels = TunnelsOf(cfg), LossesOf(s, q, cfg), LossesOf(r, q, cfg)
    PROVE  r.tunnels = s.tunnels
<1>1. ASSUME NEW n \in DOMAIN s.tunnels PROVE r.tunnels[n] = s.tunnels[n]
  <2> DEFINE t == s.tunnels[n]
             u == r.tunnels[n]
             l == u.loss
  <2>1. t \in Tunnels /\ u = [t EXCEPT !.loss = l] /\ l = t.loss
    BY Zenon, <1>1, TableFacts DEF SameTunnels, ButLoss, LossesOf
  <2> HIDE DEF t, u, l
  <2>2. u = t
    BY Zenon, <2>1 DEF Tunnels
  <2> QED
    BY Zenon, <2>2 DEF t, u
<1>2. PICK D \in SUBSET TunnelNames : s.tunnels \in [D -> Tunnels]
  BY Zenon DEF Daemons, Tables
<1>3. PICK E \in SUBSET TunnelNames : r.tunnels \in [E -> Tunnels]
  BY Zenon DEF Daemons, Tables
<1>4. DOMAIN r.tunnels = DOMAIN s.tunnels
  BY Zenon DEF SameTunnels
<1>5. D = E /\ DOMAIN s.tunnels = D
  BY Zenon, <1>2, <1>3, <1>4
<1> DEFINE f == r.tunnels
           g == s.tunnels
<1>6. f \in [D -> Tunnels] /\ g \in [D -> Tunnels] /\ \A n \in D : f[n] = g[n]
  BY Zenon, <1>1, <1>2, <1>3, <1>5
<1> HIDE DEF f, g
<1>7. f = g
  BY SMTT(20), <1>6
<1> QED
  BY Zenon, <1>7 DEF f, g

(* A load and mlvpn_rtun_recalc_weight after it.                           *)
LEMMA LoadAndWeigh ==
    ASSUME NEW s \in Daemons, s.alive, NEW cfg \in Files, NEW first, first => s = NoDaemon,
           NEW r, r = RecalcWeight(Load(s, cfg, first))
    PROVE  /\ r \in Daemons /\ Len(r.filters) <= MaxFilters
           /\ r.alive => Reloaded(s, r, cfg, first)
<1> DEFINE l == Load(s, cfg, first)
           q == Fresh(cfg)
<1>1. l \in Daemons /\ Len(l.filters) <= MaxFilters /\ (l.alive => LoadDone(s, l, q, cfg, first))
  BY Zenon, LoadIs
<1>2. r = RecalcWeight(l)
  BY Zenon
<1> HIDE DEF l
<1>3. r \in Daemons /\ Reweighted(l, r)
  BY Zenon, <1>1, <1>2, RecalcIs
<1>4. r.filters = l.filters /\ r.alive = l.alive /\ r.fallback = l.fallback
  BY Zenon, <1>3 DEF Reweighted, SameRest
<1>5. ASSUME r.alive PROVE Reloaded(s, r, cfg, first)
  <2>1. LoadDone(s, l, q, cfg, first)
    BY Zenon, <1>1, <1>4, <1>5
  <2> HIDE DEF q
  <2>2. /\ SameOptions(l, r) /\ DOMAIN r.tunnels = DOMAIN l.tunnels /\ Weighted(r.tunnels)
        /\ \A n \in DOMAIN l.tunnels : ButWeight(l.tunnels[n], r.tunnels[n])
        /\ Weighted(l.tunnels) => r = l
    BY Zenon, <1>3 DEF Reweighted, SameRest
  <2>3. \A n \in DOMAIN l.tunnels : l.tunnels[n] \in Tunnels
    BY Zenon, <1>1, TableFacts
  <2>4. \A n \in DOMAIN l.tunnels :
              /\ r.tunnels[n].from = l.tunnels[n].from
              /\ r.tunnels[n].bind = l.tunnels[n].bind /\ r.tunnels[n].fib = l.tunnels[n].fib
              /\ r.tunnels[n].host = l.tunnels[n].host
              /\ r.tunnels[n].port = l.tunnels[n].port /\ r.tunnels[n].bw = l.tunnels[n].bw
              /\ r.tunnels[n].fallback = l.tunnels[n].fallback /\ r.tunnels[n].loss = l.tunnels[n].loss
    <3> SUFFICES ASSUME NEW n \in DOMAIN l.tunnels
                 PROVE  /\ r.tunnels[n].from = l.tunnels[n].from
                        /\ r.tunnels[n].bind = l.tunnels[n].bind /\ r.tunnels[n].fib = l.tunnels[n].fib
                        /\ r.tunnels[n].host = l.tunnels[n].host
                        /\ r.tunnels[n].port = l.tunnels[n].port /\ r.tunnels[n].bw = l.tunnels[n].bw
                        /\ r.tunnels[n].fallback = l.tunnels[n].fallback /\ r.tunnels[n].loss = l.tunnels[n].loss
      BY Zenon
    <3> DEFINE t == l.tunnels[n]
               u == r.tunnels[n]
    <3>1. t \in Tunnels /\ ButWeight(t, u)
      BY Zenon, <2>2, <2>3
    <3> HIDE DEF t, u
    <3>2. /\ u.from = t.from /\ u.bind = t.bind /\ u.fib = t.fib
          /\ u.host = t.host /\ u.port = t.port
          /\ u.bw = t.bw /\ u.fallback = t.fallback /\ u.loss = t.loss
      BY Zenon, <3>1, WeightIs
    <3> QED
      BY Zenon, <3>2 DEF t, u
  <2>5. SteadyAs(r, q, cfg)
    <3>1. Settled(l, cfg) /\ LossesOf(l, q, cfg) /\ q \in Daemons /\ q.alive /\ Settled(q, cfg)
      BY Zenon, <2>1 DEF LoadDone
    <3>2. Settled(r, cfg) /\ LossesOf(r, q, cfg)
      BY ZenonT(40), <2>2, <2>4, <3>1, SameSettled
    <3> QED
      BY Zenon, <2>2, <3>1, <3>2 DEF SteadyAs
  <2>6. r.filters = q.filters /\ r.fallback = q.fallback /\ Targets(r)
    BY Zenon, <1>4, <2>1, <2>2 DEF LoadDone, Targets
  <2>7. ASSUME ~first, SteadyAs(s, q, cfg)
        PROVE  /\ r = [s EXCEPT !.filters = r.filters, !.fallback = r.fallback, !.local = r.local, !.up = r.up]
               /\ r.up = s.up \ {n \in DOMAIN s.tunnels : ~GivesAddresses(cfg, n)}
    <3>1. /\ SameOptions(s, l) /\ SameTunnels(s, l) /\ LossesOf(l, q, cfg)
          /\ UpAfter(s, l, cfg, SectionsOf(cfg))
      BY Zenon, <2>1, <2>7 DEF LoadDone, SteadyAs
    <3>2. DOMAIN s.tunnels = TunnelsOf(cfg) /\ LossesOf(s, q, cfg) /\ Weighted(s.tunnels)
      BY Zenon, <2>7 DEF SteadyAs, Settled
    <3>3. l.tunnels = s.tunnels
      BY Zenon, <1>1, <3>1, <3>2, SameTable
    <3>4. r = l
      BY Zenon, <2>2, <3>2, <3>3
    <3>5. r.alive = s.alive
      BY Zenon, <1>3, <1>5, TableFacts
    <3>6. /\ r.devname = s.devname /\ r.password = s.password /\ r.cleartext = s.cleartext
          /\ r.reorder = s.reorder /\ r.ring = s.ring /\ r.ip4 = s.ip4
          /\ r.gateway = s.gateway /\ r.routes = s.routes /\ r.mtu = s.mtu /\ r.tunnels = s.tunnels
      BY Zenon, <3>1, <3>3, <3>4 DEF SameOptions
    <3>7. r = [s EXCEPT !.filters = r.filters, !.fallback = r.fallback, !.local = r.local, !.up = r.up]
      BY ZenonT(40), <1>3, <3>5, <3>6, DaemonIs
    <3>8. r.up = s.up \ {n \in DOMAIN s.tunnels : ~GivesAddresses(cfg, n)}
      <4>1. TunnelsIn(SectionsOf(cfg)) = DOMAIN s.tunnels
        BY Zenon, <3>2 DEF TunnelsIn, TunnelsOf
      <4> QED
        BY Zenon, <3>1, <3>4, <4>1 DEF UpAfter
    <3> QED
      BY Zenon, <3>7, <3>8
  <2> QED
    BY Zenon, <2>5, <2>6, <2>7 DEF Reloaded, Steady, Whole, q
<1> QED
  BY Zenon, <1>1, <1>3, <1>4, <1>5

-----------------------------------------------------------------------------
(* The steps.                                                              *)

(* The invariant holds before the first load.                              *)
LEMMA InvInit == ConfigInit => ConfigInv
<1> SUFFICES ASSUME ConfigInit PROVE ConfigInv
  OBVIOUS
<1>1. Len(<<>>) <= MaxFilters /\ DOMAIN <<>> = {}
  BY SMTT(20), BoundsAssumption
<1> QED
  BY Zenon, <1>1, NoDaemonType DEF ConfigInit, ConfigInv, FiltersAlive

(* A load, at the start or later, whichever file it reads.                 *)
LEMMA InvLoad ==
    ASSUME ConfigInv, NEW cfg \in Files, NEW first, first => file = NoFile, d.alive,
           d' = RecalcWeight(Load(d, cfg, first)), file' = cfg, clean' \in BOOLEAN
    PROVE  ConfigInv' /\ (d'.alive => Reloaded(d, d', cfg, first))
<1>1. d \in Daemons /\ (first => d = NoDaemon)
  BY Zenon DEF ConfigInv
<1>2. /\ d' \in Daemons /\ Len(d'.filters) <= MaxFilters
      /\ d'.alive => Reloaded(d, d', cfg, first)
  BY Zenon, <1>1, LoadAndWeigh
<1>3. d'.alive => Steady(d', cfg) /\ Whole(d', cfg) /\ Targets(d')
  BY Zenon, <1>2 DEF Reloaded
<1>4. cfg # NoFile
  BY Zenon, FilesAssumption
<1>5. FiltersAlive'
  BY Zenon, <1>3 DEF FiltersAlive, Targets
<1> QED
  BY Zenon, <1>2, <1>3, <1>4, <1>5 DEF ConfigInv

(* A load that fails clears the filters, the fallback and the locals.      *)
LEMMA InvReloadFails == ASSUME ConfigInv, ReloadFails PROVE ConfigInv'
<1>1. d \in Daemons /\ file # NoFile /\ d.alive /\ Steady(d, file) /\ d' = Forget(d)
      /\ clean' = FALSE /\ file' = file /\ file \in Files \cup {NoFile}
  BY Zenon DEF ConfigInv, ReloadFails
<1>2. /\ d' \in Daemons /\ SameOptions(d, d') /\ d'.tunnels = d.tunnels /\ d'.filters = <<>>
  BY Zenon, <1>1, ForgetIs
<1>3. Len(<<>>) <= MaxFilters /\ DOMAIN <<>> = {}
  BY SMTT(20), BoundsAssumption
<1>4. Len(d'.filters) <= MaxFilters /\ FiltersAlive'
  BY Zenon, <1>2, <1>3 DEF FiltersAlive
<1> DEFINE q == Fresh(file)
           cfg == file
<1>5. SteadyAs(d, q, cfg)
  BY Zenon, <1>1 DEF Steady
<1>6. Steady(d', file') <=> SteadyAs(d', q, cfg)
  BY Zenon, <1>1 DEF Steady
<1> HIDE DEF q, cfg
<1>7. Settled(d', cfg) /\ LossesOf(d', q, cfg)
  BY Zenon, <1>2, <1>5, SameSettled DEF SteadyAs
<1>8. SteadyAs(d', q, cfg)
  BY Zenon, <1>2, <1>5, <1>7 DEF SteadyAs
<1> QED
  BY Zenon, <1>1, <1>2, <1>4, <1>6, <1>8 DEF ConfigInv

(* mlvpn_rtun_start touches the socket and the address it resolved only.   *)
Started(s, n, ok) ==
    LET t == s.tunnels[n]
        addr == IF t.server THEN <<t.from, t.bind>> ELSE <<t.host, t.port>>
    IN  [s EXCEPT !.tunnels[n] = [t EXCEPT !.addrinfo = addr, !.open = ok]]

Resolved(s, r) ==
    /\ r \in Daemons /\ SameRest(s, r) /\ r.filters = s.filters
    /\ DOMAIN r.tunnels = DOMAIN s.tunnels
    /\ \A m \in DOMAIN s.tunnels :
          /\ r.tunnels[m].from = s.tunnels[m].from
          /\ r.tunnels[m].bind = s.tunnels[m].bind /\ r.tunnels[m].fib = s.tunnels[m].fib
          /\ r.tunnels[m].host = s.tunnels[m].host
          /\ r.tunnels[m].port = s.tunnels[m].port /\ r.tunnels[m].bw = s.tunnels[m].bw
          /\ r.tunnels[m].fallback = s.tunnels[m].fallback /\ r.tunnels[m].loss = s.tunnels[m].loss
          /\ r.tunnels[m].weight = s.tunnels[m].weight

LEMMA StartIs ==
    ASSUME NEW s \in Daemons, NEW n \in DOMAIN s.tunnels, NEW ok \in BOOLEAN, NEW r, r = Started(s, n, ok)
    PROVE  Resolved(s, r)
<1> DEFINE tab == s.tunnels
           t == tab[n]
           addr == IF t.server THEN <<t.from, t.bind>> ELSE <<t.host, t.port>>
           u == [t EXCEPT !.addrinfo = addr, !.open = ok]
           new == [tab EXCEPT ![n] = u]
<1>1. t \in Tunnels
  BY Zenon, TableFacts
<1>2. t.from \in Values /\ t.bind \in Values /\ t.host \in Values /\ t.port \in Values
  <2> HIDE DEF t
  <2> QED
    BY Zenon, <1>1 DEF Tunnels
<1>3. addr \in {Null} \cup (Values \X Values)
  <2>1. <<t.from, t.bind>> \in Values \X Values /\ <<t.host, t.port>> \in Values \X Values
    <3> HIDE DEF t
    <3> QED
      BY SMT, <1>2
  <2> QED
    BY Zenon, <2>1
<1>4. r = [s EXCEPT !.tunnels = new]
  BY Zenon DEF Started
<1>6. PICK D \in SUBSET TunnelNames : tab \in [D -> Tunnels]
  BY Zenon DEF Daemons, Tables
<1>7. DOMAIN tab = D
  BY Zenon, <1>6
<1>8. /\ u \in Tunnels /\ u.from = t.from
                       /\ u.bind = t.bind /\ u.fib = t.fib /\ u.host = t.host /\ u.port = t.port /\ u.bw = t.bw
      /\ u.fallback = t.fallback /\ u.loss = t.loss /\ u.weight = t.weight
  <2> HIDE DEF t, addr
  <2>1. u \in Tunnels
    BY Zenon, <1>1, <1>3 DEF Tunnels
  <2>2. /\ u.from = t.from /\ u.bind = t.bind /\ u.fib = t.fib
        /\ u.host = t.host /\ u.port = t.port /\ u.bw = t.bw
        /\ u.fallback = t.fallback /\ u.loss = t.loss /\ u.weight = t.weight
    BY SMT, <1>1 DEF Tunnels
  <2> QED
    BY Zenon, <2>1, <2>2
<1>9. /\ new \in [D -> Tunnels] /\ new[n] = u /\ \A m \in D : m # n => new[m] = tab[m]
  <2> HIDE DEF u, tab
  <2> QED
    BY Zenon, <1>6, <1>7, <1>8 DEF tab
<1>10. new \in Tables
  <2> HIDE DEF new
  <2> QED
    BY Zenon, <1>9 DEF Tables
<1>11. ASSUME NEW m \in D
       PROVE  /\ new[m].from = tab[m].from /\ new[m].bind = tab[m].bind /\ new[m].fib = tab[m].fib
              /\ new[m].host = tab[m].host
              /\ new[m].port = tab[m].port /\ new[m].bw = tab[m].bw
              /\ new[m].fallback = tab[m].fallback /\ new[m].loss = tab[m].loss
              /\ new[m].weight = tab[m].weight
  <2>1. CASE m = n
    <3> HIDE DEF new, u
    <3> QED
      BY Zenon, <1>8, <1>9, <2>1
  <2>2. CASE m # n
    <3> HIDE DEF new
    <3> QED
      BY Zenon, <1>9, <2>2
  <2> QED
    BY Zenon, <2>1, <2>2
<1> HIDE DEF new
<1>12. /\ r \in Daemons /\ r.tunnels = new /\ SameRest(s, r) /\ r.filters = s.filters
  BY Zenon, <1>4, <1>10 DEF Daemons, SameRest, SameOptions
<1>13. DOMAIN new = D
  BY Zenon, <1>9
<1> QED
  BY ZenonT(40), <1>7, <1>11, <1>12, <1>13 DEF Resolved

LEMMA SameWeighted ==
    ASSUME NEW f, NEW g, DOMAIN g = DOMAIN f, Weighted(f),
           \A n \in DOMAIN f : g[n].bw = f[n].bw /\ g[n].weight = f[n].weight
    PROVE  Weighted(g)
<1>1. Bandwidths(g) = Bandwidths(f)
  BY Zenon DEF Bandwidths
<1> QED
  BY Zenon, <1>1 DEF Weighted

(* mlvpn_rtun_start does not touch what the file says.                     *)
LEMMA InvRtunStart == ASSUME ConfigInv, NEW n \in DOMAIN d.tunnels, RtunStart(n) PROVE ConfigInv'
<1>1. /\ d \in Daemons /\ d.alive /\ file' = file /\ clean' = clean /\ clean \in BOOLEAN
      /\ file \in Files \cup {NoFile} /\ Len(d.filters) <= MaxFilters /\ FiltersAlive
  BY Zenon DEF ConfigInv, RtunStart
<1>2. file # NoFile
  BY Zenon, NoDaemonType DEF ConfigInv
<1>3. Steady(d, file) /\ (clean => Whole(d, file))
  BY Zenon, <1>1, <1>2 DEF ConfigInv
<1>4. PICK ok \in BOOLEAN : d' = Started(d, n, ok)
  BY Zenon DEF RtunStart, Started
<1>5. /\ d' \in Daemons /\ SameRest(d, d') /\ d'.filters = d.filters
      /\ DOMAIN d'.tunnels = DOMAIN d.tunnels
      /\ \A m \in DOMAIN d.tunnels :
            /\ d'.tunnels[m].from = d.tunnels[m].from
            /\ d'.tunnels[m].bind = d.tunnels[m].bind /\ d'.tunnels[m].fib = d.tunnels[m].fib
            /\ d'.tunnels[m].host = d.tunnels[m].host
            /\ d'.tunnels[m].port = d.tunnels[m].port /\ d'.tunnels[m].bw = d.tunnels[m].bw
            /\ d'.tunnels[m].fallback = d.tunnels[m].fallback /\ d'.tunnels[m].loss = d.tunnels[m].loss
            /\ d'.tunnels[m].weight = d.tunnels[m].weight
  <2>1. Resolved(d, d')
    BY Zenon, <1>1, <1>4, StartIs
  <2> QED
    BY Zenon, <2>1 DEF Resolved
<1>6. SameOptions(d, d') /\ d'.fallback = d.fallback
  BY Zenon, <1>5 DEF SameRest
<1>7. Len(d'.filters) <= MaxFilters /\ FiltersAlive'
  BY Zenon, <1>1, <1>5 DEF FiltersAlive
<1> DEFINE q == Fresh(file)
           cfg == file
<1>8. SteadyAs(d, q, cfg)
  BY Zenon, <1>3 DEF Steady
<1>9. Steady(d', file') <=> SteadyAs(d', q, cfg)
  BY Zenon, <1>1 DEF Steady
<1> HIDE DEF q, cfg
<1>10. Settled(d', cfg) /\ LossesOf(d', q, cfg)
  BY Zenon, <1>5, <1>6, <1>8, SameSettled DEF SteadyAs
<1>11. Weighted(d'.tunnels)
  <2>1. Weighted(d.tunnels)
    BY Zenon, <1>8 DEF SteadyAs
  <2> DEFINE f == d.tunnels
             g == d'.tunnels
  <2>2. DOMAIN g = DOMAIN f /\ Weighted(f) /\ \A m \in DOMAIN f : g[m].bw = f[m].bw /\ g[m].weight = f[m].weight
    BY Zenon, <1>5, <2>1
  <2> HIDE DEF f, g
  <2>3. Weighted(g)
    BY Zenon, <2>2, SameWeighted
  <2> QED
    BY Zenon, <2>3 DEF g
<1>12. SteadyAs(d', q, cfg)
  BY Zenon, <1>8, <1>10, <1>11 DEF SteadyAs
<1>13. clean' => Whole(d', file')
  BY Zenon, <1>1, <1>3, <1>5, <1>6 DEF Whole
<1> QED
  BY ZenonT(40), <1>1, <1>2, <1>5, <1>7, <1>9, <1>12, <1>13 DEF ConfigInv

(* The status of a tunnel is no matter of the file.                        *)
LEMMA InvStatus ==
    ASSUME ConfigInv, NEW n \in DOMAIN d.tunnels, TunnelUp(n) \/ TunnelDown(n)
    PROVE  ConfigInv'
<1>1. /\ d \in Daemons /\ d.alive /\ file' = file /\ clean' = clean /\ clean \in BOOLEAN
      /\ file \in Files \cup {NoFile} /\ Len(d.filters) <= MaxFilters /\ FiltersAlive
  BY Zenon DEF ConfigInv, TunnelUp, TunnelDown
<1>2. file # NoFile
  BY Zenon, NoDaemonType DEF ConfigInv
<1>3. Steady(d, file) /\ (clean => Whole(d, file))
  BY Zenon, <1>1, <1>2 DEF ConfigInv
<1>4. PICK up \in SUBSET TunnelNames : d' = [d EXCEPT !.up = up]
  <2>1. d.up \cup {n} \in SUBSET TunnelNames /\ d.up \ {n} \in SUBSET TunnelNames
    <3>1. d.up \in SUBSET TunnelNames
      BY Zenon, <1>1 DEF Daemons
    <3> QED
      BY Zenon, <1>1, <3>1, TableFacts
  <2> QED
    BY Zenon, <2>1 DEF TunnelUp, TunnelDown
<1>5. d' \in Daemons /\ SameRest(d, d') /\ d'.filters = d.filters /\ d'.tunnels = d.tunnels
  BY Zenon, <1>1, <1>4 DEF Daemons, SameRest, SameOptions
<1>6. SameOptions(d, d') /\ d'.fallback = d.fallback
  BY Zenon, <1>5 DEF SameRest
<1>7. Len(d'.filters) <= MaxFilters /\ FiltersAlive'
  BY Zenon, <1>1, <1>5 DEF FiltersAlive
<1> DEFINE q == Fresh(file)
           cfg == file
<1>8. SteadyAs(d, q, cfg)
  BY Zenon, <1>3 DEF Steady
<1>9. Steady(d', file') <=> SteadyAs(d', q, cfg)
  BY Zenon, <1>1 DEF Steady
<1> HIDE DEF q, cfg
<1>10. Settled(d', cfg) /\ LossesOf(d', q, cfg)
  BY Zenon, <1>5, <1>6, <1>8, SameSettled DEF SteadyAs
<1>11. SteadyAs(d', q, cfg)
  BY Zenon, <1>5, <1>8, <1>10 DEF SteadyAs
<1>12. clean' => Whole(d', file')
  BY Zenon, <1>1, <1>3, <1>5, <1>6 DEF Whole
<1> QED
  BY ZenonT(40), <1>1, <1>2, <1>5, <1>7, <1>9, <1>11, <1>12 DEF ConfigInv

(* Every step preserves the invariant.                                     *)
LEMMA InvNext == ASSUME ConfigInv, [ConfigNext]_configVars PROVE ConfigInv'
<1>1. ASSUME NEW cfg \in Files, Start(cfg) PROVE ConfigInv'
  <2>1. /\ file = NoFile /\ d.alive /\ d' = RecalcWeight(Load(d, cfg, TRUE)) /\ file' = cfg
        /\ clean' \in BOOLEAN
    BY Zenon, <1>1 DEF Start, ConfigInv
  <2> QED
    BY Zenon, <2>1, InvLoad
<1>2. ASSUME NEW cfg \in Files, Reload(cfg) PROVE ConfigInv'
  <2>1. d.alive /\ d' = RecalcWeight(Load(d, cfg, FALSE)) /\ file' = cfg /\ clean' \in BOOLEAN
    BY Zenon, <1>2 DEF Reload
  <2> QED
    BY Zenon, <2>1, InvLoad
<1>3. CASE UNCHANGED configVars
  BY Zenon, <1>3 DEF configVars, ConfigInv, FiltersAlive, Steady, Whole
<1> QED
  BY Zenon, <1>1, <1>2, <1>3, InvReloadFails, InvRtunStart, InvStatus DEF ConfigNext

LEMMA InvHolds == ConfigSpec => []ConfigInv
<1>1. ConfigInv /\ [ConfigNext]_configVars => ConfigInv'
  BY Zenon, InvNext
<1> QED
  BY InvInit, <1>1, PTL DEF ConfigSpec

-----------------------------------------------------------------------------
(* What mlvpn_config leaves stays within its bounds: every timeout is at   *)
(* least 2, every tolerance a percentage, and there are never more filters *)
(* than the array holds, whatever the files say and however often they are *)
(* loaded.                                                                 *)
THEOREM ConfigTypeCorrect == ConfigSpec => []ConfigTypeOK
<1>1. ConfigInv => ConfigTypeOK
  <2> SUFFICES ASSUME ConfigInv PROVE ConfigTypeOK
    OBVIOUS
  <2>1. d \in Daemons /\ clean \in BOOLEAN /\ Len(d.filters) <= MaxFilters
    BY Zenon DEF ConfigInv
  <2>2. /\ d.alive \in BOOLEAN /\ d.fallback \in BOOLEAN
        /\ d.reorder \in Nat /\ d.ring \in Nat /\ d.mtu \in Nat /\ d.cleartext \in Nat
    BY Zenon, <2>1 DEF Daemons
  <2>3. \A n \in DOMAIN d.tunnels : d.tunnels[n] \in Tunnels
    BY Zenon, <2>1, TableFacts
  <2>4. ASSUME NEW t \in Tunnels
        PROVE  t.timeout \in Nat \ {0, 1} /\ t.loss \in 0 .. 100 /\ t.bw \in Nat /\ t.fallback \in BOOLEAN
    BY Zenon DEF Tunnels
  <2>5. \A x \in Nat \ {0, 1} : x >= 2
    BY SMTT(20)
  <2> QED
    BY Zenon, <2>1, <2>2, <2>3, <2>4, <2>5 DEF ConfigTypeOK
<1> QED
  BY InvHolds, <1>1, PTL

(* No filter of mlvpn_config outlives the tunnel it sends to: the filters  *)
(* are cleared before tunnels are dropped and made again after.            *)
THEOREM FiltersStayAlive == ConfigSpec => []FiltersAlive
<1>1. ConfigInv => FiltersAlive
  BY Zenon DEF ConfigInv
<1> QED
  BY InvHolds, <1>1, PTL

(* mlvpn_config forgets the files before: the daemon has the tunnels and   *)
(* the filters of a start with the file it loaded last, and its options if *)
(* that file has a section [general].                                      *)
THEOREM ConfigForgets == ConfigSpec => []HistoryFree
<1>1. ConfigInv => HistoryFree
  <2> DEFINE q == Fresh(file)
  <2> SUFFICES ASSUME ConfigInv, d.alive, clean, file # NoFile
               PROVE  /\ LastingTunnels(d) = LastingTunnels(q)
                      /\ InFile(file, General) => LastingOptions(d) = LastingOptions(q)
    BY Zenon DEF HistoryFree, Fresh
  <2>1. file \in Files /\ SteadyAs(d, q, file) /\ d.filters = q.filters /\ d.fallback = q.fallback
    BY Zenon DEF ConfigInv, Steady, Whole
  <2> HIDE DEF q
  <2>2. ASSUME InFile(file, General) PROVE LastingOptions(d) = LastingOptions(q)
    <3>1. General \in SectionsOf(file)
      BY Zenon, <2>2 DEF InFile, SectionsOf
    <3>2. GeneralOf(d, file) /\ GeneralOf(q, file)
      BY Zenon, <2>1, <3>1 DEF SteadyAs, Settled, IsRead
    <3>3. /\ d.password = q.password /\ d.cleartext = q.cleartext /\ d.reorder = q.reorder
          /\ d.gateway = q.gateway /\ d.routes = q.routes
      BY SMT, <3>2 DEF GeneralOf
    <3> QED
      BY Zenon, <3>3 DEF LastingOptions
  <2>3. TunnelsIn(SectionsOf(file)) = TunnelsOf(file)
    BY Zenon DEF TunnelsIn, TunnelsOf
  <2>4. DOMAIN d.tunnels = TunnelsOf(file) /\ DOMAIN q.tunnels = TunnelsOf(file)
    BY Zenon, <2>1 DEF SteadyAs, Settled
  <2>5. ASSUME NEW n \in TunnelsOf(file)
        PROVE  /\ d.tunnels[n].loss = q.tunnels[n].loss /\ d.tunnels[n].bw = q.tunnels[n].bw
               /\ d.tunnels[n].fallback = q.tunnels[n].fallback
    <3>1. TunnelOf(d.tunnels[n], file, n) /\ TunnelOf(q.tunnels[n], file, n)
      BY Zenon, <2>1, <2>3 DEF SteadyAs, Settled, IsRead
    <3>2. d.tunnels[n].loss = q.tunnels[n].loss
      BY Zenon, <2>1 DEF SteadyAs, LossesOf
    <3> QED
      BY Zenon, <3>1, <3>2 DEF TunnelOf
  <2> DEFINE Of(s) == [n \in DOMAIN s.tunnels |->
                    [loss |-> s.tunnels[n].loss, bw |-> s.tunnels[n].bw,
                     fallback |-> s.tunnels[n].fallback]]
  <2>6. Of(d) = Of(q)
    BY Zenon, <2>4, <2>5
  <2> HIDE DEF Of
  <2>7. LastingTunnels(d) = LastingTunnels(q)
    BY Zenon, <2>1, <2>6 DEF LastingTunnels, Of
  <2> QED
    BY Zenon, <2>2, <2>7
<1> QED
  BY InvHolds, <1>1, PTL

(* A reload of the file in use changes no option and nothing of a tunnel   *)
(* but its status, whatever loads failed in between: sockets, addresses    *)
(* and weights stay.  The tunnels that leave an address to its default go  *)
(* down, and no other.                                                     *)
THEOREM ReloadIsIdle == ConfigSpec => SameFileAgain
<1> DEFINE A == Reload(file) /\ d'.alive =>
                  d' = [d EXCEPT !.filters = d'.filters, !.fallback = d'.fallback, !.local = d'.local,
                                 !.up = @ \ {n \in DOMAIN d.tunnels : ~GivesAddresses(file, n)}]
<1>1. ConfigInv /\ [ConfigNext]_configVars => [A]_configVars
  <2> DEFINE down == {n \in DOMAIN d.tunnels : ~GivesAddresses(file, n)}
  <2> SUFFICES ASSUME ConfigInv, Reload(file), d'.alive
               PROVE  d' = [d EXCEPT !.filters = d'.filters, !.fallback = d'.fallback, !.local = d'.local,
                                     !.up = d.up \ down]
    BY Zenon
  <2>1. /\ d.alive /\ file # NoFile /\ d' = RecalcWeight(Load(d, file, FALSE)) /\ file' = file
        /\ clean' \in BOOLEAN
    BY Zenon DEF Reload
  <2>2. file \in Files /\ Steady(d, file)
    BY Zenon, <2>1 DEF ConfigInv
  <2>3. Reloaded(d, d', file, FALSE)
    BY Zenon, <2>1, <2>2, InvLoad
  <2>4. /\ d' = [d EXCEPT !.filters = d'.filters, !.fallback = d'.fallback, !.local = d'.local, !.up = d'.up]
        /\ d'.up = d.up \ down
    BY Zenon, <2>2, <2>3 DEF Reloaded
  <2> HIDE DEF down
  <2> QED
    BY Zenon, <2>4
<1> QED
  BY InvHolds, <1>1, PTL DEF ConfigSpec, SameFileAgain

=============================================================================
