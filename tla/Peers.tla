-------------------------------- MODULE Peers --------------------------------
(***************************************************************************)
(* The two ends of one tunnel, a client and a server process, and the      *)
(* network between them: authentication, keepalives, timeouts, and the two *)
(* send buffers of a tunnel with the watcher (io_write) that empties them  *)
(* (mlvpn.c, buffer.c, tuntap_generic.c).                                  *)
(*                                                                         *)
(* A message is its type; a data packet that was sent is for the receive   *)
(* path of modules Reorder and RecvPath, and changes nothing here.  AUTHOK *)
(* stands for every status from MLVPN_AUTHOK on; module Links tells them   *)
(* apart.  Time is counted in runs of mlvpn_rtun_check_timeout, one per    *)
(* second in each process.                                                 *)
(***************************************************************************)
EXTENDS Integers, Sequences

CONSTANTS
    HpsSize,   \* capacity of hpsbuf (PKTBUFSIZE)
    SbufSize,  \* capacity of sbuf (PKTBUFSIZE)
    Timeout,   \* tun->timeout, at least 2 (config.c)
    Talkers,   \* processes whose tuntap device delivers packets
    Moved      \* processes a reload may take the tunnel down of

ASSUME SizesAssumption == HpsSize \in Nat \ {0} /\ SbufSize \in Nat \ {0}

ASSUME TimeoutAssumption == Timeout \in Nat /\ Timeout >= 2

VARIABLES
    alive,  \* the processes that run
    tun,    \* the tunnel of each process
    net     \* the control messages under way to each process

vars == <<alive, tun, net>>

Process == {"client", "server"}
Other(p) == CHOOSE q \in Process : q # p
Control == {"AUTH", "AUTH_OK", "KEEPALIVE", "DISCONNECT"}
Type == Control \cup {"DATA"}
Result == {"sent", "lost", "error"}   \* of sendto; lost: EAGAIN, the packet is dropped

(* mlvpn_tunnel_t: open is fd >= 0; silent, the runs of check_timeout      *)
(* since last_keepalive_ack; due, one has passed since next_keepalive was  *)
(* set; quiet, one has passed since last_keepalive_ack_sent.  The last     *)
(* three start at mlvpn_rtun_status_up and mean nothing before it.         *)
Tunnel == [open : BOOLEAN, status : {"DISCONNECTED", "AUTHSENT", "AUTHOK"},
           hps : Seq(Type), sbuf : Seq(Type), watch : BOOLEAN,
           silent : 0 .. Timeout, due : BOOLEAN, quiet : BOOLEAN]

TypeOK ==
    /\ alive \subseteq Process
    /\ tun \in [Process -> Tunnel]
    /\ \A p \in Process : Len(tun[p].hps) <= HpsSize /\ Len(tun[p].sbuf) <= SbufSize
    /\ net \in [Process -> SUBSET Control]

(* mlvpn_rtun_new                                                          *)
New == [open |-> FALSE, status |-> "DISCONNECTED",
        hps |-> <<>>, sbuf |-> <<>>, watch |-> FALSE,
        silent |-> 0, due |-> FALSE, quiet |-> FALSE]

Init ==
    /\ alive = Process
    /\ tun = [p \in Process |-> New]
    /\ net = [p \in Process |-> {}]

Up(p) == tun[p].status = "AUTHOK"

-----------------------------------------------------------------------------
(* mlvpn_pktbuffer_write: a full buffer loses its oldest packet.           *)
Put(q, size, m) == IF Len(q) < size THEN Append(q, m) ELSE Append(Tail(q), m)

(* mlvpn_rtun_status_up                                                    *)
StatusUp(t) ==
    [t EXCEPT !.status = "AUTHOK", !.silent = 0, !.due = FALSE, !.quiet = FALSE]

(* Mutants: the buffers, or the watcher, are left as they are.             *)
StatusDownKeepsBuffers(t) == [New EXCEPT !.open = t.open, !.hps = t.hps, !.sbuf = t.sbuf]
StatusDownKeepsWatch(t) == [New EXCEPT !.open = t.open, !.watch = t.watch]

(* mlvpn_rtun_status_down empties both buffers and stops the watcher; the  *)
(* socket stays.                                                           *)
StatusDown(t) == [New EXCEPT !.open = t.open]

(* mlvpn_rtun_send from buffer b: the packet leaves the buffer whatever    *)
(* sendto does, and the watcher is stopped when this buffer is empty.  The *)
(* early returns (packet too long, encryption error) cannot happen: tuntap *)
(* truncates to maxmtu, and libsodium's encryption always succeeds.        *)
Send(t, b, result) ==
    IF result = "error" THEN StatusDown(t)
    ELSE [t EXCEPT ![b] = Tail(@), !.watch = @ /\ Len(t[b]) > 1]

(* mlvpn_rtun_send_keepalive                                               *)
SendKeepalive(t) ==
    [t EXCEPT !.hps = IF Len(@) < HpsSize THEN Append(@, "KEEPALIVE") ELSE @,
              !.due = FALSE]

(* Messages under way after sending those of S to p.                       *)
Sent(p, S) == [net EXCEPT ![p] = @ \cup (S \cap Control)]

Becomes(p, t) == tun' = [tun EXCEPT ![p] = t] /\ UNCHANGED alive

-----------------------------------------------------------------------------
(* mlvpn_tuntap_generic_read: a packet that a filter sends to this tunnel  *)
(* goes to hpsbuf, one for which the round robin chooses it to sbuf.       *)
TuntapRead(p, b) ==
    /\ p \in alive \cap Talkers /\ Up(p)
    /\ LET size == IF b = "hps" THEN HpsSize ELSE SbufSize
       IN  Becomes(p, [tun[p] EXCEPT ![b] = Put(@, size, "DATA"), !.watch = TRUE])
    /\ UNCHANGED net

(* mlvpn_rtun_write: one packet of each buffer.                            *)
Write(p, r1, r2) ==
    LET t  == tun[p]
        t1 == IF t.hps = <<>> THEN t ELSE Send(t, "hps", r1)
        t2 == IF t1.sbuf = <<>> THEN t1 ELSE Send(t1, "sbuf", r2)
    IN  /\ p \in alive /\ t.watch
        /\ Becomes(p, t2)
        /\ net' = Sent(Other(p),
                       {m \in Type : \/ t.hps # <<>> /\ r1 = "sent" /\ m = Head(t.hps)
                                     \/ t1.sbuf # <<>> /\ r2 = "sent" /\ m = Head(t1.sbuf)})

(* mlvpn_rtun_send_auth, on either message of the handshake.               *)
SendAuth(p, t) ==
    IF p = "server"
    THEN [StatusUp(t) EXCEPT
             !.hps = Append(IF Len(@) < HpsSize THEN @ ELSE <<>>, "AUTH_OK"),
             !.watch = TRUE]
    ELSE IF t.status = "AUTHSENT" THEN StatusUp(t) ELSE t

(* mlvpn_rtun_read, a KEEPALIVE: the answer is limited to one per second,  *)
(* and waits in hpsbuf for the next event that starts the watcher.         *)
GotKeepalive(t, answer) ==
    IF answer THEN [SendKeepalive(t) EXCEPT !.silent = 0, !.quiet = FALSE]
    ELSE [t EXCEPT !.silent = 0]

(* mlvpn_rtun_read of a control message, which is ignored in a state that  *)
(* does not expect it; again: the network will deliver it once more.       *)
Read(p, m, answer, again) ==
    /\ p \in alive /\ tun[p].open
    /\ m \in net[p]
    /\ net' = [net EXCEPT ![p] = IF again THEN @ ELSE @ \ {m}]
    /\ answer => m = "KEEPALIVE" /\ tun[p].quiet
    /\ Becomes(p, CASE m \in {"AUTH", "AUTH_OK"} -> SendAuth(p, tun[p])
                    [] m = "KEEPALIVE" /\ Up(p) -> GotKeepalive(tun[p], answer)
                    [] m = "DISCONNECT" /\ Up(p) -> StatusDown(tun[p])
                    [] OTHER -> tun[p])

-----------------------------------------------------------------------------
(* Mutant: the time without keepalives starts again at each one sent.      *)
CheckAliveForgets(t, keepalive) ==
    IF t.silent = Timeout THEN StatusDown(t)
    ELSE IF keepalive \/ t.due
         THEN [SendKeepalive(t) EXCEPT !.silent = 0, !.quiet = TRUE]
         ELSE [t EXCEPT !.silent = @ + 1, !.due = TRUE, !.quiet = TRUE]

(* mlvpn_rtun_check_timeout of a connected tunnel.  The second it waits    *)
(* between two keepalives is over at the next run or at the one after it.  *)
CheckAlive(t, keepalive) ==
    IF t.silent = Timeout THEN StatusDown(t)
    ELSE LET u == [t EXCEPT !.silent = @ + 1, !.due = TRUE, !.quiet = TRUE]
         IN  IF keepalive \/ t.due THEN SendKeepalive(u) ELSE u

(* Mutant: the challenge is sent once.                                     *)
TickConnectOnce(p, t, started) ==
    LET u == [t EXCEPT !.open = @ \/ started]
    IN  IF p = "server" \/ ~u.open \/ t.status = "AUTHSENT" THEN u
        ELSE [u EXCEPT !.status = "AUTHSENT", !.hps = Put(@, HpsSize, "AUTH")]

(* mlvpn_rtun_tick_connect and mlvpn_rtun_challenge_send.  A socket that   *)
(* is open is used again; started: mlvpn_rtun_start succeeds.              *)
TickConnect(p, t, started) ==
    LET u == [t EXCEPT !.open = @ \/ started]
    IN  IF p = "server" \/ ~u.open THEN u
        ELSE [u EXCEPT !.status = "AUTHSENT", !.hps = Put(@, HpsSize, "AUTH")]

(* Mutant: nothing is restarted.                                           *)
StartWriteNot(t) == t

(* The end of check_timeout starts the watcher if hpsbuf has something.    *)
StartWrite(t) == [t EXCEPT !.watch = @ \/ t.hps # <<>>]

CheckTimeout(p, keepalive, started) ==
    /\ p \in alive
    /\ Becomes(p, StartWrite(IF Up(p) THEN CheckAlive(tun[p], keepalive)
                             ELSE TickConnect(p, tun[p], started)))
    /\ UNCHANGED net

-----------------------------------------------------------------------------
(* A read error of the socket.                                             *)
SocketError(p) ==
    /\ p \in alive /\ tun[p].open
    /\ Becomes(p, StatusDown(tun[p]))
    /\ UNCHANGED net

(* mlvpn_config on SIGHUP, with an address or port of the tunnel changed   *)
(* or left out: it is taken down; the socket, with the old address, stays. *)
ReloadMoved(p) ==
    /\ p \in alive \cap Moved
    /\ Becomes(p, StatusDown(tun[p]))
    /\ UNCHANGED net

(* mlvpn_quit: DISCONNECT is queued, and the first packet of hpsbuf sent.  *)
Quit(p) ==
    /\ p \in alive
    /\ net' = Sent(Other(p), {m \in Type : Up(p) /\ m = Head(Append(tun[p].hps, "DISCONNECT"))})
    /\ alive' = alive \ {p}
    /\ tun' = [tun EXCEPT ![p] = New]

Crash(p) ==
    /\ p \in alive
    /\ alive' = alive \ {p}
    /\ tun' = [tun EXCEPT ![p] = New]
    /\ UNCHANGED net

Restart(p) ==
    /\ p \notin alive
    /\ alive' = alive \cup {p}
    /\ UNCHANGED <<tun, net>>

Lose(p, m) ==
    /\ m \in net[p]
    /\ net' = [net EXCEPT ![p] = @ \ {m}]
    /\ UNCHANGED <<alive, tun>>

Handler(p) ==
    \/ \E b \in {"hps", "sbuf"} : TuntapRead(p, b)
    \/ \E r1, r2 \in Result : Write(p, r1, r2)
    \/ \E m \in Control, answer, again \in BOOLEAN : Read(p, m, answer, again)
    \/ \E keepalive, started \in BOOLEAN : CheckTimeout(p, keepalive, started)

Fault(p) ==
    \/ SocketError(p)
    \/ ReloadMoved(p)
    \/ Quit(p)
    \/ Crash(p)
    \/ Restart(p)
    \/ \E m \in Control : Lose(p, m)

Next == \E p \in Process : Handler(p) \/ Fault(p)

Spec == Init /\ [][Next]_vars

-----------------------------------------------------------------------------
(* A tunnel that is not connected has nothing to send but its challenge:   *)
(* no data, keepalive or answer of a session that ended reaches the peer   *)
(* in the next one.                                                        *)
NoStaleQueue ==
    \A p \in Process : ~Up(p) =>
        /\ tun[p].sbuf = <<>>
        /\ \A i \in DOMAIN tun[p].hps : p = "client" /\ tun[p].hps[i] = "AUTH"

(* The watcher is active only while a buffer has packets: with nothing to  *)
(* write, libev would call mlvpn_rtun_write again and again.               *)
WatchMeansWork ==
    \A p \in Process : tun[p].watch => tun[p].hps # <<>> \/ tun[p].sbuf # <<>>

(* Packets never wait for ever in a buffer with the watcher stopped, as    *)
(* mlvpn_rtun_send leaves them when it empties the other buffer.           *)
Waiting(p) == ~tun[p].watch /\ (tun[p].hps # <<>> \/ tun[p].sbuf # <<>>)
NothingStuck == \A p \in Process : Waiting(p) ~> ~Waiting(p)

(* A process whose peer is gone for good notices (check_timeout), though   *)
(* the DISCONNECT of mlvpn_quit may be lost or never have been sent.       *)
PeerLossNoticed ==
    \A p \in Process : <>[](alive = {p}) => <>[](~Up(p))

(* Two processes that stay alive end up connected and remain so, whatever  *)
(* state the handshake and the timeouts of either end were left in.        *)
Reconnects == <>[](alive = Process) => <>[](\A p \in Process : Up(p))

=============================================================================
