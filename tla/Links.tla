-------------------------------- MODULE Links --------------------------------
(***************************************************************************)
(* The tunnels of one mlvpn process and what it derives from their states: *)
(* mlvpn_status (connected, initialized, fallback_mode), the tunnels the   *)
(* weighted round robin may choose (wrr.c), and the status scripts it has  *)
(* run.  Handlers are those of mlvpn.c; the reload is that of config.c.    *)
(*                                                                         *)
(* Timers, packets and sockets appear as the outcomes they have here: a    *)
(* tunnel authenticates, times out, fails, is measured as lossy or slow.   *)
(***************************************************************************)
EXTENDS Integers, FiniteSets

CONSTANTS
    Names,    \* names of tunnels a configuration may declare
    Servers   \* those created with mode = "server" (tun->server_mode); the mode
              \* is read on each reload, so tunnels of both kinds may coexist

ASSUME NamesAssumption == IsFiniteSet(Names)

ASSUME ServersAssumption == Servers \subseteq Names

VARIABLES
    rtuns,          \* names of the tunnels in the list rtuns
    status,         \* tun->status (DISCONNECTED for a name that has no tunnel)
    fallbackOnly,   \* tun->fallback_only
    fallbackAvail,  \* mlvpn_options.fallback_available
    fallbackMode,   \* mlvpn_status.fallback_mode
    connected,      \* mlvpn_status.connected
    initialized,    \* mlvpn_status.initialized
    wrr,            \* tunnels in wrr.tunnel[0 .. wrr.len - 1]
    reload,         \* where mlvpn_config is: "idle" or "parse"
    conf,           \* tunnels the configuration being read declares
    todo,           \* those whose section is still to be read
    rtunScript,     \* history: last of rtun_up, rtun_down run for a name
    tuntapScript,   \* history: last of tuntap_up, tuntap_down run
    flipped         \* history: tunnels whose fallback_only changed since the
                    \* last mlvpn_rtun_wrr_reset

view == <<fallbackMode, connected, initialized, wrr>>
parsing == <<reload, conf, todo>>
scripts == <<rtunScript, tuntapScript>>
vars == <<rtuns, status, fallbackOnly, fallbackAvail, view, parsing, scripts, flipped>>

-----------------------------------------------------------------------------
Status == {"DISCONNECTED", "AUTHSENT", "AUTHOK", "LOSSY", "HIGH_LATENCY"}

Up == {"AUTHOK", "LOSSY", "HIGH_LATENCY"}   \* status >= MLVPN_AUTHOK

Connected(st) == {t \in rtuns : st[t] \in Up}

TypeOK ==
    /\ rtuns \in SUBSET Names
    /\ status \in [Names -> Status]
    /\ fallbackOnly \in [Names -> BOOLEAN]
    /\ fallbackAvail \in BOOLEAN
    /\ fallbackMode \in BOOLEAN
    /\ connected \in Nat
    /\ initialized \in BOOLEAN
    /\ wrr \in SUBSET Names
    /\ reload \in {"idle", "parse"}
    /\ conf \in SUBSET Names
    /\ todo \in SUBSET conf
    /\ rtunScript \in [Names -> {"none", "rtun_up", "rtun_down"}]
    /\ tuntapScript \in {"none", "tuntap_up", "tuntap_down"}
    /\ flipped \in SUBSET Names

(* main, after mlvpn_config(fd, 1): tunnels exist, none is connected.      *)
Init ==
    /\ rtuns \in SUBSET Names
    /\ status = [t \in Names |-> "DISCONNECTED"]
    /\ fallbackOnly \in [Names -> BOOLEAN]
    /\ fallbackAvail = (\E t \in rtuns : fallbackOnly[t])
    /\ fallbackMode = FALSE
    /\ connected = 0
    /\ initialized = FALSE
    /\ wrr = {}
    /\ reload = "idle"
    /\ conf = {}
    /\ todo = {}
    /\ rtunScript = [t \in Names |-> "none"]
    /\ tuntapScript = "none"
    /\ flipped = {}

-----------------------------------------------------------------------------
(* Mutant: normal tunnels do not end the fallback mode.                    *)
ModeIgnoresLinks(st, avail) == avail

(* mlvpn_update_status with the statuses st.  The mode is recomputed from  *)
(* the tunnels that are up, whatever switch_to_fallback_if_necessary chose *)
(* before.                                                                 *)
Mode(st, avail) == avail /\ \A t \in Connected(st) : fallbackOnly[t]

(* Mutant: fallback tunnels are not counted.                               *)
UpdateStatusNormal(st, avail) ==
    /\ fallbackMode' = Mode(st, avail)
    /\ connected' = Cardinality({t \in Connected(st) : ~fallbackOnly[t]})

UpdateStatus(st, avail) ==
    /\ fallbackMode' = Mode(st, avail)
    /\ connected' = Cardinality(Connected(st))

(* Mutant: the status is not looked at.                                    *)
WrrSetAll(st, mode) == {t \in rtuns : fallbackOnly[t] = mode}

(* mlvpn_rtun_wrr_reset: the tunnels of the wanted kind that are AUTHOK    *)
(* or, in fallback mode, connected in any state.                           *)
WrrSet(st, mode) ==
    {t \in rtuns : /\ fallbackOnly[t] = mode
                   /\ st[t] = "AUTHOK" \/ (mode /\ st[t] \in Up)}

(* mlvpn_rtun_status_up: scripts included.  A server runs rtun_up again    *)
(* when a connected client authenticates again.                            *)
StatusUp(t) ==
    LET st == [status EXCEPT ![t] = "AUTHOK"]
    IN  /\ status' = st
        /\ UpdateStatus(st, fallbackAvail)
        /\ wrr' = WrrSet(st, Mode(st, fallbackAvail))
        /\ rtunScript' = [rtunScript EXCEPT ![t] = "rtun_up"]
        /\ IF connected' > 0 /\ ~initialized
           THEN tuntapScript' = "tuntap_up" /\ initialized' = TRUE
           ELSE UNCHANGED <<tuntapScript, initialized>>

(* mlvpn_rtun_status_down.  The status is recomputed for any tunnel, the   *)
(* round robin and the scripts follow only if the tunnel was connected.    *)
StatusDown(t, avail) ==
    LET st == [status EXCEPT ![t] = "DISCONNECTED"]
    IN  /\ status' = st
        /\ UpdateStatus(st, avail)
        /\ IF status[t] \in Up
           THEN /\ rtunScript' = [rtunScript EXCEPT ![t] = "rtun_down"]
                /\ wrr' = WrrSet(st, Mode(st, avail))
                /\ IF connected' = 0 /\ initialized
                   THEN tuntapScript' = "tuntap_down" /\ initialized' = FALSE
                   ELSE UNCHANGED <<tuntapScript, initialized>>
           ELSE UNCHANGED <<scripts, wrr, initialized>>

(* flipped after mlvpn_rtun_status_down.                                   *)
StillFlipped(t) == IF status[t] \in Up THEN {} ELSE flipped

-----------------------------------------------------------------------------
(* mlvpn_rtun_read, an AUTH or AUTH_OK packet: mlvpn_rtun_send_auth.       *)
Authenticate(t) ==
    /\ IF t \in Servers THEN status[t] \in Up \cup {"DISCONNECTED"}
       ELSE status[t] = "AUTHSENT"
    /\ StatusUp(t)
    /\ flipped' = {}
    /\ UNCHANGED <<rtuns, fallbackOnly, fallbackAvail, parsing>>

(* A read error (mlvpn_rtun_read), a write error (mlvpn_rtun_send): any    *)
(* tunnel whose socket is open.                                            *)
SocketError(t) ==
    /\ StatusDown(t, fallbackAvail)
    /\ flipped' = StillFlipped(t)
    /\ UNCHANGED <<rtuns, fallbackOnly, fallbackAvail, parsing>>

(* A DISCONNECT packet, or mlvpn_rtun_check_timeout without a keepalive    *)
(* for too long.  The health checks that end check_timeout do nothing to a *)
(* tunnel that has just gone down.                                         *)
PeerGone(t) ==
    /\ status[t] \in Up
    /\ StatusDown(t, fallbackAvail)
    /\ flipped' = StillFlipped(t)
    /\ UNCHANGED <<rtuns, fallbackOnly, fallbackAvail, parsing>>

(* mlvpn_rtun_check_timeout of a client tunnel that is not connected, when *)
(* mlvpn_rtun_start succeeds or the socket is open: a challenge is sent.   *)
TickConnect(t) ==
    /\ t \notin Servers
    /\ status[t] \notin Up
    /\ status' = [status EXCEPT ![t] = "AUTHSENT"]
    /\ UNCHANGED <<rtuns, fallbackOnly, fallbackAvail, view, parsing, scripts, flipped>>

(* switch_to_fallback_if_necessary: a tunnel that is not fallback_only and *)
(* neither LOSSY nor HIGH_LATENCY, connected or not, keeps the normal mode.*)
Usable(st) ==
    \E t \in rtuns : ~fallbackOnly[t] /\ st[t] \notin {"LOSSY", "HIGH_LATENCY"}

(* Mutant: the fallback tunnels are tried first.                           *)
SwitchFallbackFirst(st, sel) ==
    IF Usable(st) \/ fallbackAvail
    THEN [mode |-> fallbackAvail, wrr |-> WrrSet(st, fallbackAvail), flipped |-> {}]
    ELSE sel

Switch(st, sel) ==
    IF Usable(st) \/ fallbackAvail
    THEN [mode |-> ~Usable(st), wrr |-> WrrSet(st, ~Usable(st)), flipped |-> {}]
    ELSE sel

(* mlvpn_rtun_check_lossy then mlvpn_rtun_check_slow: each may move the    *)
(* tunnel between AUTHOK and its own state, and each change is followed by *)
(* switch_to_fallback_if_necessary.                                        *)
Measure(s, bad, mark) ==
    CASE bad /\ s = "AUTHOK" -> mark
      [] ~bad /\ s = mark -> "AUTHOK"
      [] OTHER -> s

(* mlvpn_rtun_check_timeout of a connected tunnel that has not timed out.  *)
(* A tunnel whose latency_tolerence is 1000 is not examined by check_slow; *)
(* that is one of the outcomes of slow in each state.                      *)
CheckHealth(t, loss, slow) ==
    LET s1 == Measure(status[t], loss, "LOSSY")
        s2 == Measure(s1, slow, "HIGH_LATENCY")
        now == [mode |-> fallbackMode, wrr |-> wrr, flipped |-> flipped]
        st1 == [status EXCEPT ![t] = s1]
        st2 == [status EXCEPT ![t] = s2]
        sel1 == IF s1 # status[t] THEN Switch(st1, now) ELSE now
        sel2 == IF s2 # s1 THEN Switch(st2, sel1) ELSE sel1
    IN  /\ status[t] \in Up
        /\ status' = st2
        /\ fallbackMode' = sel2.mode
        /\ wrr' = sel2.wrr
        /\ flipped' = sel2.flipped
        /\ UNCHANGED <<rtuns, fallbackOnly, fallbackAvail, connected, initialized,
                       parsing, scripts>>

-----------------------------------------------------------------------------
(* mlvpn_config on SIGHUP.  It runs to its end before any other handler,   *)
(* one section after another; each section that moves a tunnel takes it    *)
(* down at once, with the fallback_available of the sections read so far.  *)
ReloadBegin(names) ==
    /\ reload = "idle"
    /\ reload' = "parse"
    /\ conf' = names
    /\ todo' = names
    /\ fallbackAvail' = FALSE
    /\ UNCHANGED <<rtuns, status, fallbackOnly, view, scripts, flipped>>

(* The file cannot be read: the handler stops after its first assignments. *)
ReloadFails ==
    /\ reload = "idle"
    /\ fallbackAvail' = FALSE
    /\ UNCHANGED <<rtuns, status, fallbackOnly, view, parsing, scripts, flipped>>

(* The section of a tunnel that exists; moved: an address or port changed  *)
(* or left out.                                                            *)
ReloadSection(t, fb, moved) ==
    /\ t \in todo \cap rtuns
    /\ fallbackAvail' = (fallbackAvail \/ fb)
    /\ IF moved THEN StatusDown(t, fallbackAvail')
       ELSE UNCHANGED <<status, view, scripts>>
    /\ fallbackOnly' = [fallbackOnly EXCEPT ![t] = fb]
    /\ flipped' = (IF moved THEN StillFlipped(t) ELSE flipped)
                    \cup {u \in {t} : fb # fallbackOnly[u]}
    /\ todo' = todo \ {t}
    /\ UNCHANGED <<rtuns, reload, conf>>

(* The section of a new tunnel: mlvpn_rtun_new.                            *)
ReloadNew(t, fb) ==
    /\ t \in todo \ rtuns
    /\ fallbackAvail' = (fallbackAvail \/ fb)
    /\ rtuns' = rtuns \cup {t}
    /\ fallbackOnly' = [fallbackOnly EXCEPT ![t] = fb]
    /\ todo' = todo \ {t}
    /\ UNCHANGED <<status, view, reload, conf, scripts, flipped>>

(* Mutant: the tunnel is removed without being taken down.                 *)
ReloadDropSilent(t) ==
    /\ reload = "parse" /\ todo = {}
    /\ t \in rtuns \ conf
    /\ rtuns' = rtuns \ {t}
    /\ UNCHANGED <<status, fallbackOnly, fallbackAvail, view, parsing, scripts, flipped>>

(* A tunnel the new configuration does not declare: mlvpn_rtun_drop.       *)
ReloadDrop(t) ==
    /\ reload = "parse" /\ todo = {}
    /\ t \in rtuns \ conf
    /\ StatusDown(t, fallbackAvail)
    /\ flipped' = StillFlipped(t)
    /\ rtuns' = rtuns \ {t}
    /\ UNCHANGED <<fallbackOnly, fallbackAvail, parsing>>

ReloadEnd ==
    /\ reload = "parse" /\ todo = {}
    /\ rtuns = conf
    /\ reload' = "idle"
    /\ conf' = {}
    /\ UNCHANGED <<rtuns, status, fallbackOnly, fallbackAvail, view, todo, scripts, flipped>>

-----------------------------------------------------------------------------
Handler(t) ==
    /\ reload = "idle"
    /\ \/ Authenticate(t)
       \/ SocketError(t)
       \/ PeerGone(t)
       \/ TickConnect(t)
       \/ \E loss, slow \in BOOLEAN : CheckHealth(t, loss, slow)

Reload ==
    \/ \E names \in SUBSET Names : ReloadBegin(names)
    \/ ReloadFails
    \/ \E t \in Names, fb, moved \in BOOLEAN : ReloadSection(t, fb, moved)
    \/ \E t \in Names, fb \in BOOLEAN : ReloadNew(t, fb)
    \/ \E t \in Names : ReloadDrop(t)
    \/ ReloadEnd

Next == (\E t \in rtuns : Handler(t)) \/ Reload

Spec == Init /\ [][Next]_vars

-----------------------------------------------------------------------------
(* The round robin never holds a tunnel that is not connected, or that a   *)
(* reload has removed: mlvpn_rtun_choose would queue packets nobody sends. *)
OnlyConnectedChosen == \A t \in wrr : t \in rtuns /\ status[t] \in Up

(* A healthy normal tunnel is always among those the round robin chooses   *)
(* from, whatever happened to the other tunnels: only a reload that has    *)
(* turned a fallback tunnel into a normal one (or the reverse) may be      *)
(* waiting for the next reset.                                             *)
HealthyLinksUsed ==
    \A t \in rtuns \ flipped :
        ~fallbackOnly[t] /\ status[t] = "AUTHOK" => t \in wrr

(* A fallback_only tunnel carries no traffic while a normal one is healthy.*)
FallbackLast ==
    \A t \in wrr \ flipped, u \in rtuns \ flipped :
        fallbackOnly[t] /\ ~fallbackOnly[u] => status[u] # "AUTHOK"

(* The counter, the flag and the tuntap_up and tuntap_down scripts agree   *)
(* with the tunnels: the device is up while some tunnel is connected,      *)
(* also when a reload takes tunnels down or removes them.                  *)
DeviceFollowsLinks ==
    /\ connected = Cardinality(Connected(status))
    /\ initialized <=> connected > 0
    /\ tuntapScript = "tuntap_up" <=> connected > 0

(* The last script run for a tunnel is rtun_up exactly while the tunnel is *)
(* connected; in particular every tunnel that is removed has been announced*)
(* as down.                                                                *)
ScriptsFollowLinks ==
    \A t \in Names :
        rtunScript[t] = "rtun_up" <=> t \in rtuns /\ status[t] \in Up

(* Lossy or slow links are used anyway if no other choice is available:    *)
(* connected tunnels that are all normal and all lossy or slow.            *)
LossyUsedAnyway ==
    /\ reload = "idle" /\ flipped = {}
    /\ Connected(status) # {}
    /\ \A t \in Connected(status) : ~fallbackOnly[t] /\ status[t] # "AUTHOK"
    => wrr # {}

=============================================================================
