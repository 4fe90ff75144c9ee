-------------------------------- MODULE Config --------------------------------
(***************************************************************************)
(* Loading the configuration (mlvpn_config) at the start and on SIGHUP.    *)
(*                                                                         *)
(* The daemon is a record d; each part of mlvpn_config maps it to what it  *)
(* is afterwards.  Options treated alike are represented by one of them:   *)
(* interface_name stands for those read at the start only, ip4 for ip6,    *)
(* ip4_routes for ip6_routes and ip6_gateway, loss_tolerence for           *)
(* latency_tolerence.  d.up is the set of tunnels that are connected; what *)
(* else mlvpn_rtun_status_down does is in module Links.  A file is the     *)
(* list that module ConfigFile reads from it.                              *)
(***************************************************************************)
EXTENDS ConfigList, Functions

CONSTANTS
    Files,       \* the lists of the files there may be
    NoFile,      \* no file was loaded yet
    MaxFilters   \* 255

ASSUME BoundsAssumption == MaxFilters \in Nat

ASSUME FilesAssumption ==
    NoFile \notin Files /\ \A cfg \in Files : cfg \in Seq({cfg[i] : i \in DOMAIN cfg})

VARIABLES
    d,      \* the daemon
    file,   \* history: the file loaded last without an error
    clean   \* history: no load failed since

configVars == <<d, file, clean>>

General == <<"general">>
IsFilters(section) == section # Null /\ section[1] = "filters"

(* Before the first load, and what the locals of mlvpn_config start with.  *)
Locals == [server |-> FALSE, timeout |-> 60, loss |-> 100]
NoDaemon ==
    [alive |-> TRUE, devname |-> Null, password |-> Null, cleartext |-> 1,
     reorder |-> 0, ring |-> 0, ip4 |-> Null, gateway |-> Null, routes |-> Null, mtu |-> 0,
     fallback |-> FALSE, tunnels |-> <<>>, up |-> {}, filters |-> <<>>, local |-> Locals]

ConfigInit == d = NoDaemon /\ file = NoFile /\ clean = TRUE

-----------------------------------------------------------------------------
(* Mutant: the least value is one too low.                                 *)
AtLeastLess(n, x) == IF x < n THEN n - 1 ELSE x

AtLeast(n, x) == IF x < n THEN n ELSE x
AtMost(n, x) == IF x > n THEN n ELSE x

(* The reorder_buffer_size of a file: the ring is 0 where the pointer is   *)
(* NULL.                                                                   *)
SetReorder(s, size) ==
    IF size = s.reorder THEN s
    ELSE [s EXCEPT !.reorder = size, !.ring = IF size > 0 THEN size ELSE @]

(* ip4 stays when the file has none, the gateways and routes are cleared.  *)
SetAddresses(s, cfg) ==
    LET ip4 == GetValue(cfg, General, <<"ip4">>)
    IN  [s EXCEPT !.ip4 = IF ip4 = Null THEN @ ELSE ip4,
                  !.gateway = GetValue(cfg, General, <<"ip4_gateway">>),
                  !.routes = GetValue(cfg, General, <<"ip4_routes">>)]

SetMtu(s, cfg) ==
    LET mtu == GetUint(cfg, General, <<"mtu">>, 1432)
    IN  IF mtu # 0 THEN [s EXCEPT !.mtu = mtu] ELSE s

SetDefaults(s, cfg) ==
    [s EXCEPT !.local =
        [server |-> @.server \/ GetValue(cfg, General, <<"mode">>) = <<"server">>,
         timeout |-> AtLeast(2, GetUint(cfg, General, <<"timeout">>, 60)),
         loss |-> AtMost(100, GetUint(cfg, General, <<"loss_tolerence">>, 100))]]

SetDevice(s, cfg) ==
    LET name == GetValue(cfg, General, <<"interface_name">>)
    IN  [s EXCEPT !.devname = IF name = Null THEN <<"mlvpn0">> ELSE name]

(* Section [general]; fatalx without a mode or a password.                 *)
LoadGeneral(s, cfg, first) ==
    LET s1 == IF first THEN SetDevice(s, cfg) ELSE s
        s2 == [SetDefaults(s1, cfg) EXCEPT
                  !.password = GetValue(cfg, General, <<"password">>),
                  !.cleartext = GetUint(cfg, General, <<"cleartext_data">>, 0)]
        s3 == SetReorder(s2, GetUint(cfg, General, <<"reorder_buffer_size">>, 0))
    IN  IF Null \in {GetValue(cfg, General, v) : v \in {<<"mode">>, <<"password">>}}
        THEN [s1 EXCEPT !.alive = FALSE]
        ELSE SetMtu(SetAddresses(s3, cfg), cfg)

-----------------------------------------------------------------------------
(* mlvpn_rtun_new.  addrinfo is what the last mlvpn_rtun_start resolved.   *)
NewTunnel(s, want) ==
    [server |-> s.local.server, timeout |-> want.timeout, loss |-> want.loss, bw |-> want.bw,
     fallback |-> want.fallback, from |-> want.from, bind |-> want.bind, fib |-> want.fib,
     host |-> want.host, port |-> want.port,
     weight |-> <<1, 0>>, open |-> FALSE, addrinfo |-> Null]

(* Mutant: fallback_only of a tunnel that exists is not changed.           *)
UpdateTunnelNotFallback(t, want) ==
    [t EXCEPT !.from = IF want.from = Null THEN @ ELSE want.from,
              !.bind = IF want.bind = Null THEN @ ELSE want.bind, !.fib = want.fib,
              !.host = IF want.host = Null THEN @ ELSE want.host,
              !.port = IF want.port = Null THEN @ ELSE want.port,
              !.bw = want.bw, !.loss = want.loss]

(* Mutant: two strings that are not there are equal.                       *)
StrEqNull(s1, s2) == s1 = s2

(* mystr_eq: NULL is equal to nothing, NULL included.                      *)
StrEq(s1, s2) == s1 # Null /\ s1 = s2

(* A tunnel that exists stays connected if the section gives all its       *)
(* addresses as they are; it goes down if one is left out.                 *)
SameAddresses(t, want) ==
    /\ StrEq(want.from, t.from) /\ StrEq(want.bind, t.bind) /\ t.fib = want.fib
    /\ StrEq(want.host, t.host) /\ StrEq(want.port, t.port)

(* An address the file does not give stays, as do the timeout, the mode    *)
(* and the socket.                                                         *)
UpdateTunnel(t, want) ==
    [t EXCEPT !.from = IF want.from = Null THEN @ ELSE want.from,
              !.bind = IF want.bind = Null THEN @ ELSE want.bind, !.fib = want.fib,
              !.host = IF want.host = Null THEN @ ELSE want.host,
              !.port = IF want.port = Null THEN @ ELSE want.port,
              !.fallback = want.fallback, !.bw = want.bw, !.loss = want.loss]

(* What the section of a tunnel asks for,                                  *)
Wants(s, cfg, name) ==
    [from |-> GetValue(cfg, name, <<"bindhost">>),
     bind |-> GetValue(cfg, name, <<"bindport">>),
     fib |-> GetUint(cfg, name, <<"bindfib">>, 0),
     host |-> GetValue(cfg, name, <<"remotehost">>),
     port |-> GetValue(cfg, name, <<"remoteport">>),
     bw |-> GetUint(cfg, name, <<"bandwidth_upload">>, 0),
     timeout |-> AtLeast(2, GetUint(cfg, name, <<"timeout">>, s.local.timeout)),
     loss |-> AtMost(100, GetUint(cfg, name, <<"loss_tolerence">>, s.local.loss)),
     fallback |-> GetUint(cfg, name, <<"fallback_only">>, 0) # 0]

(* and what becomes of it; fatalx without what the mode needs.             *)
LoadTunnel(s, cfg, name) ==
    LET want == Wants(s, cfg, name)
        needs == IF s.local.server THEN {want.bind} ELSE {want.host, want.port}
        exists == name \in DOMAIN s.tunnels
        new == IF exists THEN UpdateTunnel(s.tunnels[name], want) ELSE NewTunnel(s, want)
        stays == exists /\ SameAddresses(s.tunnels[name], want)
    IN  IF Null \in needs THEN [s EXCEPT !.alive = FALSE]
        ELSE [s EXCEPT !.fallback = @ \/ want.fallback,
                       !.up = IF stays THEN @ ELSE @ \ {name},
                       !.tunnels = [n \in DOMAIN @ \cup {name} |-> IF n = name THEN new ELSE @[n]]]

LoadSection(s, cfg, section, first) ==
    IF ~s.alive THEN s
    ELSE IF section = General THEN LoadGeneral(s, cfg, first)
    ELSE IF IsFilters(section) THEN s
    ELSE LoadTunnel(s, cfg, section)

(* A line whose section is not lastSection, that of the line before it: a  *)
(* section whose lines are not together comes again.                       *)
LoadLine(s, cfg, k, first) ==
    IF k = 1 \/ cfg[k].section # cfg[k - 1].section
    THEN LoadSection(s, cfg, cfg[k].section, first) ELSE s

LoadLines(s, cfg, first) ==
    LET after[k \in 0 .. Len(cfg)] == IF k = 0 THEN s ELSE LoadLine(after[k - 1], cfg, k, first)
    IN  after[Len(cfg)]

-----------------------------------------------------------------------------
InFile(cfg, name) == \E i \in DOMAIN cfg : cfg[i].section = name

(* The tunnels that left the file: mlvpn_rtun_drop sends a DISCONNECT      *)
(* through addrinfo, which ends the daemon when nothing was resolved yet.  *)
DropOld(s, cfg) ==
    LET old == {n \in DOMAIN s.tunnels : ~InFile(cfg, n)}
    IN  IF ~s.alive THEN s
        ELSE IF \E n \in old : s.tunnels[n].addrinfo = Null THEN [s EXCEPT !.alive = FALSE]
        ELSE [s EXCEPT !.up = @ \ old, !.tunnels = [n \in DOMAIN @ \ old |-> @[n]]]

(* A line of the filters; "bad" is one pcap does not compile.              *)
AddFilter(s, e) ==
    IF /\ IsFilters(e.section) /\ e.val # <<"bad">>
       /\ e.var \in DOMAIN s.tunnels /\ Len(s.filters) < MaxFilters
    THEN [s EXCEPT !.filters = Append(@, [expr |-> e.val, tun |-> e.var])]
    ELSE s

AddFilters(s, cfg) ==
    LET after[k \in 0 .. Len(cfg)] == IF k = 0 THEN s ELSE AddFilter(after[k - 1], cfg[k])
    IN  IF s.alive THEN after[Len(cfg)] ELSE s

(* Mutant: the filters are not cleared.                                    *)
ForgetKeepFilters(s) == [s EXCEPT !.fallback = FALSE, !.local = Locals]

(* What mlvpn_config clears before it parses.                              *)
Forget(s) == [s EXCEPT !.fallback = FALSE, !.filters = <<>>, !.local = Locals]

(* mlvpn_config.                                                           *)
Load(s, cfg, first) ==
    LET loaded == LoadLines(Forget(s), cfg, first)
        kept == IF first THEN loaded ELSE DropOld(loaded, cfg)
    IN  AddFilters(kept, cfg)

(* mlvpn_rtun_recalc_weight: bandwidth over total.                         *)
RecalcWeight(s) ==
    LET bw == [n \in DOMAIN s.tunnels |-> s.tunnels[n].bw]
        total == SumFunction(bw)
    IN  IF \E n \in DOMAIN bw : bw[n] = 0 THEN s
        ELSE [s EXCEPT !.tunnels = [n \in DOMAIN @ |-> [@[n] EXCEPT !.weight = <<bw[n], total>>]]]

-----------------------------------------------------------------------------
(* main                                                                    *)
Start(cfg) ==
    /\ file = NoFile /\ d.alive
    /\ d' = RecalcWeight(Load(d, cfg, TRUE))
    /\ file' = cfg
    /\ UNCHANGED clean

(* mlvpn_config_reload,                                                    *)
Reload(cfg) ==
    /\ file # NoFile /\ d.alive
    /\ file' = cfg /\ clean' = TRUE
    /\ d' = RecalcWeight(Load(d, cfg, FALSE))

(* whose file cannot be read: what was cleared is lost.                    *)
ReloadFails ==
    /\ file # NoFile /\ d.alive
    /\ d' = Forget(d)
    /\ clean' = FALSE
    /\ UNCHANGED file

(* mlvpn_rtun_start of a tunnel without a socket: the address resolves (if *)
(* not, nothing changes), the socket can be opened and bound or not.       *)
RtunStart(n) ==
    /\ d.alive /\ ~d.tunnels[n].open
    /\ LET t == d.tunnels[n]
           addr == IF t.server THEN <<t.from, t.bind>> ELSE <<t.host, t.port>>
       IN  \E ok \in BOOLEAN :
              d' = [d EXCEPT !.tunnels[n] = [t EXCEPT !.addrinfo = addr, !.open = ok]]
    /\ UNCHANGED <<file, clean>>

(* mlvpn_rtun_status_up and mlvpn_rtun_status_down, whose causes are the   *)
(* matter of module Peers.                                                 *)
TunnelUp(n) ==
    /\ d.alive /\ d.tunnels[n].open /\ n \notin d.up
    /\ d' = [d EXCEPT !.up = @ \cup {n}]
    /\ UNCHANGED <<file, clean>>

TunnelDown(n) ==
    /\ d.alive /\ n \in d.up
    /\ d' = [d EXCEPT !.up = @ \ {n}]
    /\ UNCHANGED <<file, clean>>

ConfigNext ==
    \/ \E cfg \in Files : Start(cfg) \/ Reload(cfg)
    \/ ReloadFails
    \/ \E n \in DOMAIN d.tunnels : RtunStart(n) \/ TunnelUp(n) \/ TunnelDown(n)

ConfigSpec == ConfigInit /\ [][ConfigNext]_configVars

-----------------------------------------------------------------------------
(* Tolerances are percentages and no timeout is below 2 seconds, whichever *)
(* of the two levels of the file they come from.                           *)
ConfigTypeOK ==
    /\ d.alive \in BOOLEAN /\ d.fallback \in BOOLEAN /\ clean \in BOOLEAN
    /\ {d.reorder, d.ring, d.mtu, d.cleartext} \subseteq Nat
    /\ Len(d.filters) <= MaxFilters
    /\ \A n \in DOMAIN d.tunnels :
          /\ d.tunnels[n].timeout >= 2 /\ d.tunnels[n].loss \in 0 .. 100
          /\ d.tunnels[n].bw \in Nat /\ d.tunnels[n].fallback \in BOOLEAN

(* A filter never refers to a tunnel that was removed.                     *)
FiltersAlive == d.alive => \A i \in DOMAIN d.filters : d.filters[i].tun \in DOMAIN d.tunnels

(* What a load leaves is a matter of the file alone, whichever files were  *)
(* loaded before and whichever loads failed: the tunnels, their bandwidth, *)
(* tolerance and fallback_only, the filters in their order and the         *)
(* fallback are those of a start with the same file.  So are the options,  *)
(* routes and gateways, if the file has a section [general] (without one   *)
(* they stay).                                                             *)
LastingTunnels(s) ==
    [fallback |-> s.fallback, filters |-> s.filters,
     tunnels |-> [n \in DOMAIN s.tunnels |->
                    [loss |-> s.tunnels[n].loss, bw |-> s.tunnels[n].bw,
                     fallback |-> s.tunnels[n].fallback]]]

LastingOptions(s) ==
    [password |-> s.password, cleartext |-> s.cleartext, reorder |-> s.reorder,
     gateway |-> s.gateway, routes |-> s.routes]

HistoryFree ==
    d.alive /\ clean /\ file # NoFile =>
        LET started == Load(NoDaemon, file, TRUE)
        IN  /\ LastingTunnels(d) = LastingTunnels(started)
            /\ InFile(file, General) => LastingOptions(d) = LastingOptions(started)

(* Loading the file again changes no option and nothing of a tunnel but    *)
(* its status, and heals what a failed load has cleared.  Exactly the      *)
(* connected tunnels whose section gives all addresses stay connected.     *)
GivesAddresses(cfg, n) ==
    \A v \in {<<"bindhost">>, <<"bindport">>, <<"remotehost">>, <<"remoteport">>} :
        GetValue(cfg, n, v) # Null

SameFileAgain ==
    [][Reload(file) /\ d'.alive =>
          d' = [d EXCEPT !.filters = d'.filters, !.fallback = d'.fallback, !.local = d'.local,
                         !.up = @ \ {n \in DOMAIN d.tunnels : ~GivesAddresses(file, n)}]]_configVars

=============================================================================
