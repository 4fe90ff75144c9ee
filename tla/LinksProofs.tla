----------------------------- MODULE LinksProofs -----------------------------
(***************************************************************************)
(* Theorems about module Links, for every finite set of tunnel names.      *)
(***************************************************************************)
EXTENDS Links, FiniteSetTheorems, TLAPS

(* A name without a tunnel is disconnected: mlvpn_rtun_drop takes a tunnel *)
(* down before it removes it, and mlvpn_rtun_new creates it so.            *)
AbsentIsDown == \A t \in Names \ rtuns : status[t] = "DISCONNECTED"

(* What the handlers must leave in order, types apart.                     *)
Core ==
    /\ OnlyConnectedChosen
    /\ HealthyLinksUsed
    /\ FallbackLast
    /\ DeviceFollowsLinks
    /\ ScriptsFollowLinks
    /\ AbsentIsDown

IInv == TypeOK /\ Core

-----------------------------------------------------------------------------
(* The count of connected tunnels is 0 exactly when there is none.         *)
LEMMA CountType ==
    ASSUME NEW S \in SUBSET Names
    PROVE  /\ Cardinality(S) \in Nat
           /\ Cardinality(S) > 0 <=> S # {}
<1>1. IsFiniteSet(S)
  BY NamesAssumption, FS_Subset
<1> QED
  BY <1>1, FS_CardinalityType, FS_EmptySet

LEMMA InitIInv == Init => IInv
<1> SUFFICES ASSUME Init PROVE IInv
  OBVIOUS
<1>1. TypeOK
  BY Zenon DEF Init, TypeOK, Status
<1>2. Connected(status) = {}
  BY DEF Init, Connected, Up
<1>3. DeviceFollowsLinks
  BY <1>2, FS_EmptySet DEF Init, DeviceFollowsLinks
<1>4. /\ OnlyConnectedChosen /\ HealthyLinksUsed /\ FallbackLast
      /\ ScriptsFollowLinks /\ AbsentIsDown
  BY DEF Init, OnlyConnectedChosen, HealthyLinksUsed, FallbackLast,
         ScriptsFollowLinks, AbsentIsDown, Up
<1> QED
  BY <1>1, <1>3, <1>4 DEF IInv, Core

-----------------------------------------------------------------------------
(* A reset of the round robin for the statuses st, in the mode that        *)
(* mlvpn_update_status or switch_to_fallback_if_necessary chose for them:  *)
(* the mode is normal if some normal tunnel is healthy.                    *)
LEMMA ResetIsFair ==
    ASSUME TypeOK, NEW st \in [Names -> Status], NEW mode \in BOOLEAN,
           mode => \A t \in rtuns : ~fallbackOnly[t] => st[t] # "AUTHOK"
    PROVE  /\ WrrSet(st, mode) \subseteq rtuns
           /\ \A t \in WrrSet(st, mode) : st[t] \in Up
           /\ \A t \in rtuns : ~fallbackOnly[t] /\ st[t] = "AUTHOK"
                                  => t \in WrrSet(st, mode)
           /\ \A t \in WrrSet(st, mode), u \in rtuns :
                 fallbackOnly[t] /\ ~fallbackOnly[u] => st[u] # "AUTHOK"
BY DEF WrrSet, Up, TypeOK

LEMMA ModeIsFair ==
    ASSUME NEW st, NEW avail \in BOOLEAN
    PROVE  /\ Mode(st, avail) \in BOOLEAN
           /\ Mode(st, avail) =>
                 \A t \in rtuns : ~fallbackOnly[t] => st[t] # "AUTHOK"
BY DEF Mode, Connected, Up

-----------------------------------------------------------------------------
(* mlvpn_rtun_status_up.                                                   *)
LEMMA AuthenticateKeepsIInv ==
    ASSUME IInv, NEW t \in rtuns, Authenticate(t)
    PROVE  IInv'
<1> DEFINE st == [status EXCEPT ![t] = "AUTHOK"]
           m  == Mode(st, fallbackAvail)
<1>1. /\ t \in Names /\ st \in [Names -> Status] /\ st[t] = "AUTHOK"
      /\ \A u \in Names \ {t} : st[u] = status[u]
  BY DEF IInv, TypeOK, Status
<1>2. /\ status' = st /\ rtuns' = rtuns /\ fallbackOnly' = fallbackOnly
      /\ fallbackMode' = m /\ wrr' = WrrSet(st, m) /\ flipped' = {}
      /\ rtunScript' = [rtunScript EXCEPT ![t] = "rtun_up"]
      /\ connected' = Cardinality(Connected(st))
      /\ UNCHANGED <<fallbackAvail, parsing>>
      /\ IF connected' > 0 /\ ~initialized
         THEN tuntapScript' = "tuntap_up" /\ initialized' = TRUE
         ELSE UNCHANGED <<tuntapScript, initialized>>
  BY DEF Authenticate, StatusUp, UpdateStatus
<1>3. m \in BOOLEAN /\ (m => \A u \in rtuns : ~fallbackOnly[u] => st[u] # "AUTHOK")
  BY Zenon, ModeIsFair DEF IInv, TypeOK
<1>4. /\ Connected(st) \in SUBSET Names /\ t \in Connected(st)
      /\ Connected(status)' = Connected(st)
  BY <1>1, <1>2 DEF Connected, Up, IInv, TypeOK
<1>5. connected' \in Nat /\ connected' > 0
  BY Zenon, <1>2, <1>4, CountType
<1>6. TypeOK'
  BY ZenonT(30), <1>1, <1>2, <1>3, <1>5 DEF IInv, TypeOK, WrrSet, parsing
<1>7. OnlyConnectedChosen' /\ HealthyLinksUsed' /\ FallbackLast'
  <2> HIDE DEF st, m
  <2> QED
    BY SMTT(30), <1>1, <1>2, <1>3, ResetIsFair
       DEF IInv, OnlyConnectedChosen, HealthyLinksUsed, FallbackLast
<1>8. DeviceFollowsLinks'
  BY SMTT(30), <1>2, <1>4, <1>5 DEF DeviceFollowsLinks, IInv, Core, TypeOK
<1>9. ScriptsFollowLinks' /\ AbsentIsDown'
  BY SMTT(30), <1>1, <1>2 DEF ScriptsFollowLinks, AbsentIsDown, IInv, Core, TypeOK, Up
<1> QED
  BY SMTT(30), <1>6, <1>7, <1>8, <1>9 DEF IInv, Core

(* mlvpn_rtun_status_down, alone or followed in the same handler by the    *)
(* removal of the tunnel or by a change of its fallback_only flag.         *)
LEMMA DownKeepsCore ==
    ASSUME IInv, NEW t \in rtuns, NEW avail \in BOOLEAN, StatusDown(t, avail),
           rtuns' = rtuns \/ rtuns' = rtuns \ {t},
           \A u \in Names \ {t} : fallbackOnly'[u] = fallbackOnly[u],
           StillFlipped(t) \subseteq flipped'
    PROVE  /\ Core'
           /\ status' \in [Names -> Status]
           /\ fallbackMode' \in BOOLEAN
           /\ connected' \in Nat
           /\ initialized' \in BOOLEAN
           /\ wrr' \in SUBSET Names
           /\ rtunScript' \in [Names -> {"none", "rtun_up", "rtun_down"}]
           /\ tuntapScript' \in {"none", "tuntap_up", "tuntap_down"}
<1> DEFINE st == [status EXCEPT ![t] = "DISCONNECTED"]
           m  == Mode(st, avail)
<1>1. /\ t \in Names /\ st \in [Names -> Status] /\ st[t] = "DISCONNECTED"
      /\ \A u \in Names \ {t} : st[u] = status[u]
  BY DEF IInv, TypeOK, Status
<1>2. /\ status' = st /\ fallbackMode' = m
      /\ connected' = Cardinality(Connected(st))
  BY DEF StatusDown, UpdateStatus
<1>3. m \in BOOLEAN /\ (m => \A u \in rtuns : ~fallbackOnly[u] => st[u] # "AUTHOK")
  BY Zenon, ModeIsFair
<1>4. Connected(st) \in SUBSET Names /\ Connected(status)' = Connected(st)
  BY SMTT(30), <1>1, <1>2 DEF Connected, Up, IInv, TypeOK
<1>5. connected' \in Nat /\ (connected' > 0 <=> Connected(st) # {})
  BY Zenon, <1>2, <1>4, CountType
<1>6. CASE status[t] \in Up
  <2>1. /\ wrr' = WrrSet(st, m)
        /\ rtunScript' = [rtunScript EXCEPT ![t] = "rtun_down"]
        /\ IF connected' = 0 /\ initialized
           THEN tuntapScript' = "tuntap_down" /\ initialized' = FALSE
           ELSE UNCHANGED <<tuntapScript, initialized>>
    BY SMTT(30), <1>6 DEF StatusDown
  <2>2. OnlyConnectedChosen' /\ HealthyLinksUsed' /\ FallbackLast'
    <3>1. /\ wrr' \subseteq rtuns
          /\ \A u \in wrr' : st[u] \in Up
          /\ \A u \in rtuns : ~fallbackOnly[u] /\ st[u] = "AUTHOK" => u \in wrr'
          /\ \A v \in wrr', u \in rtuns :
                fallbackOnly[v] /\ ~fallbackOnly[u] => st[u] # "AUTHOK"
      <4> HIDE DEF st, m
      <4> QED
        BY SMTT(30), <1>1, <1>3, <2>1, ResetIsFair DEF IInv
    <3>2. rtuns \subseteq Names /\ t \notin wrr'
      BY SMTT(30), <1>1, <3>1 DEF IInv, TypeOK, Up
    <3> HIDE DEF st, m
    <3> QED
      BY SMTT(30), <1>1, <1>2, <3>1, <3>2
         DEF OnlyConnectedChosen, HealthyLinksUsed, FallbackLast
  <2>3. DeviceFollowsLinks'
    <3>1. t \in Connected(status) /\ Connected(status) \in SUBSET Names
      BY SMTT(30), <1>6 DEF Connected, IInv, TypeOK
    <3>2. initialized /\ tuntapScript = "tuntap_up"
      BY SMTT(30), <3>1, CountType DEF IInv, Core, DeviceFollowsLinks
    <3>3. CASE connected' = 0
      <4>1. tuntapScript' = "tuntap_down" /\ initialized' = FALSE
        BY SMTT(30), <2>1, <3>2, <3>3
      <4> QED
        BY SMTT(30), <1>2, <1>4, <3>3, <4>1 DEF DeviceFollowsLinks
    <3>4. CASE connected' # 0
      <4>1. tuntapScript' = "tuntap_up" /\ initialized' = TRUE /\ connected' > 0
        BY SMTT(30), <1>5, <2>1, <3>2, <3>4 DEF IInv, TypeOK
      <4> QED
        BY SMTT(30), <1>2, <1>4, <4>1 DEF DeviceFollowsLinks
    <3> QED
      BY SMTT(30), <3>3, <3>4
  <2>4. ScriptsFollowLinks' /\ AbsentIsDown'
    BY SMTT(30), <1>1, <1>2, <2>1
        DEF ScriptsFollowLinks, AbsentIsDown, IInv, Core, TypeOK, Up
  <2> QED
    BY ZenonT(30), <1>1, <1>2, <1>3, <1>5, <2>1, <2>2, <2>3, <2>4
       DEF Core, IInv, TypeOK, WrrSet
<1>7. CASE status[t] \notin Up
  <2>1. UNCHANGED <<scripts, wrr, initialized>> /\ flipped \subseteq flipped'
    BY SMTT(30), <1>7 DEF StatusDown, StillFlipped
  <2>2. t \notin wrr
    BY SMTT(30), <1>7 DEF IInv, Core, OnlyConnectedChosen
  <2>3. OnlyConnectedChosen' /\ HealthyLinksUsed' /\ FallbackLast'
    BY SMTT(30), <1>1, <1>2, <2>1, <2>2
       DEF IInv, Core, TypeOK, OnlyConnectedChosen, HealthyLinksUsed, FallbackLast
  <2>4. Connected(st) = Connected(status)
    BY SMTT(30), <1>1, <1>7 DEF Connected, Up, IInv, TypeOK
  <2>5. DeviceFollowsLinks'
    BY SMTT(30), <1>2, <1>4, <2>1, <2>4 DEF DeviceFollowsLinks, IInv, Core, scripts
  <2>6. ScriptsFollowLinks' /\ AbsentIsDown'
    BY SMTT(30), <1>1, <1>2, <1>7, <2>1
       DEF ScriptsFollowLinks, AbsentIsDown, IInv, Core, TypeOK, Up, scripts
  <2> QED
    BY SMTT(30), <1>1, <1>2, <1>3, <1>5, <2>1, <2>3, <2>5, <2>6
        DEF Core, IInv, TypeOK, scripts
<1> QED
  BY SMTT(30), <1>6, <1>7

-----------------------------------------------------------------------------
(* mlvpn_rtun_check_lossy and mlvpn_rtun_check_slow move a connected       *)
(* tunnel among the connected states.                                      *)
LEMMA MeasureType ==
    ASSUME NEW s \in Up, NEW bad \in BOOLEAN, NEW mark \in {"LOSSY", "HIGH_LATENCY"}
    PROVE  Measure(s, bad, mark) \in Up
BY SMTT(30) DEF Measure, Up

(* What the round robin holds is right for the statuses st: the part of    *)
(* the invariant that switch_to_fallback_if_necessary must restore.        *)
Fair(st, sel) ==
    /\ sel.mode \in BOOLEAN /\ sel.wrr \in SUBSET rtuns /\ sel.flipped \in SUBSET Names
    /\ \A t \in sel.wrr : st[t] \in Up
    /\ \A t \in rtuns \ sel.flipped :
          ~fallbackOnly[t] /\ st[t] = "AUTHOK" => t \in sel.wrr
    /\ \A t \in sel.wrr \ sel.flipped, u \in rtuns \ sel.flipped :
          fallbackOnly[t] /\ ~fallbackOnly[u] => st[u] # "AUTHOK"

(* A change of t among the connected states, followed by                   *)
(* switch_to_fallback_if_necessary, is fair again.  When the latter does   *)
(* nothing, no normal tunnel is healthy.                                   *)
LEMMA SwitchIsFair ==
    ASSUME TypeOK, NEW st \in [Names -> Status], NEW t \in rtuns, NEW s \in Up,
           st[t] \in Up, NEW sel, Fair(st, sel)
    PROVE  Fair([st EXCEPT ![t] = s], Switch([st EXCEPT ![t] = s], sel))
<1> DEFINE new == [st EXCEPT ![t] = s]
<1>1. /\ new \in [Names -> Status] /\ new[t] = s /\ rtuns \subseteq Names
      /\ \A u \in Names \ {t} : new[u] = st[u]
  BY DEF TypeOK, Up, Status
<1> HIDE DEF new
<1>2. CASE Usable(new) \/ fallbackAvail
  <2> DEFINE m == ~Usable(new)
  <2>1. Switch(new, sel) = [mode |-> m, wrr |-> WrrSet(new, m), flipped |-> {}]
    BY <1>2 DEF Switch
  <2>2. m \in BOOLEAN
    BY DEF Usable
  <2>3. m => \A u \in rtuns : ~fallbackOnly[u] => new[u] # "AUTHOK"
    BY SMTT(30) DEF Usable
  <2> HIDE DEF m
  <2>4. /\ WrrSet(new, m) \subseteq rtuns
        /\ \A u \in WrrSet(new, m) : new[u] \in Up
        /\ \A u \in rtuns : ~fallbackOnly[u] /\ new[u] = "AUTHOK" => u \in WrrSet(new, m)
        /\ \A v \in WrrSet(new, m), u \in rtuns :
              fallbackOnly[v] /\ ~fallbackOnly[u] => new[u] # "AUTHOK"
    BY SMTT(30), <1>1, <2>2, <2>3, ResetIsFair
  <2>5. Fair(new, Switch(new, sel))
    BY SMTT(30), <2>1, <2>2, <2>4 DEF Fair
  <2> QED
    BY SMTT(30), <2>5 DEF new
<1>3. CASE ~Usable(new) /\ ~fallbackAvail
  <2>1. Switch(new, sel) = sel
    BY SMTT(30), <1>3 DEF Switch
  <2>2. \A u \in rtuns : ~fallbackOnly[u] => new[u] # "AUTHOK"
    BY SMTT(30), <1>3 DEF Usable
  <2>3. Fair(new, sel)
    BY SMTT(30), <1>1, <2>2 DEF Fair
  <2> QED
    BY SMTT(30), <2>1, <2>3 DEF new
<1> QED
  BY SMTT(30), <1>2, <1>3

LEMMA CheckHealthKeepsIInv ==
    ASSUME IInv, NEW t \in rtuns, NEW loss \in BOOLEAN, NEW slow \in BOOLEAN,
           CheckHealth(t, loss, slow)
    PROVE  IInv'
<1> DEFINE s1 == Measure(status[t], loss, "LOSSY")
           s2 == Measure(s1, slow, "HIGH_LATENCY")
           now == [mode |-> fallbackMode, wrr |-> wrr, flipped |-> flipped]
           st1 == [status EXCEPT ![t] = s1]
           st2 == [status EXCEPT ![t] = s2]
           sel1 == IF s1 # status[t] THEN Switch(st1, now) ELSE now
           sel2 == IF s2 # s1 THEN Switch(st2, sel1) ELSE sel1
<1>1. /\ status[t] \in Up /\ status' = st2 /\ fallbackMode' = sel2.mode
      /\ wrr' = sel2.wrr /\ flipped' = sel2.flipped
      /\ UNCHANGED <<rtuns, fallbackOnly, fallbackAvail, connected, initialized,
                     parsing, scripts>>
  BY SMTT(30) DEF CheckHealth
<1>2. s1 \in Up /\ s2 \in Up
  <2>1. s1 \in Up
    BY SMTT(30), <1>1, MeasureType
  <2> HIDE DEF s1
  <2> QED
    BY SMTT(30), <2>1, MeasureType
<1>3. /\ t \in Names /\ status \in [Names -> Status] /\ rtuns \subseteq Names
      /\ Up \subseteq Status
  BY SMTT(30) DEF IInv, TypeOK, Up, Status
<1>4. Fair(status, now)
  BY DEF Fair, IInv, Core, TypeOK, OnlyConnectedChosen, HealthyLinksUsed, FallbackLast
<1> HIDE DEF s1, s2, now
<1>5. /\ st1 \in [Names -> Status] /\ st1[t] = s1
      /\ st2 = [st1 EXCEPT ![t] = s2]
      /\ s1 = status[t] => st1 = status
      /\ s2 = s1 => st2 = st1
  BY Zenon, <1>2, <1>3
<1>6. Fair(st1, sel1)
  <2>1. CASE s1 # status[t]
    BY Zenon, <1>1, <1>2, <1>3, <1>4, <2>1, SwitchIsFair DEF IInv
  <2>2. CASE s1 = status[t]
    BY Zenon, <1>4, <1>5, <2>2
  <2> QED
    BY SMTT(30), <2>1, <2>2
<1> HIDE DEF st1, sel1
<1>7. Fair(st2, sel2)
  <2>1. CASE s2 # s1
    <3>1. st1[t] \in Up
      BY <1>2, <1>5
    <3>2. Fair([st1 EXCEPT ![t] = s2], Switch([st1 EXCEPT ![t] = s2], sel1))
      BY Zenon, <1>2, <1>5, <1>6, <3>1, SwitchIsFair DEF IInv
    <3>3. sel2 = Switch(st2, sel1)
      BY <2>1
    <3> QED
      BY SMTT(30), <1>5, <3>2, <3>3
  <2>2. CASE s2 = s1
    BY ZenonT(30), <1>5, <1>6, <2>2
  <2> QED
    BY SMTT(30), <2>1, <2>2
<1>8. /\ st2 \in [Names -> Status] /\ st2[t] \in Up
      /\ \A u \in Names \ {t} : st2[u] = status[u]
  BY SMTT(30), <1>2, <1>3
<1> HIDE DEF st2, sel2
<1>9. TypeOK'
  BY SMTT(30), <1>1, <1>7, <1>8 DEF Fair, IInv, TypeOK, parsing, scripts
<1>10. OnlyConnectedChosen' /\ HealthyLinksUsed' /\ FallbackLast'
  BY SMTT(30), <1>1, <1>7 DEF Fair, OnlyConnectedChosen, HealthyLinksUsed, FallbackLast
<1>11. Connected(status)' = Connected(status)
  BY SMTT(30), <1>1, <1>3, <1>8 DEF Connected
<1>12. DeviceFollowsLinks'
  BY SMTT(30), <1>1, <1>11 DEF DeviceFollowsLinks, IInv, Core, scripts
<1>13. ScriptsFollowLinks' /\ AbsentIsDown'
  BY SMTT(30), <1>1, <1>3, <1>8
      DEF ScriptsFollowLinks, AbsentIsDown, IInv, Core, scripts
<1> QED
  BY SMTT(30), <1>9, <1>10, <1>12, <1>13 DEF IInv, Core

-----------------------------------------------------------------------------
(* A tunnel that fails, or whose peer is gone.                             *)
LEMMA GoneKeepsIInv ==
    ASSUME IInv, NEW t \in rtuns, SocketError(t) \/ PeerGone(t)
    PROVE  IInv'
<1>1. /\ StatusDown(t, fallbackAvail) /\ flipped' = StillFlipped(t)
      /\ UNCHANGED <<rtuns, fallbackOnly, fallbackAvail, parsing>>
  BY SMTT(30) DEF SocketError, PeerGone
<1>2. fallbackAvail \in BOOLEAN
  BY SMTT(30) DEF IInv, TypeOK
<1>3. flipped' \in SUBSET Names
  BY SMTT(30), <1>1 DEF StillFlipped, IInv, TypeOK
<1> QED
  BY SMTT(30), <1>1, <1>2, <1>3, DownKeepsCore DEF IInv, TypeOK, parsing

(* A client that sends a challenge is not connected before or after.       *)
LEMMA TickKeepsIInv ==
    ASSUME IInv, NEW t \in rtuns, TickConnect(t)
    PROVE  IInv'
<1>1. /\ t \in Names /\ status \in [Names -> Status] /\ rtuns \subseteq Names
      /\ status[t] \notin Up /\ status' = [status EXCEPT ![t] = "AUTHSENT"]
      /\ UNCHANGED <<rtuns, fallbackOnly, fallbackAvail, view, parsing, scripts, flipped>>
  BY SMTT(30) DEF TickConnect, IInv, TypeOK
<1>2. /\ status' \in [Names -> Status] /\ status'[t] = "AUTHSENT"
      /\ \A u \in Names \ {t} : status'[u] = status[u]
  BY SMTT(30), <1>1 DEF Status
<1>3. TypeOK'
  BY SMTT(30), <1>1, <1>2 DEF IInv, TypeOK, view, parsing, scripts
<1>4. OnlyConnectedChosen' /\ HealthyLinksUsed' /\ FallbackLast'
  BY SMTT(30), <1>1, <1>2
     DEF IInv, Core, OnlyConnectedChosen, HealthyLinksUsed, FallbackLast, view
<1>5. Connected(status)' = Connected(status)
  BY SMTT(30), <1>1, <1>2 DEF Connected, Up
<1>6. DeviceFollowsLinks'
  BY SMTT(30), <1>1, <1>5 DEF IInv, Core, DeviceFollowsLinks, view, scripts
<1>7. ScriptsFollowLinks' /\ AbsentIsDown'
  BY SMTT(30), <1>1, <1>2 DEF IInv, Core, ScriptsFollowLinks, AbsentIsDown, Up, scripts
<1> QED
  BY <1>3, <1>4, <1>6, <1>7 DEF IInv, Core

(* Steps of a reload that touch no tunnel.                                 *)
LEMMA ParsingKeepsIInv ==
    ASSUME IInv, TypeOK',
           UNCHANGED <<rtuns, status, fallbackOnly, view, scripts, flipped>>
    PROVE  IInv'
<1>1. Connected(status)' = Connected(status)
  BY DEF Connected
<1> QED
  BY <1>1 DEF IInv, Core, OnlyConnectedChosen, HealthyLinksUsed, FallbackLast,
              DeviceFollowsLinks, ScriptsFollowLinks, AbsentIsDown, view, scripts

(* A section that leaves its tunnel where it is, or moves it.              *)
LEMMA SectionKeepsIInv ==
    ASSUME IInv, NEW t \in Names, NEW fb \in BOOLEAN, NEW moved \in BOOLEAN,
           ReloadSection(t, fb, moved)
    PROVE  IInv'
<1>1. /\ t \in rtuns /\ fallbackAvail' \in BOOLEAN
      /\ fallbackOnly' = [fallbackOnly EXCEPT ![t] = fb]
      /\ flipped' = (IF moved THEN StillFlipped(t) ELSE flipped)
                       \cup {u \in {t} : fb # fallbackOnly[u]}
      /\ todo' = todo \ {t}
      /\ UNCHANGED <<rtuns, reload, conf>>
  BY SMTT(30) DEF ReloadSection, IInv, TypeOK
<1>2. /\ fallbackOnly' \in [Names -> BOOLEAN] /\ fallbackOnly'[t] = fb
      /\ \A u \in Names \ {t} : fallbackOnly'[u] = fallbackOnly[u]
      /\ flipped' \in SUBSET Names
  BY SMTT(30), <1>1 DEF IInv, TypeOK, StillFlipped
<1>3. CASE moved
  <2>1. StatusDown(t, fallbackAvail') /\ StillFlipped(t) \subseteq flipped'
    BY SMTT(30), <1>1, <1>3 DEF ReloadSection
  <2> QED
    BY SMTT(30), <1>1, <1>2, <2>1, DownKeepsCore DEF IInv, TypeOK
<1>4. CASE ~moved
  <2>1. /\ UNCHANGED <<status, view, scripts>> /\ flipped \subseteq flipped'
        /\ t \in flipped' \/ fallbackOnly' = fallbackOnly
    BY SMTT(30), <1>1, <1>4 DEF ReloadSection, IInv, TypeOK
  <2>2. TypeOK'
    BY SMTT(30), <1>1, <1>2, <2>1 DEF IInv, TypeOK, view, scripts
  <2>3. OnlyConnectedChosen' /\ HealthyLinksUsed' /\ FallbackLast'
    BY SMTT(30), <1>1, <1>2, <2>1
       DEF IInv, Core, TypeOK, OnlyConnectedChosen, HealthyLinksUsed, FallbackLast, view
  <2>4. Connected(status)' = Connected(status)
    BY SMTT(30), <1>1, <2>1 DEF Connected
  <2>5. DeviceFollowsLinks' /\ ScriptsFollowLinks' /\ AbsentIsDown'
    BY SMTT(30), <1>1, <2>1, <2>4
       DEF IInv, Core, DeviceFollowsLinks, ScriptsFollowLinks, AbsentIsDown, view, scripts
  <2> QED
    BY SMTT(30), <2>2, <2>3, <2>5 DEF IInv, Core
<1> QED
  BY SMTT(30), <1>3, <1>4

(* A new tunnel is disconnected.                                           *)
LEMMA NewKeepsIInv ==
    ASSUME IInv, NEW t \in Names, NEW fb \in BOOLEAN, ReloadNew(t, fb)
    PROVE  IInv'
<1>1. /\ t \notin rtuns /\ rtuns' = rtuns \cup {t} /\ fallbackAvail' \in BOOLEAN
      /\ fallbackOnly' = [fallbackOnly EXCEPT ![t] = fb]
      /\ todo' = todo \ {t}
      /\ UNCHANGED <<status, view, reload, conf, scripts, flipped>>
  BY SMTT(30) DEF ReloadNew, IInv, TypeOK
<1>2. /\ status[t] = "DISCONNECTED" /\ t \notin wrr /\ rtuns \subseteq Names
      /\ \A u \in Names \ {t} : fallbackOnly'[u] = fallbackOnly[u]
  BY SMTT(30), <1>1 DEF IInv, Core, TypeOK, AbsentIsDown, OnlyConnectedChosen
<1>3. TypeOK'
  BY SMTT(30), <1>1 DEF IInv, TypeOK, view, scripts
<1>4. OnlyConnectedChosen' /\ HealthyLinksUsed' /\ FallbackLast'
  BY SMTT(30), <1>1, <1>2
     DEF IInv, Core, OnlyConnectedChosen, HealthyLinksUsed, FallbackLast, view
<1>5. Connected(status)' = Connected(status)
  BY SMTT(30), <1>1, <1>2 DEF Connected, Up
<1>6. DeviceFollowsLinks'
  BY SMTT(30), <1>1, <1>5 DEF IInv, Core, DeviceFollowsLinks, view, scripts
<1>7. ScriptsFollowLinks' /\ AbsentIsDown'
  BY SMTT(30), <1>1, <1>2 DEF IInv, Core, ScriptsFollowLinks, AbsentIsDown, Up, scripts
<1> QED
  BY SMTT(30), <1>3, <1>4, <1>6, <1>7 DEF IInv, Core

(* A tunnel that is removed has been taken down.                           *)
LEMMA DropKeepsIInv ==
    ASSUME IInv, NEW t \in Names, ReloadDrop(t)
    PROVE  IInv'
<1>1. /\ t \in rtuns /\ StatusDown(t, fallbackAvail) /\ flipped' = StillFlipped(t)
      /\ rtuns' = rtuns \ {t}
      /\ UNCHANGED <<fallbackOnly, fallbackAvail, parsing>>
  BY DEF ReloadDrop
<1>2. fallbackAvail \in BOOLEAN
  BY SMTT(30) DEF IInv, TypeOK
<1>3. flipped' \in SUBSET Names /\ rtuns' \in SUBSET Names
  BY SMTT(30), <1>1 DEF StillFlipped, IInv, TypeOK
<1> QED
  BY SMTT(30), <1>1, <1>2, <1>3, DownKeepsCore DEF IInv, TypeOK, parsing

LEMMA NextKeepsIInv ==
    ASSUME IInv, [Next]_vars
    PROVE  IInv'
<1>1. CASE UNCHANGED vars
  <2>1. TypeOK'
    BY SMTT(30), <1>1 DEF IInv, TypeOK, vars, view, parsing, scripts
  <2> QED
    BY SMTT(30), <1>1, <2>1, ParsingKeepsIInv DEF vars
<1>2. CASE \E t \in rtuns : Handler(t)
  BY SMTT(30), <1>2, AuthenticateKeepsIInv, GoneKeepsIInv, TickKeepsIInv, CheckHealthKeepsIInv
     DEF Handler
<1>3. CASE \E names \in SUBSET Names : ReloadBegin(names)
  <2>1. TypeOK'
    BY Zenon, <1>3 DEF ReloadBegin, IInv, TypeOK, view, scripts
  <2> QED
    BY SMTT(30), <1>3, <2>1, ParsingKeepsIInv DEF ReloadBegin
<1>4. CASE ReloadFails
  <2>1. TypeOK'
    BY ZenonT(30), <1>4 DEF ReloadFails, IInv, TypeOK, view, parsing, scripts
  <2> QED
    BY <1>4, <2>1, ParsingKeepsIInv DEF ReloadFails
<1>5. CASE ReloadEnd
  <2>1. TypeOK'
    BY SMTT(30), <1>5 DEF ReloadEnd, IInv, TypeOK, view, scripts
  <2> QED
    BY SMTT(30), <1>5, <2>1, ParsingKeepsIInv DEF ReloadEnd
<1>6. CASE \E t \in Names, fb, moved \in BOOLEAN : ReloadSection(t, fb, moved)
  BY SMTT(30), <1>6, SectionKeepsIInv
<1>7. CASE \E t \in Names, fb \in BOOLEAN : ReloadNew(t, fb)
  BY SMTT(30), <1>7, NewKeepsIInv
<1>8. CASE \E t \in Names : ReloadDrop(t)
  BY <1>8, DropKeepsIInv
<1> QED
  BY SMTT(30), <1>1, <1>2, <1>3, <1>4, <1>5, <1>6, <1>7, <1>8 DEF Next, Reload

LEMMA IInvHolds == Spec => []IInv
BY InitIInv, NextKeepsIInv, PTL DEF Spec

-----------------------------------------------------------------------------
(* The variables of the tunnels keep their types.                          *)
THEOREM TypeCorrect == Spec => []TypeOK
<1>1. IInv => TypeOK
  BY DEF IInv
<1> QED
  BY <1>1, IInvHolds, PTL

(* mlvpn_rtun_choose never returns a tunnel that is down or removed.       *)
THEOREM ChosenIsConnected == Spec => []OnlyConnectedChosen
<1>1. IInv => OnlyConnectedChosen
  BY DEF IInv, Core
<1> QED
  BY <1>1, IInvHolds, PTL

(* Healthy normal tunnels are used, at every point of a reload too.        *)
THEOREM HealthyFirst == Spec => []HealthyLinksUsed
<1>1. IInv => HealthyLinksUsed
  BY SMTT(30) DEF IInv, Core
<1> QED
  BY <1>1, IInvHolds, PTL

(* A fallback tunnel is not used while a normal one is healthy.            *)
THEOREM FallbackIsLast == Spec => []FallbackLast
<1>1. IInv => FallbackLast
  BY SMTT(30) DEF IInv, Core
<1> QED
  BY <1>1, IInvHolds, PTL

(* The counter, the flag and the tuntap scripts agree with the tunnels.    *)
THEOREM DeviceTellsTruth == Spec => []DeviceFollowsLinks
<1>1. IInv => DeviceFollowsLinks
  BY DEF IInv, Core
<1> QED
  BY <1>1, IInvHolds, PTL

(* The status scripts tell the truth about each tunnel.                    *)
THEOREM ScriptsTellTruth == Spec => []ScriptsFollowLinks
<1>1. IInv => ScriptsFollowLinks
  BY DEF IInv, Core
<1> QED
  BY <1>1, IInvHolds, PTL

=============================================================================
