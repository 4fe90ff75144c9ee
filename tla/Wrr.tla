--------------------------------- MODULE Wrr ---------------------------------
(***************************************************************************)
(* The weighted round robin (wrr.c) that chooses the tunnel of a packet.   *)
(* Which tunnels are in it, and when, is the matter of Links.              *)
(***************************************************************************)
EXTENDS Integers, FiniteSets, FiniteSetsExt

CONSTANTS
    Periods,     \* values of 100 / weight for tunnels 1 .. n, in Units
    Unit,        \* one in that scale
    MaxChosen    \* bound: choices of a tunnel since the last reset

ASSUME UnitAssumption == Unit \in Nat \ {0}

ASSUME MaxChosenAssumption == MaxChosen \in Nat

ASSUME PeriodsAssumption == \A p \in Periods : \A t \in DOMAIN p : p[t] \in Nat

VARIABLES
    period,   \* 100 / weight of each tunnel
    ready,    \* wrr.tunnel: tunnels chosen from
    tunval,   \* wrr.tunval
    chosen    \* history: times each was chosen since the last reset

wrrVars == <<period, ready, tunval, chosen>>

Tuns == DOMAIN period

WrrInit ==
    /\ period \in Periods
    /\ ready = {} /\ tunval = [t \in Tuns |-> 0]
    /\ chosen = [t \in Tuns |-> 0]

(* mlvpn_rtun_wrr_reset.                                                   *)
WrrReset(tuns) ==
    /\ ready' = tuns
    /\ tunval' = [t \in Tuns |-> 0]
    /\ chosen' = [t \in Tuns |-> 0]
    /\ UNCHANGED period

(* wrr_min_index: the first of the least below 100, or the first of all.   *)
MinIndex ==
    LET low == {t \in ready : tunval[t] < 100 * Unit}
        least == {t \in low : \A u \in low : tunval[t] <= tunval[u]}
    IN  Min(IF low = {} THEN ready ELSE least)

(* What a choice takes from the others.                                    *)
CountDown(t) == IF tunval[t] > 0 THEN tunval[t] - Unit ELSE tunval[t]

(* Mutant: the tunnel chosen waits as if all had the same weight.          *)
ChooseUnweighted(idx) ==
    tunval' = [t \in Tuns |-> IF t = idx THEN Unit
                              ELSE IF t \in ready THEN CountDown(t) ELSE tunval[t]]

Choose(idx) ==
    tunval' = [t \in Tuns |-> IF t = idx THEN period[idx]
                              ELSE IF t \in ready THEN CountDown(t) ELSE tunval[t]]

(* mlvpn_rtun_wrr_choose, for a packet from tuntap.                        *)
WrrChoose ==
    /\ ready # {}
    /\ LET idx == MinIndex
       IN  /\ chosen[idx] < MaxChosen
           /\ Choose(idx)
           /\ chosen' = [chosen EXCEPT ![idx] = @ + 1]
    /\ UNCHANGED <<period, ready>>

WrrNext == WrrChoose \/ \E tuns \in SUBSET Tuns : WrrReset(tuns)

-----------------------------------------------------------------------------
(* tunval falls by one below 0 at most, and is at most what the weight     *)
(* gives.                                                                  *)
WrrTypeOK ==
    /\ period \in Periods /\ ready \subseteq Tuns
    /\ \A t \in Tuns : tunval[t] \in -Unit + 1 .. period[t]
    /\ chosen \in [Tuns -> 0 .. MaxChosen]

(* The packets a tunnel of this period is to carry one of, a whole number. *)
Ceil(p) == (p + Unit - 1) \div Unit

(* No tunnel is starved by the others: since the last reset a tunnel has   *)
(* been given one of every Ceil(period) packets at least, plus one packet  *)
(* for each tunnel beyond the second.                                      *)
NoneStarved ==
    \A t \in ready :
        ready # {t} =>
            LET turn == Ceil(period[t]) + Cardinality(ready) - 2
            IN  MapThenSumSet(LAMBDA u : chosen[u], ready) <= (chosen[t] + 1) * turn

(* While all the tunnels are in the round robin they are chosen in         *)
(* proportion to their weights: at any moment since the last reset, of two *)
(* tunnels neither is more than one turn ahead of its share.               *)
Balanced ==
    ready = Tuns =>
        \A t, u \in ready :
            chosen[t] * period[t] - chosen[u] * period[u] <= period[t] + period[u]

=============================================================================
