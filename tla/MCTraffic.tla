------------------------------ MODULE MCTraffic ------------------------------
(* A packet of tuntap on its way: the choice of its tunnel (Wrr), its      *)
(* header on the wire (Wire), and the buffer for the device of the other   *)
(* side (Tuntap).  They share no state, so that it is enough to explore    *)
(* each with the others at rest.                                           *)
(*                                                                         *)
(* A period is given in parts of 1/252.  The weights: 60, 40; 30, 70; 90,  *)
(* 10; 50, 30, 20; 10, 20, 70; 40, 30, 20, 10; and 1, 1, when no bandwidth *)
(* is known.                                                               *)
EXTENDS Wrr, Wire, Tuntap

TestPeriods ==
    {<<420, 630>>, <<840, 360>>, <<280, 2520>>, <<504, 840, 1260>>,
     <<2520, 1260, 360>>, <<630, 840, 1260, 2520>>, <<25200, 25200>>}

SixtyForty == {<<420, 630>>}

trafficVars == <<wrrVars, wireVars, tuntapVars>>

TrafficInit == WrrInit /\ WireInit /\ TuntapInit

WireUnused == seq = 0 /\ arrived = {}

TrafficNext ==
    /\ trip = NoTrip
    /\ \/ /\ WireUnused /\ sbuf = NewBuf
          /\ WrrNext /\ UNCHANGED <<wireVars, tuntapVars>>
       \/ /\ ready = {} /\ sbuf = NewBuf
          /\ WireNext /\ UNCHANGED <<wrrVars, tuntapVars>>
       \/ /\ ready = {} /\ WireUnused
          /\ TuntapNext /\ UNCHANGED <<wrrVars, wireVars>>

TrafficSpec == TrafficInit /\ [][TrafficNext]_trafficVars

(* The values of the round robin, of the receiver and of the buffer stay   *)
(* in their ranges.                                                        *)
TrafficTypeOK == WrrTypeOK /\ WireTypeOK /\ TuntapTypeOK

=============================================================================
