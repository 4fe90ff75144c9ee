----------------------------- MODULE MCPeersLive -----------------------------
(***************************************************************************)
(* Peers with a bounded number of faults.                                  *)
(* Apart from the faults the network is prompt (control messages are       *)
(* written and arrive before the next second is counted), and the two      *)
(* clocks run at one speed (turn): the conditions under which a timeout of *)
(* a few seconds means that the peer is gone.                              *)
(***************************************************************************)
EXTENDS Peers

CONSTANT MaxFaults   \* bound: faults in a behaviour

VARIABLES faults, turn

liveVars == <<vars, faults, turn>>

LiveInit == Init /\ faults = 0 /\ turn = "client"

(* What the event loops have to do before a second passes is done.         *)
Settled ==
    \A p \in alive :
        /\ tun[p].open => net[p] = {}
        /\ tun[p].watch => tun[p].hps = <<>>

Faulty(A) == A /\ faults < MaxFaults /\ faults' = faults + 1 /\ UNCHANGED turn
Well(A) == A /\ UNCHANGED <<faults, turn>>

Second(p) ==
    /\ Settled
    /\ turn = p \/ Other(p) \notin alive
    /\ \E keepalive \in BOOLEAN : CheckTimeout(p, keepalive, TRUE)
    /\ turn' = Other(p)
    /\ UNCHANGED faults

WriteWell(p) == Well(Write(p, "sent", "sent"))

ReadWell(p, m) == Well(\E answer \in BOOLEAN : Read(p, m, answer, FALSE))

(* The buffers do not overflow, unless as a fault: hpsbuf keeps room for   *)
(* control messages.                                                       *)
Traffic(p) ==
    \/ tun[p].hps = <<>> /\ Well(TuntapRead(p, "hps"))
    \/ Len(tun[p].sbuf) < SbufSize /\ Well(TuntapRead(p, "sbuf"))

Trouble(p) ==
    \/ Faulty(Crash(p))
    \/ Faulty(Quit(p))
    \/ Faulty(SocketError(p))
    \/ Faulty(ReloadMoved(p))
    \/ Faulty(\E m \in Control : Lose(p, m))
    \/ Faulty(\E m \in Control, answer \in BOOLEAN : Read(p, m, answer, TRUE))
    \/ Faulty(\E r1, r2 \in Result : <<r1, r2>> # <<"sent", "sent">> /\ Write(p, r1, r2))
    \/ Faulty(\E keepalive \in BOOLEAN : CheckTimeout(p, keepalive, FALSE))
    \/ Faulty(tun[p].hps # <<>> /\ TuntapRead(p, "hps"))
    \/ Faulty(Len(tun[p].sbuf) = SbufSize /\ TuntapRead(p, "sbuf"))

LiveNext ==
    \E p \in Process :
        \/ Second(p) \/ WriteWell(p) \/ Traffic(p) \/ Trouble(p)
        \/ \E m \in Control : ReadWell(p, m)
        \/ Well(Restart(p))

(* Timers expire, a socket that can be written is written, and what has    *)
(* arrived is read: the event loop starves none of its watchers.           *)
LiveSpec ==
    /\ LiveInit /\ [][LiveNext]_liveVars
    /\ \A p \in Process :
          /\ SF_liveVars(Second(p))
          /\ WF_liveVars(WriteWell(p))
          /\ \A m \in Control : WF_liveVars(ReadWell(p, m))

=============================================================================
