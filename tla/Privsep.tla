------------------------------- MODULE Privsep -------------------------------
(***************************************************************************)
(* Privilege separation (privsep.c, privsep_fdpass.c): a parent that keeps *)
(* its privileges and serves requests, the child that runs the VPN and     *)
(* asks for what it may not do itself, the two directions of the socket    *)
(* pair between them, the status script the parent starts, and the signals *)
(* that reach either process.                                              *)
(*                                                                         *)
(* A request is two items on the stream, its command and its arguments (if *)
(* it has any); an answer is one item per must_write or send_fd, each with *)
(* its kind, so that a reader out of step is seen.  A step of a process    *)
(* is what it does between two points where a signal or the death of the   *)
(* other one makes a difference.                                           *)
(***************************************************************************)
EXTENDS Integers, Sequences

CONSTANT MaxAddrs   \* bound: addresses in an answer of getaddrinfo

ASSUME MaxAddrsAssumption == MaxAddrs \in Nat

VARIABLES
    ppc,       \* where the parent is
    curState,  \* cur_state
    pcmd,      \* the command the parent serves
    pout,      \* items of the answer still to be written
    blocked,   \* SIGCHLD is in the signal mask of the parent
    oldmask,   \* root_launch_script: it was there on entry
    chld,      \* SIGCHLD is pending for the parent
    zombies,   \* dead processes the parent has not waited for
    confFile,  \* allowed_configfile
    script,    \* script_path
    runs,      \* the status script is running
    why,       \* history: why the parent ended
    cpc,       \* where the child is
    stub,      \* the request the child makes (priv_*), or "none"
    want,      \* what this call has still to send or to read
    csig,      \* signals pending for the child
    toParent, toChild   \* the socket pair

parent == <<ppc, curState, pcmd, pout, blocked, oldmask, confFile, script, why>>
signals == <<chld, zombies, csig>>
child == <<cpc, stub, want>>
vars == <<parent, signals, runs, child, toParent, toChild>>

-----------------------------------------------------------------------------
INIT == 0
CONFIG == 1
RUNNING == 2
QUIT == 3

Command == {"OPEN_CONFIG", "INIT_SCRIPT", "OPEN_TUN", "RUN_SCRIPT",
            "RELOAD_RESOLVER", "GETADDRINFO", "SET_RUNNING_STATE"}

HasArgs == Command \ {"RELOAD_RESOLVER", "SET_RUNNING_STATE"}

Path == {"", "mlvpn.conf"}   \* of the configuration file

IFNAMSIZ == 16   \* MLVPN_IFNAMSIZ

(* An item of an answer: a length, a count, a descriptor or -1, a status.  *)
Item(kind, val) == [kind |-> kind, val |-> val]

ParentAlive == ppc # "dead"
ChildAlive == cpc # "dead"

(* The state after fork in priv_init.                                      *)
Init ==
    /\ ppc = "setup" /\ curState = INIT /\ pcmd = "OPEN_CONFIG" /\ pout = <<>>
    /\ blocked = FALSE /\ oldmask = FALSE /\ chld = FALSE /\ zombies = {}
    /\ confFile = "" /\ script = FALSE /\ runs = FALSE /\ why = ""
    /\ cpc = "open" /\ stub = "none" /\ want = <<>> /\ csig = {}
    /\ toParent = <<>> /\ toChild = <<>>

-----------------------------------------------------------------------------
(* The child.                                                              *)

(* Its end: the parent is told by SIGCHLD, which is lost while the handler *)
(* is not installed; a zombie is left if there is a parent.                *)
ChildDies ==
    /\ cpc' = "dead" /\ stub' = "none" /\ want' = <<>> /\ csig' = {}
    /\ toChild' = <<>>
    /\ chld' = (chld \/ ppc \notin {"setup", "dead"})
    /\ zombies' = IF ParentAlive THEN zombies \cup {"child"} ELSE zombies

(* What a stub does after it has written its command.                      *)
Answer(cmd) ==
    CASE cmd = "OPEN_CONFIG" -> <<"fd">>
      [] cmd = "OPEN_TUN" -> <<"len">>
      [] cmd = "INIT_SCRIPT" -> <<"len">>
      [] cmd = "GETADDRINFO" -> <<"count">>
      [] cmd = "RUN_SCRIPT" -> <<"status">>
      [] OTHER -> <<>>

(* A priv_ function called at a place of the child that goes on at next:   *)
(* must_write of the command, which ends the child if the parent is dead.  *)
Call(cmd, next) ==
    /\ ChildAlive /\ stub = "none"
    /\ \/ /\ ParentAlive
          /\ cpc' = next
          /\ stub' = IF cmd \in HasArgs THEN cmd ELSE "none"
          /\ want' = IF cmd \in HasArgs THEN <<"send">> \o Answer(cmd) ELSE <<>>
          /\ toParent' = Append(toParent, cmd)
          /\ UNCHANGED <<signals, toChild>>
       \/ ~ParentAlive /\ ChildDies /\ UNCHANGED toParent
    /\ UNCHANGED <<parent, runs>>

(* The arguments.  Only the path of the configuration file matters here:   *)
(* that of the command line at first, an empty one on a reload.            *)
SendArgs ==
    /\ ChildAlive /\ want # <<>> /\ Head(want) = "send"
    /\ \/ /\ ParentAlive
          /\ toParent' = Append(toParent, IF cpc = "config" THEN "mlvpn.conf" ELSE "")
          /\ want' = Tail(want)
          /\ UNCHANGED <<cpc, stub, signals, toChild>>
       \/ ~ParentAlive /\ ChildDies /\ UNCHANGED toParent
    /\ UNCHANGED <<parent, runs>>

(* What an item announces: priv_open_tun, priv_init_script and             *)
(* priv_getaddrinfo read a length or a count first.                        *)
Announced(e) ==
    CASE e.kind = "len" /\ stub = "OPEN_TUN" /\ e.val # 0 -> <<"name", "fd">>
      [] e.kind = "len" /\ stub = "INIT_SCRIPT" -> <<"msg">>
      [] e.kind = "count" -> [i \in 1 .. e.val |-> "addr"]
      [] OTHER -> <<>>

(* The outcomes that end the child: errx on a device name of               *)
(* MLVPN_IFNAMSIZ bytes, fatalx of main without a file or a device.        *)
Fatal(e) ==
    \/ stub = "OPEN_TUN" /\ e.kind = "len" /\ (e.val = 0 \/ e.val >= IFNAMSIZ)
    \/ cpc = "config" /\ e.kind = "fd" /\ e.val = -1

(* A call that is over; a failed priv_open_config ends a reload.           *)
Return(failed) ==
    /\ stub' = "none"
    /\ cpc' = IF cpc = "apply" /\ stub = "OPEN_CONFIG" /\ failed THEN "loop" ELSE cpc

(* must_read and receive_fd of an item.                                    *)
ReadItem ==
    /\ ChildAlive /\ want # <<>> /\ Head(want) # "send" /\ toChild # <<>>
    /\ LET e == Head(toChild)
           rest == Tail(want) \o Announced(e)
       IN  IF Fatal(e) THEN ChildDies
           ELSE /\ toChild' = Tail(toChild)
                /\ want' = rest
                /\ IF rest = <<>> THEN Return(e.val = -1) ELSE UNCHANGED <<cpc, stub>>
                /\ UNCHANGED signals
    /\ UNCHANGED <<parent, runs, toParent>>

(* The parent is dead and its answer does not come: must_read ends the     *)
(* child, but receive_fd returns -1, which main takes for fatal and a      *)
(* reload for a file that cannot be opened.                                *)
ReadEof ==
    /\ ChildAlive /\ want # <<>> /\ Head(want) # "send" /\ toChild = <<>> /\ ~ParentAlive
    /\ IF Head(want) = "fd" /\ cpc = "apply"
       THEN want' = <<>> /\ Return(TRUE) /\ UNCHANGED <<signals, toChild>>
       ELSE ChildDies
    /\ UNCHANGED <<parent, runs, toParent>>

Goto(next) ==
    /\ stub = "none" /\ cpc' = next
    /\ UNCHANGED <<parent, signals, runs, stub, want, toParent, toChild>>

Exit == stub = "none" /\ ChildDies /\ UNCHANGED <<parent, runs, toParent>>

(* Mutant: the state is raised before the device is opened.                *)
StartRunningFirst ==
    \/ cpc = "open" /\ Call("OPEN_CONFIG", "config")
    \/ cpc = "config" /\ (Call("INIT_SCRIPT", "tun") \/ Goto("tun") \/ Exit)
    \/ cpc = "tun" /\ Call("SET_RUNNING_STATE", "set")
    \/ cpc = "set" /\ Call("OPEN_TUN", "control")
    \/ cpc = "control" /\ (Call("GETADDRINFO", "check") \/ Goto("check"))
    \/ cpc = "check" /\ (Goto("loop") \/ (~ParentAlive /\ Exit))

(* main: mlvpn_config ends the process on a file it cannot use, and calls  *)
(* priv_init_script if there is a script; the control socket may need an   *)
(* address; getppid is 1 once the parent is dead, if init is the reaper.   *)
Start ==
    \/ cpc = "open" /\ Call("OPEN_CONFIG", "config")
    \/ cpc = "config" /\ (Call("INIT_SCRIPT", "tun") \/ Goto("tun") \/ Exit)
    \/ cpc = "tun" /\ Call("OPEN_TUN", "set")
    \/ cpc = "set" /\ Call("SET_RUNNING_STATE", "control")
    \/ cpc = "control" /\ (Call("GETADDRINFO", "check") \/ Goto("check"))
    \/ cpc = "check" /\ (Goto("loop") \/ (~ParentAlive /\ Exit))

(* Handlers of the event loop: a status change runs the script,            *)
(* mlvpn_rtun_start resolves a name.                                       *)
Event == cpc = "loop" /\ \E cmd \in {"RUN_SCRIPT", "GETADDRINFO"} : Call(cmd, "loop")

(* mlvpn_config_reload and mlvpn_quit; either may take tunnels down.       *)
HandleHup ==
    /\ cpc = "loop" /\ stub = "none" /\ "HUP" \in csig
    /\ cpc' = "reload" /\ csig' = csig \ {"HUP"}
    /\ UNCHANGED <<parent, chld, zombies, runs, stub, want, toParent, toChild>>

(* Mutant: mlvpn_quit does not leave the loop.                             *)
HandleTermStays ==
    /\ cpc = "loop" /\ stub = "none" /\ "TERM" \in csig
    /\ csig' = csig \ {"TERM"}
    /\ UNCHANGED <<parent, chld, zombies, runs, child, toParent, toChild>>

HandleTerm ==
    /\ cpc = "loop" /\ stub = "none" /\ "TERM" \in csig
    /\ cpc' = "quit" /\ csig' = csig \ {"TERM"}
    /\ UNCHANGED <<parent, chld, zombies, runs, stub, want, toParent, toChild>>

Reload ==
    \/ cpc = "reload" /\ Call("RELOAD_RESOLVER", "reread")
    \/ cpc = "reread" /\ Call("OPEN_CONFIG", "apply")

TunnelDown == cpc \in {"apply", "quit"} /\ Call("RUN_SCRIPT", cpc)

HandlerEnds ==
    \/ cpc = "apply" /\ Goto("loop")
    \/ cpc = "quit" /\ Exit

(* Before main has started its watchers a signal has its default action.   *)
DefaultSignal ==
    /\ cpc \in {"open", "config", "tun", "set", "control", "check"} /\ csig # {}
    /\ ChildDies
    /\ UNCHANGED <<parent, runs, toParent>>

ChildStep == SendArgs \/ ReadItem \/ ReadEof \/ Start \/ Reload \/ DefaultSignal

-----------------------------------------------------------------------------
(* The parent.                                                             *)

ParentDies(reason) ==
    /\ ppc' = "dead" /\ why' = reason /\ pout' = <<>>
    /\ chld' = FALSE /\ zombies' = {}
    /\ toParent' = <<>>
    /\ UNCHANGED <<curState, pcmd, blocked, oldmask, confFile, script, runs, csig, child, toChild>>

(* A step of the parent from one place to another.                         *)
At(here, there) ==
    /\ ppc = here /\ ppc' = there
    /\ UNCHANGED <<signals, child, toChild, why>>

Local == UNCHANGED <<curState, pcmd, pout, blocked, oldmask, confFile, script, runs, toParent>>

(* The handlers are installed, and increase_state(STATE_CONFIG).           *)
SetUp ==
    /\ At("setup", "test") /\ curState' = CONFIG
    /\ UNCHANGED <<pcmd, pout, blocked, oldmask, confFile, script, runs, toParent>>

(* The condition of the loop, then may_read: a command, or the end of the  *)
(* stream when the child is dead.                                          *)
TestState ==
    \/ curState < QUIT /\ At("test", "read") /\ Local
    \/ ppc = "test" /\ curState = QUIT /\ ParentDies("quit")

(* Mutant: the end of the stream is not noticed.                           *)
ReadCommandForever ==
    /\ toParent # <<>> /\ At("read", "case")
    /\ pcmd' = Head(toParent) /\ toParent' = Tail(toParent)
    /\ UNCHANGED <<curState, pout, blocked, oldmask, confFile, script, runs>>

ReadCommand ==
    \/ /\ toParent # <<>> /\ At("read", "case")
       /\ pcmd' = Head(toParent) /\ toParent' = Tail(toParent)
       /\ UNCHANGED <<curState, pout, blocked, oldmask, confFile, script, runs>>
    \/ ppc = "read" /\ toParent = <<>> /\ ~ChildAlive /\ ParentDies("eof")

(* The case of the command: two of them are for STATE_CONFIG only.         *)
Allowed ==
    CASE pcmd \in {"OPEN_TUN", "INIT_SCRIPT"} -> curState = CONFIG
      [] pcmd = "SET_RUNNING_STATE" -> curState < RUNNING
      [] OTHER -> TRUE

Case ==
    \/ /\ Allowed
       /\ \/ pcmd \in HasArgs /\ At("case", "args")
          \/ pcmd = "RELOAD_RESOLVER" /\ At("case", "test")
          \/ pcmd = "SET_RUNNING_STATE" /\ At("case", "assign")
       /\ Local
    \/ ppc = "case" /\ ~Allowed /\ ParentDies("refused")

(* increase_state: the assignment, after the test of cur_state in Allowed. *)
Assign ==
    /\ At("assign", "test") /\ curState' = RUNNING
    /\ UNCHANGED <<pcmd, pout, blocked, oldmask, confFile, script, runs, toParent>>

(* The path PRIV_OPEN_CONFIG stores and opens.                             *)
PathOf(p) == IF curState = CONFIG THEN p ELSE confFile

(* must_read of the arguments; an empty path is fatal.                     *)
ReadArgs ==
    \/ /\ toParent # <<>>
       /\ LET path == IF pcmd = "OPEN_CONFIG" THEN PathOf(Head(toParent)) ELSE confFile
          IN  IF pcmd = "OPEN_CONFIG" /\ path = ""
              THEN ppc = "args" /\ ParentDies("fatal")
              ELSE /\ At("args", "serve")
                   /\ confFile' = path /\ toParent' = Tail(toParent)
                   /\ UNCHANGED <<curState, pcmd, pout, blocked, oldmask, script, runs>>
    \/ ppc = "args" /\ toParent = <<>> /\ ~ChildAlive /\ ParentDies("eof")

(* Mutant: one address more than the count says.                           *)
ResultsOneMore(cmd) ==
    CASE cmd = "OPEN_CONFIG" -> {<<Item("fd", v)>> : v \in {-1, 3}}
      [] cmd = "OPEN_TUN" -> {<<Item("len", 1), Item("name", 0), Item("fd", 3)>>}
      [] cmd = "INIT_SCRIPT" -> {<<Item("len", 1), Item("msg", v)>> : v \in {-1, 0}}
      [] cmd = "GETADDRINFO" -> {<<Item("count", n)>> \o [i \in 1 .. n + 1 |-> Item("addr", i)] :
                                     n \in 0 .. MaxAddrs}

(* The answers a request may get.                                          *)
Results(cmd) ==
    CASE cmd = "OPEN_CONFIG" -> {<<Item("fd", v)>> : v \in {-1, 3}}
      [] cmd = "OPEN_TUN" -> {<<Item("len", 0)>>} \cup
             {<<Item("len", n), Item("name", 0), Item("fd", 3)>> : n \in {1, IFNAMSIZ}}
      [] cmd = "INIT_SCRIPT" -> {<<Item("len", 1), Item("msg", v)>> : v \in {-1, 0}}
      [] cmd = "GETADDRINFO" -> {<<Item("count", n)>> \o [i \in 1 .. n |-> Item("addr", i)] :
                                     n \in 0 .. MaxAddrs}

Status(v) == <<Item("status", v)>>

(* The requests that are served at once; a script that passes the checks   *)
(* is kept.                                                                *)
Serve ==
    /\ pcmd # "RUN_SCRIPT" /\ At("serve", "reply")
    /\ pout' \in Results(pcmd)
    /\ script' = (script \/ (pcmd = "INIT_SCRIPT" /\ pout'[2].val = 0))
    /\ UNCHANGED <<curState, pcmd, blocked, oldmask, confFile, runs, toParent>>

(* Mutant: SIGCHLD is not blocked while the script runs.                   *)
ServeScriptUnblocked ==
    /\ pcmd = "RUN_SCRIPT"
    /\ \/ /\ script /\ At("serve", "fork")
          /\ oldmask' = blocked
          /\ UNCHANGED <<curState, pcmd, pout, blocked, confFile, script, runs, toParent>>
       \/ /\ ~script /\ At("serve", "reply") /\ pout' = Status(-1)
          /\ UNCHANGED <<curState, pcmd, blocked, oldmask, confFile, script, runs, toParent>>

(* PRIV_RUN_SCRIPT, and root_launch_script up to the fork.                 *)
ServeScript ==
    /\ pcmd = "RUN_SCRIPT"
    /\ \/ /\ script /\ At("serve", "fork")
          /\ oldmask' = blocked /\ blocked' = TRUE
          /\ UNCHANGED <<curState, pcmd, pout, confFile, script, runs, toParent>>
       \/ /\ ~script /\ At("serve", "reply") /\ pout' = Status(-1)
          /\ UNCHANGED <<curState, pcmd, blocked, oldmask, confFile, script, runs, toParent>>

(* The fork; when it fails SIGCHLD stays blocked.                          *)
Fork ==
    \/ /\ At("fork", "wait") /\ runs' = TRUE
       /\ UNCHANGED <<curState, pcmd, pout, blocked, oldmask, confFile, script, toParent>>
    \/ /\ At("fork", "reply") /\ pout' = Status(-1)
       /\ UNCHANGED <<curState, pcmd, blocked, oldmask, confFile, script, runs, toParent>>

(* waitpid until it returns the script; without one it would fail and be   *)
(* called again for ever.                                                  *)
WaitScript ==
    /\ ppc = "wait" /\ "script" \in zombies
    /\ zombies' = zombies \ {"script"}
    /\ ppc' = "reply" /\ blocked' = oldmask /\ pout' \in {Status(0), Status(-1)}
    /\ UNCHANGED <<curState, pcmd, oldmask, confFile, script, why, runs, chld, csig,
                   child, toParent, toChild>>

(* must_write of an item ends the parent if the child is dead; send_fd     *)
(* only warns.                                                             *)
Reply ==
    \/ /\ pout # <<>> /\ ppc = "reply"
       /\ \/ /\ ChildAlive \/ Head(pout).kind = "fd"
             /\ toChild' = IF ChildAlive THEN Append(toChild, Head(pout)) ELSE toChild
             /\ pout' = Tail(pout)
             /\ UNCHANGED <<ppc, curState, pcmd, blocked, oldmask, confFile, script, why,
                            signals, runs, child, toParent>>
          \/ ~ChildAlive /\ Head(pout).kind # "fd" /\ ParentDies("eof")
    \/ pout = <<>> /\ At("reply", "test") /\ Local

ParentStep ==
    \/ SetUp \/ TestState \/ ReadCommand \/ Case \/ Assign \/ ReadArgs
    \/ Serve \/ ServeScript \/ Fork \/ WaitScript \/ Reply

-----------------------------------------------------------------------------
(* Signals and the end of the script.                                      *)

(* sig_got_chld, at any point of the parent: every dead process is waited  *)
(* for, and the death of the child is the end.                             *)
SigGotChld ==
    /\ ppc \notin {"setup", "dead"} /\ chld /\ ~blocked
    /\ curState' = IF "child" \in zombies THEN QUIT ELSE curState
    /\ chld' = FALSE /\ zombies' = {}
    /\ UNCHANGED <<ppc, pcmd, pout, blocked, oldmask, confFile, script, why, csig, runs,
                   child, toParent, toChild>>

ScriptEnds ==
    /\ runs /\ runs' = FALSE
    /\ chld' = (chld \/ ParentAlive)
    /\ zombies' = IF ParentAlive THEN zombies \cup {"script"} ELSE zombies
    /\ UNCHANGED <<parent, csig, child, toParent, toChild>>

(* A signal of the user to the parent, which sig_pass_to_chld sends on, or *)
(* to the child.  Before its handlers are installed the parent dies of it. *)
Signal(s) ==
    \/ ppc = "setup" /\ ParentDies("signal")
    \/ /\ ppc # "setup" /\ ChildAlive
       /\ csig' = csig \cup {s}
       /\ UNCHANGED <<parent, chld, zombies, runs, child, toParent, toChild>>

(* Either process may also be killed.                                      *)
ParentKilled == ParentAlive /\ ParentDies("signal")

ChildKilled == ChildAlive /\ ChildDies /\ UNCHANGED <<parent, runs, toParent>>

Next ==
    \/ ParentStep \/ ChildStep \/ Event \/ HandleHup \/ HandleTerm \/ TunnelDown \/ HandlerEnds
    \/ SigGotChld \/ ScriptEnds
    \/ \E s \in {"HUP", "TERM"} : Signal(s)
    \/ ParentKilled \/ ChildKilled

(* Each process goes on with what it has begun, scripts end, a handler     *)
(* takes down finitely many tunnels, and the event loop of the child       *)
(* starves no watcher.                                                     *)
Spec ==
    /\ Init /\ [][Next]_vars
    /\ WF_vars(ParentStep) /\ WF_vars(ChildStep)
    /\ WF_vars(SigGotChld) /\ WF_vars(ScriptEnds)
    /\ SF_vars(HandleTerm) /\ SF_vars(HandlerEnds)

-----------------------------------------------------------------------------
(* The two ends of the stream stay in step: whatever way each request ends *)
(* (no device, no address, several, no script), the next item is of the    *)
(* kind that the priv_ function of the child reads next, and a child that  *)
(* is not in such a function has read all of every answer.                 *)
InStep ==
    LET answer == toChild \o pout
    IN  ChildAlive /\ answer # <<>> =>
            /\ want # <<>>
            /\ Head(answer).kind = Head(want)
            /\ ParentAlive /\ Len(want) > 1 => Len(answer) = Len(want)

(* The parent never ends on a request of a living child: start-up and      *)
(* reload ask for nothing that priv_init no longer allows in its state,    *)
(* and what it refuses, it refuses to a child that is already dead.        *)
NeverRefused == why \in {"refused", "fatal"} => ~ChildAlive

(* A request is answered, or its caller is dead: a script's SIGCHLD, the   *)
(* death of the child or a failed fork never leave the parent waiting.     *)
Answered == stub # "none" ~> stub = "none"

(* When the child dies the parent ends, though SIGCHLD may come before its *)
(* handler is installed, stay blocked after a failed fork, or come between *)
(* the test and the assignment of increase_state, which then undoes it.    *)
ParentFollows == ~ChildAlive ~> ~ParentAlive

(* A TERM that the child gets ends both processes, whatever they are at.   *)
Terminates == "TERM" \in csig ~> ~ChildAlive /\ ~ParentAlive

=============================================================================
