------------------------------- MODULE Control -------------------------------
(***************************************************************************)
(* The control socket (control.c): one client at a time, its read and      *)
(* write buffers, the two watchers of its descriptor and the timeout.      *)
(*                                                                         *)
(* A connection is its descriptor in the server.  A line of the client is  *)
(* the command it holds (the second word of the line in HTTP mode); an     *)
(* answer is two pieces, so that a write may be partial.  rbuf is the      *)
(* owner of the unfinished line it holds, if any.                          *)
(*                                                                         *)
(* libev calls the handler of a watcher for the descriptors under which it *)
(* has filed the watcher (reg).  ev_io_set on an active watcher changes    *)
(* its descriptor but not where it is filed.                               *)
(***************************************************************************)
EXTENDS Integers, Sequences

CONSTANTS
    Conns,        \* connections
    NoConn,       \* clientfd is -1, rbuf is empty
    CtrlTimeout,  \* MLVPN_CTRL_TIMEOUT
    MaxLines      \* bound: commands a client sends on a connection

ASSUME NoConnAssumption == NoConn \notin Conns

ASSUME BoundsAssumption == CtrlTimeout \in Nat \ {0} /\ MaxLines \in Nat

VARIABLES
    http,              \* ctrl->http
    clientfd,          \* ctrl->clientfd
    rbuf, wbuf,        \* the buffers
    closeAfterWrite,   \* ctrl->close_after_write
    idle,              \* seconds since last_activity, 0 without a client
    ioRead, ioWrite,   \* client_io_read, client_io_write
    conn,              \* state of each connection
    asked,             \* history: number of commands parsed for each connection
    got                \* history: pieces each client was sent

ctrl == <<clientfd, rbuf, wbuf, closeAfterWrite, idle>>
vars == <<http, ctrl, ioRead, ioWrite, conn, asked, got>>

-----------------------------------------------------------------------------
(* Status, metrics and unknown commands are all handled alike; "other" is  *)
(* the answer to a command the client did not send.                        *)
Text == {"answer", "other"}

(* A connection: waiting for accept, open, shut down by the client, reset. *)
ConnState == {"none", "queued", "open", "shut", "reset"}

(* A watcher that is active is filed somewhere, not always under its fd.   *)
Watcher ==
    {w \in [active : BOOLEAN, fd : Conns \cup {NoConn}, reg : SUBSET Conns] :
        w.active => w.reg # {}}

Piece == Text \X {1, 2}

TypeOK ==
    /\ http \in BOOLEAN
    /\ clientfd \in Conns \cup {NoConn}
    /\ rbuf \in Conns \cup {NoConn}
    /\ wbuf \in Seq(Piece)
    /\ closeAfterWrite \in BOOLEAN
    /\ idle \in 0 .. CtrlTimeout - 1
    /\ ioRead \in Watcher /\ ioWrite \in Watcher
    /\ conn \in [Conns -> ConnState]
    /\ asked \in [Conns -> 0 .. MaxLines]
    /\ got \in [Conns -> Seq(Piece)]

Idle == [active |-> FALSE, fd |-> NoConn, reg |-> {}]

(* mlvpn_control_init; http if the configuration has an inet socket.       *)
Init ==
    /\ http \in BOOLEAN
    /\ clientfd = NoConn /\ rbuf = NoConn /\ wbuf = <<>>
    /\ closeAfterWrite = FALSE /\ idle = 0
    /\ ioRead = Idle /\ ioWrite = Idle
    /\ conn = [c \in Conns |-> "none"]
    /\ asked = [c \in Conns |-> 0]
    /\ got = [c \in Conns |-> <<>>]

-----------------------------------------------------------------------------
(* libev.                                                                  *)

Set(w, fd) == [w EXCEPT !.fd = fd]
Start(w) == IF w.active THEN w ELSE [w EXCEPT !.active = TRUE, !.reg = @ \cup {w.fd}]
Stop(w) == IF w.active THEN [w EXCEPT !.active = FALSE, !.reg = @ \ {w.fd}] ELSE w

(* A connection whose descriptor is closed is gone, and may come again.    *)
Closed(c) ==
    /\ conn' = [conn EXCEPT ![c] = "none"]
    /\ asked' = [asked EXCEPT ![c] = 0]
    /\ got' = [got EXCEPT ![c] = <<>>]

(* mlvpn_control_close_client                                              *)
CloseClient ==
    /\ ioRead' = Stop(ioRead) /\ ioWrite' = Stop(ioWrite)
    /\ clientfd' = NoConn
    /\ IF clientfd = NoConn THEN UNCHANGED <<conn, asked, got>> ELSE Closed(clientfd)

-----------------------------------------------------------------------------
(* mlvpn_control_accept: the first client,                                 *)
AcceptFirst(c) ==
    /\ clientfd' = c /\ rbuf' = NoConn /\ wbuf' = <<>> /\ idle' = 0
    /\ ioRead' = Start(Set(ioRead, c)) /\ ioWrite' = Set(ioWrite, c)
    /\ conn' = [conn EXCEPT ![c] = "open"]
    /\ UNCHANGED <<asked, got>>

(* and one that comes while it is there, which is told so and closed.      *)
AcceptSecond(c) ==
    /\ Closed(c)
    /\ UNCHANGED <<clientfd, rbuf, wbuf, idle, ioRead, ioWrite>>

Accept(c) ==
    /\ conn[c] = "queued"
    /\ IF clientfd = NoConn THEN AcceptFirst(c) ELSE AcceptSecond(c)
    /\ UNCHANGED <<http, closeAfterWrite>>

(* Mutant: every second counts as activity.                                *)
TimeoutNever ==
    /\ idle' = 0
    /\ UNCHANGED <<http, clientfd, rbuf, wbuf, closeAfterWrite, ioRead, ioWrite, conn, asked, got>>

(* mlvpn_control_timeout, every second.                                    *)
Timeout ==
    /\ IF clientfd # NoConn /\ idle + 1 >= CtrlTimeout
       THEN CloseClient /\ idle' = 0
       ELSE /\ idle' = IF clientfd = NoConn THEN 0 ELSE idle + 1
            /\ UNCHANGED <<clientfd, ioRead, ioWrite, conn, asked, got>>
    /\ UNCHANGED <<http, rbuf, wbuf, closeAfterWrite>>

-----------------------------------------------------------------------------
Answer(text) == <<<<text, 1>>, <<text, 2>>>>

(* mlvpn_control_parse of a line with an answer: a line that begins with   *)
(* what another client left in rbuf would be another command.              *)
ParseCommand(c) ==
    /\ asked' = [asked EXCEPT ![c] = @ + 1]
    /\ wbuf' = wbuf \o Answer(IF rbuf \in {NoConn, c} THEN "answer" ELSE "other")
    /\ ioWrite' = Start(ioWrite)
    /\ closeAfterWrite' = (closeAfterWrite \/ http)
    /\ UNCHANGED <<clientfd, ioRead, conn, got>>

(* quit: the answer is put into wbuf and stays there, the client is closed. *)
ParseQuit ==
    /\ wbuf' = wbuf \o Answer("answer")
    /\ ioRead' = Stop(ioRead) /\ ioWrite' = Stop(Start(ioWrite))
    /\ clientfd' = NoConn /\ Closed(clientfd)
    /\ closeAfterWrite' = (closeAfterWrite \/ http)

(* A line without a command (in HTTP mode: of one word).                   *)
ParseNothing == UNCHANGED <<clientfd, wbuf, closeAfterWrite, ioRead, ioWrite, conn, asked, got>>

(* mlvpn_control_read_check, again and again: the first line is parsed and *)
(* all that was read after it is dropped, because the shift leaves the     *)
(* terminator in rbuf and each further call takes it for an empty line.    *)
ReadLine(c) ==
    /\ idle' = 0 /\ rbuf' = NoConn
    /\ \/ asked[c] < MaxLines /\ ParseCommand(c)
       \/ ParseQuit
       \/ ParseNothing

(* No terminator yet.                                                      *)
ReadPart(c) ==
    /\ idle' = 0 /\ rbuf' = c
    /\ UNCHANGED <<clientfd, wbuf, closeAfterWrite, ioRead, ioWrite, conn, asked, got>>

(* MLVPN_CTRL_EOF in the line, or a line that does not fit into rbuf, or a *)
(* read error.                                                             *)
ReadEnds ==
    /\ CloseClient
    /\ idle' = 0
    /\ UNCHANGED <<rbuf, wbuf, closeAfterWrite>>

(* End of file: the descriptor is forgotten, not closed.                   *)
ReadEof ==
    /\ clientfd' = NoConn /\ idle' = 0
    /\ UNCHANGED <<rbuf, wbuf, closeAfterWrite, ioRead, ioWrite, conn, asked, got>>

(* mlvpn_control_read, called for any descriptor ioRead is filed under,    *)
(* reads from clientfd.                                                    *)
Readable(f) == conn[f] \in {"shut", "reset"}

Read ==
    /\ \E f \in ioRead.reg : f = clientfd \/ Readable(f)
    /\ \/ /\ clientfd # NoConn /\ conn[clientfd] = "open"
          /\ ReadLine(clientfd) \/ ReadPart(clientfd) \/ ReadEnds
       \/ clientfd # NoConn /\ conn[clientfd] = "shut" /\ ReadEof
       \/ clientfd # NoConn /\ conn[clientfd] = "reset" /\ ReadEnds
       \/ clientfd = NoConn /\ ReadEnds
    /\ UNCHANGED http

-----------------------------------------------------------------------------
(* Mutant: what was written stays at the start of wbuf.                    *)
ShiftNot(q, n) == SubSeq(q, 1, Len(q) - n)

(* wbuf after n pieces of it were written.                                 *)
Shift(q, n) == SubSeq(q, n + 1, Len(q))

(* Mutant: the watcher is stopped after any write.                         *)
SendSomeAndStop(n) ==
    LET rest == Shift(wbuf, n)
    IN  /\ wbuf' = rest
        /\ IF closeAfterWrite /\ rest = <<>> THEN CloseClient
           ELSE /\ ioWrite' = Stop(ioWrite)
                /\ got' = [got EXCEPT ![clientfd] = @ \o SubSeq(wbuf, 1, n)]
                /\ UNCHANGED <<clientfd, ioRead, conn, asked>>

(* mlvpn_control_send: write takes n pieces; with nothing left the watcher *)
(* is stopped, in HTTP mode the client closed,                             *)
SendSome(n) ==
    LET rest == Shift(wbuf, n)
    IN  /\ wbuf' = rest
        /\ IF closeAfterWrite /\ rest = <<>> THEN CloseClient
           ELSE /\ ioWrite' = IF rest = <<>> THEN Stop(ioWrite) ELSE ioWrite
                /\ got' = [got EXCEPT ![clientfd] = @ \o SubSeq(wbuf, 1, n)]
                /\ UNCHANGED <<clientfd, ioRead, conn, asked>>

(* a write that fails closes the client,                                   *)
SendFails == CloseClient /\ UNCHANGED wbuf

(* and with nothing to write the handler complains and returns.            *)
SendNothing == UNCHANGED <<clientfd, wbuf, ioRead, ioWrite, conn, asked, got>>

(* Called for any descriptor ioWrite is filed under, when it is writable.  *)
Send ==
    /\ ioWrite.reg # {}
    /\ \/ wbuf = <<>> /\ SendNothing
       \/ /\ wbuf # <<>>
          /\ \/ /\ clientfd # NoConn /\ conn[clientfd] \in {"open", "shut"}
                /\ \E n \in 1 .. Len(wbuf) : SendSome(n)
             \/ SendFails
    /\ idle' = IF clientfd' = NoConn THEN 0 ELSE idle
    /\ UNCHANGED <<http, rbuf, closeAfterWrite>>

-----------------------------------------------------------------------------
(* The clients.                                                            *)
Client(c, from, to) ==
    /\ conn[c] \in from
    /\ conn' = [conn EXCEPT ![c] = to]
    /\ UNCHANGED <<http, ctrl, ioRead, ioWrite, asked, got>>

Connect(c) == Client(c, {"none"}, "queued")
ShutDown(c) == Client(c, {"open"}, "shut")
Reset(c) == Client(c, {"open", "shut"}, "reset")

Next ==
    \/ Timeout \/ Read \/ Send
    \/ \E c \in Conns : Accept(c) \/ Connect(c) \/ ShutDown(c) \/ Reset(c)

(* libev fires its timers and its watchers.                                *)
Spec == Init /\ [][Next]_vars /\ WF_vars(Timeout) /\ WF_vars(Send)

-----------------------------------------------------------------------------
(* The pieces of n answers.                                                *)
Answers(q, n) ==
    /\ Len(q) = 2 * n
    /\ \A k \in 1 .. n : q[2 * k - 1] = <<"answer", 1>> /\ q[2 * k] = <<"answer", 2>>

(* What the client has been sent and what waits in wbuf are the answers to *)
(* its own commands, whole and in order, whatever partial writes, half     *)
(* lines, timeouts and former clients left in the buffers of ctrl.         *)
AnswersInOrder == clientfd # NoConn => Answers(got[clientfd] \o wbuf, asked[clientfd])

(* The only slot is freed again: unless clients go on sending for ever, a  *)
(* client that falls silent, leaves, or never reads its answer does not    *)
(* keep the next one out.                                                  *)
SlotFreed ==
    <>[][clientfd' = clientfd => idle' >= idle]_vars
        => (clientfd # NoConn ~> clientfd = NoConn)

(* No answer gets stuck.  What waits in wbuf has a watcher that libev      *)
(* calls, also when the one before was left active by a client that went   *)
(* away in the middle of its answer; and in HTTP mode, where the client    *)
(* reads until the server closes, one whose command was parsed is never    *)
(* left connected with nothing more to send.                               *)
AnswerMoves ==
    clientfd # NoConn =>
        /\ wbuf # <<>> => ioWrite.active /\ ioWrite.reg # {}
        /\ http /\ asked[clientfd] > 0 => wbuf # <<>>

=============================================================================
