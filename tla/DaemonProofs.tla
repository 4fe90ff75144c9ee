---------------------------- MODULE DaemonProofs ----------------------------
(***************************************************************************)
(* Theorems about the parts of one daemon that need the theory of          *)
(* sequences or of numbers only.  Control: the answers on the control      *)
(* socket are those to the client's commands, whole and in order, for all  *)
(* numbers of connections and commands.  Wrr, Wire and Tuntap, composed in *)
(* MCTraffic: the round robin keeps its values in range for all weights,   *)
(* the loss vector is right for every width, number of packets and         *)
(* network, and the buffer for the device is a queue for every size.       *)
(***************************************************************************)
EXTENDS Control, MCTraffic, SequenceTheorems, TLAPS

-----------------------------------------------------------------------------
(* Sequences of pieces.                                                    *)

LEMMA AnswerType == Answer("answer") \in Seq(Piece) /\ Answer("other") \in Seq(Piece)
BY DEF Answer, Piece, Text

(* One more answer at the end.                                             *)
LEMMA OneMoreAnswer ==
    ASSUME NEW g \in Seq(Piece), NEW w \in Seq(Piece), NEW n \in Nat, Answers(g \o w, n)
    PROVE  Answers(g \o (w \o Answer("answer")), n + 1)
<1> DEFINE q == g \o w
           a == Answer("answer")
           r == q \o a
<1>1. a \in Seq(Piece) /\ Len(a) = 2 /\ a[1] = <<"answer", 1>> /\ a[2] = <<"answer", 2>>
  BY AnswerType DEF Answer
<1>2. q \in Seq(Piece) /\ r = g \o (w \o a)
  <2>1. q \in Seq(Piece)
    BY Zenon, ConcatProperties
  <2>2. r = g \o (w \o a)
    BY SMTT(30), <1>1, <2>1
  <2> QED
    BY <2>1, <2>2
<1>3. /\ Len(q) = 2 * n
      /\ \A k \in 1 .. n : q[2 * k - 1] = <<"answer", 1>> /\ q[2 * k] = <<"answer", 2>>
  BY Zenon DEF Answers
<1> HIDE DEF q, a
<1>4. /\ Len(r) = 2 * n + 2
      /\ \A i \in 1 .. 2 * n + 2 : r[i] = IF i <= 2 * n THEN q[i] ELSE a[i - 2 * n]
  <2>1. /\ Len(r) = Len(q) + Len(a)
        /\ \A i \in 1 .. Len(q) + Len(a) : r[i] = IF i <= Len(q) THEN q[i] ELSE a[i - Len(q)]
    BY Zenon, <1>1, <1>2, ConcatProperties
  <2> QED
    BY Zenon, <2>1, <1>1, <1>3
<1> HIDE DEF r
<1>5. ASSUME NEW k \in 1 .. n + 1
      PROVE  r[2 * k - 1] = <<"answer", 1>> /\ r[2 * k] = <<"answer", 2>>
  <2>1. CASE k = n + 1
    <3>1. 2 * k - 1 = 2 * n + 1 /\ 2 * k = 2 * n + 2
      BY SMT, <2>1
    <3>2. r[2 * n + 1] = a[1] /\ r[2 * n + 2] = a[2]
      BY SMTT(30), <1>4
    <3> QED
      BY Zenon, <3>1, <3>2, <1>1
  <2>2. CASE k \in 1 .. n
    BY SMTT(30), <2>2, <1>3, <1>4
  <2> QED
    BY SMT, <2>1, <2>2
<1>6. Len(r) = 2 * (n + 1)
  BY SMT, <1>4
<1> QED
  BY Zenon, <1>2, <1>5, <1>6 DEF Answers, a

(* Pieces that move from the buffer to the client stay in their order.     *)
LEMMA SentIsMoved ==
    ASSUME NEW g \in Seq(Piece), NEW w \in Seq(Piece), NEW n \in 1 .. Len(w)
    PROVE  /\ Shift(w, n) \in Seq(Piece) /\ g \o SubSeq(w, 1, n) \in Seq(Piece)
           /\ (g \o SubSeq(w, 1, n)) \o Shift(w, n) = g \o w
<1> DEFINE a == SubSeq(w, 1, n)
           b == SubSeq(w, n + 1, Len(w))
<1>1. Len(w) \in Nat /\ \A i \in 1 .. Len(w) : w[i] \in Piece
  BY LenProperties, ElementOfSeq
<1>2. a \in Seq(Piece) /\ b \in Seq(Piece)
  <2>1. 1 \in Int /\ n \in Int /\ n + 1 \in Int /\ Len(w) \in Int
    BY SMT, <1>1
  <2>2. (\A i \in 1 .. n : w[i] \in Piece) /\ (\A i \in n + 1 .. Len(w) : w[i] \in Piece)
    BY SMT, <1>1
  <2> QED
    BY Zenon, <2>1, <2>2, SubSeqProperties
<1>3. a \o b = w
  <2>1. 1 \in 1 .. Len(w) + 1 /\ n \in 1 - 1 .. Len(w) /\ Len(w) \in n .. Len(w)
    BY SMT, <1>1
  <2>2. a \o b = SubSeq(w, 1, Len(w))
    BY Zenon, <2>1, ConcatAdjacentSubSeq
  <2> QED
    BY Zenon, <2>2, SubSeqFull
<1> HIDE DEF a, b
<1>4. (g \o a) \o b = g \o (a \o b) /\ g \o a \in Seq(Piece)
  <2>1. (g \o a) \o b = g \o (a \o b)
    BY SMTT(30), <1>2
  <2>2. g \o a \in Seq(Piece)
    BY Zenon, <1>2, ConcatProperties
  <2> QED
    BY <2>1, <2>2
<1> QED
  BY Zenon, <1>2, <1>3, <1>4 DEF Shift, a, b

-----------------------------------------------------------------------------
(* The inductive invariant.  A connection that is not accepted has asked   *)
(* and got nothing; rbuf holds nothing of another client; the write        *)
(* watcher has had a descriptor since the first client; and from the first *)
(* command in HTTP mode on a client is closed when wbuf is empty.          *)

Fresh == \A c \in Conns : conn[c] \in {"none", "queued"} => asked[c] = 0 /\ got[c] = <<>>

Serving ==
    clientfd # NoConn =>
        /\ conn[clientfd] \notin {"none", "queued"}
        /\ rbuf \in {NoConn, clientfd}
        /\ ioWrite.fd \in Conns
        /\ http /\ asked[clientfd] > 0 => closeAfterWrite

IInv == TypeOK /\ Fresh /\ Serving /\ AnswersInOrder /\ AnswerMoves

(* The connections.                                                        *)
Kept ==
    /\ conn \in [Conns -> ConnState]
    /\ asked \in [Conns -> 0 .. MaxLines]
    /\ got \in [Conns -> Seq(Piece)]
    /\ Fresh

LEMMA WatcherType ==
    ASSUME NEW w \in Watcher, NEW c \in Conns
    PROVE  /\ Stop(w) \in Watcher
           /\ Set(w, c) \in Watcher /\ Set(w, c).fd = c
           /\ w.fd \in Conns => Start(w) \in Watcher /\ Start(w).fd = w.fd /\ Start(w).active
           /\ w.active => w.reg # {}
<1>1. Stop(w) \in Watcher
  BY Zenon DEF Stop, Watcher
<1>2. Set(w, c) \in Watcher /\ Set(w, c).fd = c
  BY Zenon DEF Set, Watcher
<1>3. w.fd \in Conns => Start(w) \in Watcher /\ Start(w).fd = w.fd /\ Start(w).active
  BY Zenon DEF Start, Watcher
<1>4. w.active => w.reg # {}
  BY Zenon DEF Watcher
<1> QED
  BY <1>1, <1>2, <1>3, <1>4

(* A descriptor that is closed leaves a connection as it was.              *)
LEMMA ClosedKeeps ==
    ASSUME Kept, NEW c \in Conns, Closed(c)
    PROVE  Kept'
<1>1. "none" \in ConnState /\ 0 \in 0 .. MaxLines /\ <<>> \in Seq(Piece)
  BY SMT, BoundsAssumption DEF ConnState
<1>2. /\ conn' \in [Conns -> ConnState]
      /\ asked' \in [Conns -> 0 .. MaxLines]
      /\ got' \in [Conns -> Seq(Piece)]
  BY Zenon, <1>1 DEF Kept, Closed
<1>3. Fresh'
  BY SMTT(30) DEF Kept, Fresh, Closed
<1> QED
  BY <1>2, <1>3 DEF Kept

(* mlvpn_control_close_client                                              *)
LEMMA CloseKeeps ==
    ASSUME IInv, CloseClient
    PROVE  /\ Kept' /\ clientfd' = NoConn
           /\ ioRead' \in Watcher /\ ioWrite' \in Watcher
<1>1. Kept /\ clientfd \in Conns \cup {NoConn}
  BY DEF IInv, TypeOK, Kept
<1>2. clientfd = NoConn => Kept'
  BY <1>1 DEF CloseClient, Kept, Fresh
<1>3. clientfd \in Conns => Kept'
  BY <1>1, ClosedKeeps, NoConnAssumption DEF CloseClient
<1>4. Stop(ioRead) \in Watcher /\ Stop(ioWrite) \in Watcher
  BY Zenon DEF IInv, TypeOK, Stop, Watcher
<1> QED
  BY <1>1, <1>2, <1>3, <1>4 DEF CloseClient

(* With no client there is nothing else to keep.                           *)
LEMMA NoClientKeepsIInv ==
    ASSUME Kept', clientfd' = NoConn, ioRead' \in Watcher, ioWrite' \in Watcher,
           http' \in BOOLEAN, closeAfterWrite' \in BOOLEAN, rbuf' \in Conns \cup {NoConn},
           wbuf' \in Seq(Piece), idle' \in 0 .. CtrlTimeout - 1
    PROVE  IInv'
BY Zenon DEF Kept, IInv, TypeOK, Serving, AnswersInOrder, AnswerMoves

-----------------------------------------------------------------------------
(* The actions.                                                            *)

LEMMA AcceptKeepsIInv ==
    ASSUME IInv, NEW c \in Conns, Accept(c)
    PROVE  IInv'
<1>1. conn[c] = "queued" /\ UNCHANGED <<http, closeAfterWrite>>
  BY DEF Accept
<1>2. Kept /\ asked[c] = 0 /\ got[c] = <<>>
  BY <1>1 DEF IInv, TypeOK, Fresh, Kept
<1>3. CASE AcceptFirst(c)
  <2>1. /\ clientfd' = c /\ rbuf' = NoConn /\ wbuf' = <<>> /\ idle' = 0
        /\ ioRead' = Start(Set(ioRead, c)) /\ ioWrite' = Set(ioWrite, c)
        /\ conn' = [conn EXCEPT ![c] = "open"] /\ asked' = asked /\ got' = got
    BY <1>3 DEF AcceptFirst
  <2>2. ioRead' \in Watcher /\ ioWrite' \in Watcher /\ ioWrite'.fd = c
    BY Zenon, <2>1, WatcherType DEF IInv, TypeOK
  <2>3. conn' \in [Conns -> ConnState] /\ conn'[c] = "open"
    BY <1>2, <2>1 DEF Kept, ConnState
  <2>4. <<>> \in Seq(Piece) /\ 0 \in 0 .. CtrlTimeout - 1 /\ Answers(<<>> \o <<>>, 0)
    BY SMTT(30), BoundsAssumption DEF Answers
  <2>5. TypeOK'
    BY Zenon, <1>1, <2>1, <2>2, <2>3, <2>4 DEF IInv, TypeOK
  <2>6. Fresh'
    BY <1>2, <2>1 DEF Kept, Fresh
  <2>7. Serving' /\ AnswersInOrder'
    <3>1. asked'[clientfd'] = 0 /\ got'[clientfd'] = <<>> /\ ~(asked'[clientfd'] > 0)
      BY SMT, <1>2, <2>1
    <3> QED
      BY Zenon, <3>1, <2>1, <2>2, <2>3, <2>4 DEF Serving, AnswersInOrder
  <2>8. AnswerMoves'
    BY SMT, <1>2, <2>1 DEF AnswerMoves
  <2> QED
    BY <2>5, <2>6, <2>7, <2>8 DEF IInv
<1>4. CASE clientfd # NoConn /\ AcceptSecond(c)
  <2>1. /\ Closed(c) /\ c # clientfd /\ clientfd \in Conns
        /\ UNCHANGED <<clientfd, rbuf, wbuf, idle, ioRead, ioWrite>>
    BY <1>1, <1>4 DEF AcceptSecond, IInv, TypeOK, Serving
  <2>2. Kept'
    BY <1>2, <2>1, ClosedKeeps
  <2>3. /\ conn'[clientfd] = conn[clientfd] /\ got'[clientfd] = got[clientfd]
        /\ asked'[clientfd] = asked[clientfd]
    BY <1>2, <2>1 DEF Closed, Kept
  <2>4. TypeOK'
    BY Zenon, <1>1, <2>1, <2>2 DEF IInv, TypeOK, Kept
  <2>5. Serving' /\ AnswersInOrder' /\ AnswerMoves'
    BY Zenon, <1>1, <2>1, <2>3 DEF IInv, Serving, AnswersInOrder, AnswerMoves
  <2> QED
    BY <2>2, <2>4, <2>5 DEF IInv, Kept
<1> QED
  BY <1>3, <1>4 DEF Accept

LEMMA TimeoutKeepsIInv ==
    ASSUME IInv, Timeout
    PROVE  IInv'
<1>1. UNCHANGED <<http, rbuf, wbuf, closeAfterWrite>> /\ 0 \in 0 .. CtrlTimeout - 1
  BY SMT, BoundsAssumption DEF Timeout
<1>2. CASE CloseClient /\ idle' = 0
  BY Zenon, <1>1, <1>2, CloseKeeps, NoClientKeepsIInv DEF IInv, TypeOK
<1>3. CASE /\ ~(clientfd # NoConn /\ idle + 1 >= CtrlTimeout)
           /\ idle' = (IF clientfd = NoConn THEN 0 ELSE idle + 1)
           /\ UNCHANGED <<clientfd, ioRead, ioWrite, conn, asked, got>>
  <2>1. idle' \in 0 .. CtrlTimeout - 1
    BY SMT, <1>3, BoundsAssumption DEF IInv, TypeOK
  <2>2. TypeOK'
    BY Zenon, <1>1, <1>3, <2>1 DEF IInv, TypeOK
  <2> QED
    BY <1>1, <1>3, <2>2 DEF IInv, Fresh, Serving, AnswersInOrder, AnswerMoves
<1> QED
  BY <1>2, <1>3 DEF Timeout

(* mlvpn_control_read when all it does is to close the client.             *)
LEMMA ReadEndsKeepsIInv ==
    ASSUME IInv, ReadEnds, http' = http
    PROVE  IInv'
<1>1. 0 \in 0 .. CtrlTimeout - 1
  BY SMT, BoundsAssumption
<1>2. CloseClient /\ idle' = 0 /\ UNCHANGED <<rbuf, wbuf, closeAfterWrite>>
  BY DEF ReadEnds
<1>3. Kept' /\ clientfd' = NoConn /\ ioRead' \in Watcher /\ ioWrite' \in Watcher
  BY <1>2, CloseKeeps
<1> QED
  BY Zenon, <1>1, <1>2, <1>3, NoClientKeepsIInv DEF IInv, TypeOK

(* A command: its answer goes to the end of what the client is sent.       *)
LEMMA CommandKeepsIInv ==
    ASSUME IInv, clientfd # NoConn, idle' = 0, rbuf' = NoConn, http' = http,
           asked[clientfd] < MaxLines, ParseCommand(clientfd)
    PROVE  IInv'
<1> DEFINE c == clientfd
<1>1. /\ c \in Conns /\ conn[c] \notin {"none", "queued"} /\ rbuf \in {NoConn, c}
      /\ ioWrite \in Watcher /\ ioWrite.fd \in Conns /\ Answers(got[c] \o wbuf, asked[c])
      /\ wbuf \in Seq(Piece) /\ got[c] \in Seq(Piece) /\ asked[c] \in 0 .. MaxLines
  BY DEF IInv, TypeOK, Serving, AnswersInOrder, AnswerMoves
<1>2. /\ asked' = [asked EXCEPT ![c] = asked[c] + 1] /\ wbuf' = wbuf \o Answer("answer")
      /\ ioWrite' = Start(ioWrite) /\ closeAfterWrite' = (closeAfterWrite \/ http)
      /\ UNCHANGED <<clientfd, ioRead, conn, got>>
  BY <1>1 DEF ParseCommand
<1>3. 0 \in 0 .. CtrlTimeout - 1 /\ asked[c] + 1 \in 0 .. MaxLines /\ asked[c] \in Nat
  BY SMT, <1>1, BoundsAssumption
<1>4. wbuf' \in Seq(Piece)
  BY Zenon, <1>1, <1>2, AnswerType, ConcatProperties
<1>5. ioWrite' \in Watcher /\ ioWrite'.fd \in Conns /\ ioWrite'.active /\ ioWrite'.reg # {}
  BY Zenon, <1>1, <1>2, WatcherType
<1>6. asked' \in [Conns -> 0 .. MaxLines] /\ asked'[c] = asked[c] + 1
  BY Zenon, <1>1, <1>2, <1>3 DEF IInv, TypeOK
<1>7. closeAfterWrite' \in BOOLEAN
  BY Zenon, <1>2
<1>8. TypeOK'
  BY Zenon, <1>2, <1>3, <1>4, <1>5, <1>6, <1>7 DEF IInv, TypeOK
<1>9. Fresh'
  BY <1>1, <1>2 DEF IInv, TypeOK, Fresh
<1>10. AnswersInOrder'
  BY <1>1, <1>2, <1>3, <1>6, OneMoreAnswer DEF AnswersInOrder
<1>11. wbuf' # <<>>
  BY SMT, <1>1, <1>2, AnswerType DEF Answer
<1>12. AnswerMoves' /\ Serving'
  BY Zenon, <1>1, <1>2, <1>5, <1>11 DEF Serving, AnswerMoves
<1> QED
  BY Zenon, <1>8, <1>9, <1>10, <1>12 DEF IInv

LEMMA ReadKeepsIInv ==
    ASSUME IInv, Read
    PROVE  IInv'
<1>1. 0 \in 0 .. CtrlTimeout - 1 /\ http' = http
  BY SMT, BoundsAssumption DEF Read
<1>2. CASE ReadEnds
  BY <1>1, <1>2, ReadEndsKeepsIInv
<1>3. CASE clientfd # NoConn /\ ReadEof
  <2>1. /\ clientfd' = NoConn /\ idle' = 0
        /\ UNCHANGED <<rbuf, wbuf, closeAfterWrite, ioRead, ioWrite, conn, asked, got>>
    BY <1>3 DEF ReadEof
  <2>2. Kept'
    BY <2>1 DEF IInv, TypeOK, Kept, Fresh
  <2> QED
    BY Zenon, <1>1, <2>1, <2>2, NoClientKeepsIInv DEF IInv, TypeOK
<1>4. CASE clientfd # NoConn /\ ReadPart(clientfd)
  <2>1. /\ idle' = 0 /\ rbuf' = clientfd
        /\ UNCHANGED <<clientfd, wbuf, closeAfterWrite, ioRead, ioWrite, conn, asked, got>>
    BY <1>4 DEF ReadPart
  <2>2. TypeOK'
    BY Zenon, <1>1, <2>1 DEF IInv, TypeOK
  <2> QED
    BY Zenon, <1>1, <2>1, <2>2 DEF IInv, Fresh, Serving, AnswersInOrder, AnswerMoves
<1>5. CASE clientfd # NoConn /\ ReadLine(clientfd)
  <2>1. idle' = 0 /\ rbuf' = NoConn
    BY <1>5 DEF ReadLine
  <2>2. CASE asked[clientfd] < MaxLines /\ ParseCommand(clientfd)
    BY <1>1, <1>5, <2>1, <2>2, CommandKeepsIInv
  <2>3. CASE ParseQuit
    <3>1. /\ clientfd' = NoConn /\ Closed(clientfd) /\ wbuf' = wbuf \o Answer("answer")
          /\ ioRead' = Stop(ioRead) /\ ioWrite' = Stop(Start(ioWrite))
          /\ closeAfterWrite' = (closeAfterWrite \/ http)
      BY Zenon, <2>3 DEF ParseQuit
    <3>2. clientfd \in Conns /\ Kept /\ ioWrite.fd \in Conns
      BY <1>5 DEF IInv, TypeOK, Serving, Kept
    <3>3. Kept'
      BY <3>1, <3>2, ClosedKeeps
    <3>4. ioRead' \in Watcher /\ ioWrite' \in Watcher
      BY Zenon, <3>1, <3>2, WatcherType DEF IInv, TypeOK
    <3>5. wbuf' \in Seq(Piece)
      BY Zenon, <3>1, AnswerType, ConcatProperties DEF IInv, TypeOK
    <3>6. closeAfterWrite' \in BOOLEAN
      BY Zenon, <3>1
    <3> QED
      BY Zenon, <1>1, <2>1, <3>1, <3>3, <3>4, <3>5, <3>6, NoClientKeepsIInv DEF IInv, TypeOK
  <2>4. CASE ParseNothing
    <3>1. TypeOK'
      BY Zenon, <1>1, <2>1, <2>4 DEF ParseNothing, IInv, TypeOK
    <3> QED
      BY Zenon, <1>1, <2>1, <2>4, <3>1
         DEF ParseNothing, IInv, Fresh, Serving, AnswersInOrder, AnswerMoves
  <2> QED
    BY <1>5, <2>2, <2>3, <2>4 DEF ReadLine
<1> QED
  BY <1>2, <1>3, <1>4, <1>5 DEF Read

(* Pieces that are written move from wbuf to what the client has got.      *)
LEMMA SendSomeKeepsIInv ==
    ASSUME IInv, clientfd # NoConn, NEW n \in 1 .. Len(wbuf), SendSome(n),
           idle' = (IF clientfd' = NoConn THEN 0 ELSE idle),
           UNCHANGED <<http, rbuf, closeAfterWrite>>
    PROVE  IInv'
<1> DEFINE c == clientfd
           rest == Shift(wbuf, n)
<1>1. /\ c \in Conns /\ conn[c] \notin {"none", "queued"} /\ ioWrite \in Watcher
      /\ ioWrite.fd \in Conns /\ Answers(got[c] \o wbuf, asked[c])
      /\ wbuf \in Seq(Piece) /\ got[c] \in Seq(Piece)
  BY DEF IInv, TypeOK, Serving, AnswersInOrder, AnswerMoves
<1>2. /\ rest \in Seq(Piece) /\ got[c] \o SubSeq(wbuf, 1, n) \in Seq(Piece)
      /\ (got[c] \o SubSeq(wbuf, 1, n)) \o rest = got[c] \o wbuf
  BY Zenon, <1>1, SentIsMoved
<1>3. wbuf' = rest /\ 0 \in 0 .. CtrlTimeout - 1
  BY SMT, BoundsAssumption DEF SendSome
<1>4. CASE CloseClient
  <2>1. Kept' /\ clientfd' = NoConn /\ ioRead' \in Watcher /\ ioWrite' \in Watcher
    BY <1>4, CloseKeeps
  <2>2. idle' = 0
    BY <2>1
  <2> QED
    BY Zenon, <1>2, <1>3, <2>1, <2>2, NoClientKeepsIInv DEF IInv, TypeOK
<1>5. CASE /\ ~(closeAfterWrite /\ rest = <<>>)
           /\ ioWrite' = (IF rest = <<>> THEN Stop(ioWrite) ELSE ioWrite)
           /\ got' = [got EXCEPT ![c] = got[c] \o SubSeq(wbuf, 1, n)]
           /\ UNCHANGED <<clientfd, ioRead, conn, asked>>
  <2>1. ioWrite' \in Watcher /\ ioWrite'.fd \in Conns
    <3>1. Stop(ioWrite) \in Watcher /\ Stop(ioWrite).fd = ioWrite.fd
      BY Zenon, <1>1 DEF Stop, Watcher
    <3> QED
      BY Zenon, <1>1, <1>5, <3>1
  <2>2. got' \in [Conns -> Seq(Piece)] /\ got'[c] = got[c] \o SubSeq(wbuf, 1, n)
    BY Zenon, <1>1, <1>2, <1>5 DEF IInv, TypeOK
  <2>3. idle' = idle
    BY <1>5
  <2>4. TypeOK'
    BY Zenon, <1>2, <1>3, <1>5, <2>1, <2>2, <2>3 DEF IInv, TypeOK
  <2>5. Fresh'
    BY <1>1, <1>5 DEF IInv, TypeOK, Fresh
  <2>6. Serving'
    BY Zenon, <1>5, <2>1 DEF IInv, Serving
  <2>7. AnswersInOrder'
    BY Zenon, <1>1, <1>2, <1>3, <1>5, <2>2 DEF AnswersInOrder
  <2>8. wbuf # <<>>
    BY SMT
  <2>9. AnswerMoves'
    BY Zenon, <1>3, <1>5, <2>6, <2>8 DEF IInv, Serving, AnswerMoves
  <2> QED
    BY Zenon, <2>4, <2>5, <2>6, <2>7, <2>9 DEF IInv
<1> QED
  BY <1>4, <1>5 DEF SendSome

LEMMA SendKeepsIInv ==
    ASSUME IInv, Send
    PROVE  IInv'
<1>1. /\ idle' = (IF clientfd' = NoConn THEN 0 ELSE idle)
      /\ UNCHANGED <<http, rbuf, closeAfterWrite>> /\ 0 \in 0 .. CtrlTimeout - 1
  BY SMT, BoundsAssumption DEF Send
<1>2. ASSUME clientfd # NoConn, NEW n \in 1 .. Len(wbuf), SendSome(n)
      PROVE  IInv'
  BY <1>1, <1>2, SendSomeKeepsIInv
<1>3. CASE SendFails
  <2>1. CloseClient /\ wbuf' = wbuf
    BY <1>3 DEF SendFails
  <2>2. Kept' /\ clientfd' = NoConn /\ ioRead' \in Watcher /\ ioWrite' \in Watcher
    BY <2>1, CloseKeeps
  <2>3. idle' = 0
    BY <1>1, <2>2
  <2> QED
    BY Zenon, <1>1, <2>1, <2>2, <2>3, NoClientKeepsIInv DEF IInv, TypeOK
<1>4. CASE SendNothing
  <2>1. UNCHANGED <<clientfd, wbuf, ioRead, ioWrite, conn, asked, got>>
    BY <1>4 DEF SendNothing
  <2>2. idle' \in 0 .. CtrlTimeout - 1
    BY <1>1 DEF IInv, TypeOK
  <2>3. TypeOK'
    BY Zenon, <1>1, <2>1, <2>2 DEF IInv, TypeOK
  <2> QED
    BY <1>1, <2>1, <2>3 DEF IInv, Fresh, Serving, AnswersInOrder, AnswerMoves
<1> QED
  BY <1>2, <1>3, <1>4 DEF Send

(* What clients do changes the state of their connections only.            *)
LEMMA ClientKeepsIInv ==
    ASSUME IInv, NEW c \in Conns, Connect(c) \/ ShutDown(c) \/ Reset(c)
    PROVE  IInv'
<1>1. PICK to \in {"queued", "shut", "reset"} :
         /\ conn' = [conn EXCEPT ![c] = to]
         /\ to = "queued" => conn[c] = "none"
  BY DEF Connect, ShutDown, Reset, Client
<1>2. UNCHANGED <<http, clientfd, rbuf, wbuf, closeAfterWrite, idle, ioRead, ioWrite, asked, got>>
  BY DEF Connect, ShutDown, Reset, Client, ctrl
<1>3. conn' \in [Conns -> ConnState]
  BY <1>1 DEF IInv, TypeOK, ConnState
<1>4. TypeOK'
  BY Zenon, <1>2, <1>3 DEF IInv, TypeOK
<1>5. Fresh'
  BY <1>1, <1>2 DEF IInv, TypeOK, Fresh
<1>6. Serving' /\ AnswersInOrder' /\ AnswerMoves'
  BY <1>1, <1>2 DEF IInv, TypeOK, Serving, AnswersInOrder, AnswerMoves
<1> QED
  BY <1>4, <1>5, <1>6 DEF IInv

LEMMA InitIInv == Init => IInv
<1> SUFFICES ASSUME Init
             PROVE  IInv
  OBVIOUS
<1>1. 0 \in 0 .. CtrlTimeout - 1 /\ 0 \in 0 .. MaxLines /\ <<>> \in Seq(Piece)
  BY SMT, BoundsAssumption
<1>2. Idle \in Watcher
  BY Zenon DEF Idle, Watcher
<1>3. TypeOK
  BY Zenon, <1>1, <1>2 DEF Init, TypeOK, ConnState
<1>4. Fresh
  BY DEF Init, Fresh
<1> QED
  BY <1>3, <1>4 DEF Init, IInv, Serving, AnswersInOrder, AnswerMoves

LEMMA NextKeepsIInv ==
    ASSUME IInv, [Next]_vars
    PROVE  IInv'
<1>1. CASE UNCHANGED vars
  BY Zenon, <1>1 DEF vars, ctrl, IInv, TypeOK, Fresh, Serving, AnswersInOrder, AnswerMoves
<1> QED
  BY <1>1, AcceptKeepsIInv, TimeoutKeepsIInv, ReadKeepsIInv, SendKeepsIInv, ClientKeepsIInv
     DEF Next

LEMMA IInvHolds == Spec => []IInv
BY InitIInv, NextKeepsIInv, PTL DEF Spec

-----------------------------------------------------------------------------
(* The variables keep their types; in particular a client is gone before   *)
(* it has been idle for MLVPN_CTRL_TIMEOUT seconds.                        *)
THEOREM TypeCorrect == Spec => []TypeOK
<1>1. IInv => TypeOK
  BY DEF IInv
<1> QED
  BY <1>1, IInvHolds, PTL

(* A client of the control socket is sent the answers to its commands, all *)
(* of them, in order, and nothing that was meant for another.              *)
THEOREM OwnAnswers == Spec => []AnswersInOrder
<1>1. IInv => AnswersInOrder
  BY DEF IInv
<1> QED
  BY <1>1, IInvHolds, PTL

(* No answer on the control socket gets stuck: what waits is watched, and  *)
(* in HTTP mode the client that was sent all of it is closed.              *)
THEOREM NoAnswerStuck == Spec => []AnswerMoves
<1>1. IInv => AnswerMoves
  BY DEF IInv
<1> QED
  BY <1>1, IInvHolds, PTL

-----------------------------------------------------------------------------
(* The buffer for the device: indices that wrap.                           *)

LEMMA ModSame ==
    ASSUME NEW n \in Nat \ {0}, NEW x \in 0 .. n - 1
    PROVE  x % n = x
BY SMTT(30)

LEMMA ModOnce ==
    ASSUME NEW n \in Nat \ {0}, NEW x \in n .. 2 * n - 1
    PROVE  x % n = x - n
BY SMTT(30)

LEMMA ModBelow ==
    ASSUME NEW n \in Nat \ {0}, NEW x \in -n + 1 .. -1
    PROVE  x % n = x + n
BY SMTT(30)

(* The slot i places after slot a.                                         *)
Place(a, i) == IF a + i <= BufSize THEN a + i ELSE a + i - CbSize

(* The way from slot a to slot b.                                          *)
Way(a, b) == IF a <= b THEN b - a ELSE b - a + CbSize

LEMMA SizeType == BufSize \in Nat \ {0} /\ CbSize \in Nat \ {0} /\ CbSize = BufSize + 1
BY SMT, BufSizeAssumption DEF CbSize

LEMMA PlaceIsMod ==
    ASSUME NEW a \in Slots, NEW i \in Slots
    PROVE  (a + i) % CbSize = Place(a, i)
<1>1. CASE a + i <= BufSize
  <2>1. a + i \in 0 .. CbSize - 1
    BY SMT, <1>1, SizeType DEF Slots
  <2> QED
    BY <1>1, <2>1, SizeType, ModSame DEF Place
<1>2. CASE ~(a + i <= BufSize)
  <2>1. a + i \in CbSize .. 2 * CbSize - 1
    BY SMT, <1>2, SizeType DEF Slots
  <2>2. (a + i) % CbSize = (a + i) - CbSize
    BY Zenon, <2>1, SizeType, ModOnce
  <2>3. Place(a, i) = (a + i) - CbSize
    BY SMT, <1>2, SizeType DEF Place, Slots
  <2> QED
    BY Zenon, <2>2, <2>3
<1> QED
  BY <1>1, <1>2

LEMMA WayIsMod ==
    ASSUME NEW a \in Slots, NEW b \in Slots
    PROVE  (b - a) % CbSize = Way(a, b)
<1>1. CASE a <= b
  <2>1. b - a \in 0 .. CbSize - 1
    BY SMT, <1>1, SizeType DEF Slots
  <2> QED
    BY <1>1, <2>1, SizeType, ModSame DEF Way
<1>2. CASE ~(a <= b)
  <2>1. b - a \in -CbSize + 1 .. -1
    BY SMT, <1>2, SizeType DEF Slots
  <2> QED
    BY <1>2, <2>1, SizeType, ModBelow DEF Way
<1> QED
  BY <1>1, <1>2

LEMMA AfterIsPlace ==
    ASSUME NEW a \in Slots
    PROVE  After(a) = Place(a, 1) /\ After(a) \in Slots
<1>1. 1 \in Slots
  BY SMT, SizeType DEF Slots
<1>2. After(a) = Place(a, 1)
  BY <1>1, PlaceIsMod DEF After
<1> QED
  BY SMT, <1>2, SizeType DEF Place, Slots

-----------------------------------------------------------------------------
(* The inductive invariant, without the remainders: the queue lies between *)
(* the two indices.                                                        *)

Lies(b, q) ==
    /\ Len(q) = Way(b.start, b.end)
    /\ \A i \in 1 .. Len(q) : q[i] = b.pkts[Place(b.start, i - 1)]

TuntapInv == TuntapTypeOK /\ Lies(sbuf, queue) /\ WriterHasWork

LEMMA LiesIsHolds ==
    ASSUME TuntapTypeOK
    PROVE  Lies(sbuf, queue) <=> HoldsNewest
<1>1. sbuf.start \in Slots /\ sbuf.end \in Slots
  BY DEF TuntapTypeOK
<1>2. (sbuf.end - sbuf.start) % CbSize = Way(sbuf.start, sbuf.end)
  BY <1>1, WayIsMod
<1>3. Way(sbuf.start, sbuf.end) \in Slots
  BY SMT, <1>1, SizeType DEF Way, Slots
<1>4. ASSUME Len(queue) = Way(sbuf.start, sbuf.end), NEW i \in 1 .. Len(queue)
      PROVE  (sbuf.start + i - 1) % CbSize = Place(sbuf.start, i - 1)
  <2>1. Len(queue) \in Slots
    BY Zenon, <1>3, <1>4
  <2>2. i - 1 \in Slots /\ sbuf.start + i - 1 = sbuf.start + (i - 1)
    BY SMT, <1>1, <2>1, SizeType DEF Slots
  <2>3. (sbuf.start + (i - 1)) % CbSize = Place(sbuf.start, i - 1)
    BY Zenon, <1>1, <2>2, PlaceIsMod
  <2> QED
    BY Zenon, <2>2, <2>3
<1> QED
  BY <1>2, <1>4 DEF Lies, HoldsNewest

LEMMA TuntapInitInv == TuntapInit => TuntapInv
<1> SUFFICES ASSUME TuntapInit
             PROVE  TuntapInv
  OBVIOUS
<1>1. sbuf = NewBuf /\ tunWrite = FALSE /\ queue = <<>> /\ 0 \in Slots
  BY SMT, SizeType DEF TuntapInit, Slots
<1>2. TuntapTypeOK
  <2>1. queue \in Seq(Pkts)
    BY <1>1
  <2>2. sbuf \in [start : Slots, end : Slots, pkts : [Slots -> Pkts \cup {Blank}]]
    BY <1>1 DEF NewBuf
  <2> QED
    BY Zenon, <1>1, <2>1, <2>2 DEF TuntapTypeOK
<1>3. Lies(sbuf, queue)
  BY SMTT(30), <1>1, SizeType DEF Lies, NewBuf, Way, Slots
<1>4. WriterHasWork
  BY <1>1 DEF WriterHasWork, CbIsEmpty, NewBuf
<1> QED
  BY <1>2, <1>3, <1>4 DEF TuntapInv

(* Slots on the way from the oldest to the newest.                         *)
LEMMA PlaceNext ==
    ASSUME NEW a \in Slots, NEW b \in Slots
    PROVE  /\ Way(a, b) \in Slots
           /\ Place(a, Way(a, b)) = b
           /\ \A i \in Slots : Place(a, i) \in Slots /\ (i < Way(a, b) => Place(a, i) # b)
           /\ \A i \in 0 .. BufSize - 1 : Place(After(a), i) = Place(a, i + 1)
           /\ After(b) = a <=> Way(a, b) = BufSize
           /\ After(b) # a => Way(a, After(b)) = Way(a, b) + 1
           /\ a # b => Way(After(a), b) = Way(a, b) - 1
           /\ After(b) = a => Way(After(a), After(b)) = Way(a, b)
           /\ a = b <=> Way(a, b) = 0
<1>1. After(a) = Place(a, 1) /\ After(b) = Place(b, 1)
  BY AfterIsPlace
<1> QED
  BY SMTT(60), <1>1, SizeType DEF Place, Way, Slots

(* mlvpn_cb_write                                                          *)
LEMMA WriteKeepsLies ==
    ASSUME TuntapTypeOK, Lies(sbuf, queue), NEW p \in Pkts
    PROVE  /\ Lies(CbWrite(sbuf, p), Newest(queue, p))
           /\ CbWrite(sbuf, p) \in [start : Slots, end : Slots, pkts : [Slots -> Pkts \cup {Blank}]]
           /\ Newest(queue, p) \in Seq(Pkts)
           /\ ~CbIsEmpty(CbWrite(sbuf, p))
<1> DEFINE a == sbuf.start
           b == sbuf.end
           r == CbWrite(sbuf, p)
           q == Newest(queue, p)
<1>1. a \in Slots /\ b \in Slots /\ sbuf.pkts \in [Slots -> Pkts \cup {Blank}] /\ queue \in Seq(Pkts)
  BY DEF TuntapTypeOK
<1>2. /\ r.start = IF After(b) = a THEN After(a) ELSE a
      /\ r.end = After(b)
      /\ r.pkts = [sbuf.pkts EXCEPT ![b] = p]
  BY Zenon DEF CbWrite
<1>3. After(a) \in Slots /\ After(b) \in Slots
  BY <1>1, AfterIsPlace
<1>4. r \in [start : Slots, end : Slots, pkts : [Slots -> Pkts \cup {Blank}]]
  <2>1. [sbuf.pkts EXCEPT ![b] = p] \in [Slots -> Pkts \cup {Blank}]
    BY Zenon, <1>1
  <2> QED
    BY Zenon, <1>1, <1>3, <2>1 DEF CbWrite
<1>5. Len(queue) = Way(a, b) /\ \A i \in 1 .. Len(queue) : queue[i] = sbuf.pkts[Place(a, i - 1)]
  BY DEF Lies
<1> HIDE DEF a, b, r, q
<1>6. /\ Way(a, b) \in Slots /\ Place(a, Way(a, b)) = b /\ Len(queue) \in Slots
      /\ \A i \in Slots : Place(a, i) \in Slots /\ (i < Way(a, b) => Place(a, i) # b)
  BY <1>1, <1>5, PlaceNext
<1>7. \A x \in Slots : r.pkts[x] = IF x = b THEN p ELSE sbuf.pkts[x]
  BY Zenon, <1>1, <1>2
<1>8. CASE After(b) # a
  <2>1. /\ q = Append(queue, p) /\ r.start = a /\ Way(a, r.end) = Len(queue) + 1
    <3>1. Way(a, b) # BufSize /\ Way(a, After(b)) = Way(a, b) + 1
      BY <1>1, <1>8, PlaceNext
    <3>2. Len(queue) < BufSize
      <4>1. Len(queue) \in Slots /\ Len(queue) # BufSize
        BY Zenon, <3>1, <1>5, <1>6
      <4> QED
        BY SMT, <4>1, SizeType DEF Slots
    <3>3. q = Append(queue, p)
      BY Zenon, <3>2 DEF q, Newest
    <3>4. r.start = a /\ r.end = After(b)
      BY Zenon, <1>2, <1>8
    <3> QED
      BY Zenon, <1>5, <3>1, <3>3, <3>4
  <2>2. /\ q \in Seq(Pkts) /\ Len(q) = Len(queue) + 1 /\ q[Len(queue) + 1] = p
        /\ \A i \in 1 .. Len(queue) : q[i] = queue[i]
    BY <1>1, <2>1, AppendProperties
  <2>3. ASSUME NEW i \in 1 .. Len(queue)
        PROVE  q[i] = r.pkts[Place(a, i - 1)]
    <3>1. i - 1 \in Slots /\ i - 1 < Len(queue)
      <4>1. Len(queue) \in Slots
        BY Zenon, <1>6
      <4> QED
        BY SMT, <4>1, SizeType DEF Slots
    <3>2. i - 1 < Way(a, b)
      BY Zenon, <1>5, <3>1
    <3>3. Place(a, i - 1) \in Slots /\ Place(a, i - 1) # b
      BY Zenon, <1>6, <3>1, <3>2
    <3> QED
      BY Zenon, <1>5, <1>7, <2>2, <3>3
  <2>4. q[Len(queue) + 1] = r.pkts[Place(a, Len(queue))]
    BY <1>1, <1>5, <1>6, <1>7, <2>2
  <2>5. \A i \in 1 .. Len(q) : q[i] = r.pkts[Place(a, i - 1)]
    <3> SUFFICES ASSUME NEW i \in 1 .. Len(q)
                 PROVE  q[i] = r.pkts[Place(a, i - 1)]
      OBVIOUS
    <3>1. i \in 1 .. Len(queue) \/ (i = Len(queue) + 1 /\ i - 1 = Len(queue))
      BY SMT, <1>6, <2>2 DEF Slots
    <3> QED
      BY <2>3, <2>4, <3>1
  <2>6. r.start # r.end
    BY <1>2, <1>8, <2>1
  <2> QED
    BY <2>1, <2>2, <2>5, <2>6, <1>4 DEF Lies, CbIsEmpty, r, q
<1>9. CASE After(b) = a
  <2>1. Len(queue) = BufSize /\ r.start = After(a) /\ r.end = a /\ Way(After(a), a) = BufSize
    <3>1. Way(a, b) = BufSize /\ Way(After(a), After(b)) = Way(a, b)
      BY <1>1, <1>9, PlaceNext
    <3> QED
      BY Zenon, <1>2, <1>5, <1>9, <3>1
  <2>2. q = Append(Tail(queue), p)
    <3>1. ~(Len(queue) < BufSize)
      BY SMT, <2>1, SizeType
    <3> QED
      BY Zenon, <3>1 DEF q, Newest
  <2>3. /\ Tail(queue) \in Seq(Pkts) /\ Len(Tail(queue)) = BufSize - 1
        /\ \A i \in 1 .. BufSize - 1 : Tail(queue)[i] = queue[i + 1]
    <3>1. queue # <<>>
      BY <2>1, SizeType
    <3> QED
      BY <1>1, <2>1, <3>1, HeadTailProperties
  <2>4. /\ q \in Seq(Pkts) /\ Len(q) = BufSize /\ q[BufSize] = p
        /\ \A i \in 1 .. BufSize - 1 : q[i] = Tail(queue)[i]
    BY <2>2, <2>3, SizeType, AppendProperties
  <2>5. \A i \in 0 .. BufSize - 1 : Place(After(a), i) = Place(a, i + 1)
    BY Zenon, <1>1, PlaceNext
  <2>6. ASSUME NEW i \in 1 .. BufSize - 1
        PROVE  q[i] = r.pkts[Place(After(a), i - 1)]
    <3>1. /\ i - 1 \in 0 .. BufSize - 1 /\ (i - 1) + 1 = i /\ i \in Slots /\ i < BufSize
          /\ i + 1 \in 1 .. BufSize /\ (i + 1) - 1 = i
      BY SMT, SizeType DEF Slots
    <3>2. Place(After(a), i - 1) = Place(a, i)
      BY Zenon, <2>5, <3>1
    <3>3. Place(a, i) \in Slots /\ Place(a, i) # b
      BY Zenon, <1>5, <1>6, <2>1, <3>1
    <3>4. queue[i + 1] = sbuf.pkts[Place(a, i)]
      BY Zenon, <1>5, <2>1, <3>1
    <3> QED
      BY Zenon, <1>7, <2>3, <2>4, <3>2, <3>3, <3>4
  <2>7. q[BufSize] = r.pkts[Place(After(a), BufSize - 1)]
    <3>1. BufSize - 1 \in 0 .. BufSize - 1 /\ (BufSize - 1) + 1 = BufSize
      BY SMT, SizeType
    <3>2. Place(After(a), BufSize - 1) = b
      BY Zenon, <1>5, <1>6, <2>1, <2>5, <3>1
    <3> QED
      BY Zenon, <1>1, <1>7, <2>4, <3>2
  <2>8. \A i \in 1 .. Len(q) : q[i] = r.pkts[Place(After(a), i - 1)]
    <3> SUFFICES ASSUME NEW i \in 1 .. Len(q)
                 PROVE  q[i] = r.pkts[Place(After(a), i - 1)]
      OBVIOUS
    <3>1. i \in 1 .. BufSize - 1 \/ i = BufSize
      BY SMT, <2>4, SizeType
    <3> QED
      BY <2>6, <2>7, <3>1
  <2>9. r.start # r.end
    <3>1. Way(After(a), a) # 0
      BY <2>1, SizeType
    <3> QED
      BY <1>1, <1>3, <2>1, <3>1, PlaceNext
  <2> QED
    BY Zenon, <2>1, <2>4, <2>8, <2>9, <1>4 DEF Lies, CbIsEmpty, r, q
<1> QED
  BY <1>8, <1>9

(* mlvpn_cb_read                                                           *)
LEMMA ReadKeepsLies ==
    ASSUME TuntapTypeOK, Lies(sbuf, queue), ~CbIsEmpty(sbuf)
    PROVE  /\ Lies(CbRead(sbuf), Tail(queue))
           /\ CbRead(sbuf) \in [start : Slots, end : Slots, pkts : [Slots -> Pkts \cup {Blank}]]
           /\ Tail(queue) \in Seq(Pkts)
<1> DEFINE a == sbuf.start
           b == sbuf.end
           r == CbRead(sbuf)
<1>1. a \in Slots /\ b \in Slots /\ sbuf.pkts \in [Slots -> Pkts \cup {Blank}] /\ queue \in Seq(Pkts)
  BY DEF TuntapTypeOK
<1>2. r.start = After(a) /\ r.end = b /\ r.pkts = sbuf.pkts
  BY DEF CbRead, TuntapTypeOK
<1>3. After(a) \in Slots
  BY <1>1, AfterIsPlace
<1>4. r \in [start : Slots, end : Slots, pkts : [Slots -> Pkts \cup {Blank}]]
  BY Zenon, <1>1, <1>3 DEF CbRead, TuntapTypeOK
<1>5. /\ Len(queue) = Way(a, b)
      /\ \A i \in 1 .. Len(queue) : queue[i] = sbuf.pkts[Place(a, i - 1)]
  BY DEF Lies
<1>6. a # b
  BY DEF CbIsEmpty
<1> HIDE DEF a, b, r
<1>7. Way(a, b) \in Slots /\ Way(a, b) # 0 /\ Way(After(a), b) = Way(a, b) - 1
  BY <1>1, <1>6, PlaceNext
<1>8. /\ Tail(queue) \in Seq(Pkts) /\ Len(Tail(queue)) = Len(queue) - 1
      /\ \A i \in 1 .. Len(queue) - 1 : Tail(queue)[i] = queue[i + 1]
  <2>1. queue # <<>>
    BY <1>5, <1>7
  <2> QED
    BY <1>1, <2>1, HeadTailProperties
<1>9. ASSUME NEW i \in 1 .. Len(queue) - 1
      PROVE  Tail(queue)[i] = r.pkts[Place(After(a), i - 1)]
  <2>1. Len(queue) \in Slots
    BY <1>5, <1>7
  <2>2. i - 1 \in 0 .. BufSize - 1 /\ (i - 1) + 1 = i /\ i + 1 \in 1 .. Len(queue) /\ (i + 1) - 1 = i
    BY SMT, <2>1, SizeType DEF Slots
  <2>3. Place(After(a), i - 1) = Place(a, i)
    <3>1. \A j \in 0 .. BufSize - 1 : Place(After(a), j) = Place(a, j + 1)
      BY Zenon, <1>1, PlaceNext
    <3> QED
      BY Zenon, <2>2, <3>1
  <2>4. queue[i + 1] = sbuf.pkts[Place(a, i)]
    BY Zenon, <1>5, <2>2
  <2> QED
    BY Zenon, <1>2, <1>8, <2>3, <2>4
<1> QED
  BY Zenon, <1>2, <1>4, <1>5, <1>7, <1>8, <1>9 DEF Lies, r

LEMMA TuntapNextInv ==
    ASSUME TuntapInv, [TuntapNext]_tuntapVars
    PROVE  TuntapInv'
<1>1. CASE UNCHANGED tuntapVars
  BY <1>1 DEF tuntapVars, TuntapInv, TuntapTypeOK, WriterHasWork
<1>2. ASSUME NEW p \in Pkts, InjectTuntap(p)
      PROVE  TuntapInv'
  BY Zenon, <1>2, WriteKeepsLies DEF InjectTuntap, TuntapInv, TuntapTypeOK, WriterHasWork
<1>3. CASE TuntapIoEvent
  <2>1. ~CbIsEmpty(sbuf)
    BY <1>3 DEF TuntapIoEvent, TuntapWrite, TuntapInv, WriterHasWork
  <2>2. tunWrite' \in BOOLEAN /\ WriterHasWork'
    BY Zenon, <1>3 DEF TuntapIoEvent, TuntapWrite, WriterHasWork
  <2>3. /\ Lies(sbuf', queue') /\ queue' \in Seq(Pkts)
        /\ sbuf' \in [start : Slots, end : Slots, pkts : [Slots -> Pkts \cup {Blank}]]
    BY Zenon, <1>3, <2>1, ReadKeepsLies DEF TuntapIoEvent, TuntapWrite, TuntapInv
  <2> QED
    BY Zenon, <2>2, <2>3 DEF TuntapInv, TuntapTypeOK
<1> QED
  BY <1>1, <1>2, <1>3 DEF TuntapNext

-----------------------------------------------------------------------------
(* The round robin.                                                        *)

LEMMA WrrInitType == WrrInit => WrrTypeOK
BY SMTT(30), UnitAssumption, MaxChosenAssumption, PeriodsAssumption DEF WrrInit, WrrTypeOK, Tuns

LEMMA WrrNextType ==
    ASSUME WrrTypeOK, [WrrNext]_wrrVars
    PROVE  WrrTypeOK'
<1>1. CASE UNCHANGED wrrVars
  BY <1>1 DEF wrrVars, WrrTypeOK, Tuns
<1>2. ASSUME NEW tuns \in SUBSET Tuns, WrrReset(tuns)
      PROVE  WrrTypeOK'
  BY SMTT(30), <1>2, UnitAssumption, MaxChosenAssumption, PeriodsAssumption
     DEF WrrReset, WrrTypeOK, Tuns
<1>3. CASE WrrChoose
  <2> DEFINE idx == MinIndex
  <2>1. /\ Choose(idx) /\ chosen[idx] < MaxChosen
        /\ chosen' = [chosen EXCEPT ![idx] = @ + 1]
        /\ period' = period /\ ready' = ready
    BY <1>3, Zenon DEF WrrChoose
  <2> HIDE DEF idx
  <2>2. Tuns' = Tuns
    BY <2>1 DEF Tuns
  <2>3. ASSUME NEW t \in Tuns
        PROVE  tunval'[t] \in -Unit + 1 .. period[t]
    <3>1. period[t] \in Nat /\ Unit \in Nat \ {0} /\ tunval[t] \in -Unit + 1 .. period[t]
      BY UnitAssumption, PeriodsAssumption DEF WrrTypeOK, Tuns
    <3>2. tunval'[t] \in {period[t], CountDown(t), tunval[t]}
      BY <2>1 DEF Choose
    <3> QED
      BY SMTT(30), <3>1, <3>2 DEF CountDown
  <2>4. chosen' \in [Tuns -> 0 .. MaxChosen]
    <3>1. chosen \in [Tuns -> 0 .. MaxChosen]
      BY DEF WrrTypeOK
    <3>2. idx \in Tuns => chosen[idx] + 1 \in 0 .. MaxChosen
      BY SMTT(30), <2>1, <3>1, MaxChosenAssumption
    <3> QED
      BY Zenon, <2>1, <3>1, <3>2
  <2> QED
    BY <2>1, <2>2, <2>3, <2>4 DEF WrrTypeOK
<1> QED
  BY <1>1, <1>2, <1>3 DEF WrrNext

-----------------------------------------------------------------------------
(* The loss vector.  What came in time is not newer than the newest.       *)

WireInv ==
    /\ WireTypeOK /\ NoLossHidden /\ HeardCounted
    /\ \A n \in heard : n <= seqLast

LEMMA WireInitInv == WireInit => WireInv
<1> SUFFICES ASSUME WireInit
             PROVE  WireInv
  OBVIOUS
<1>1. WireTypeOK
  <2>1. undefined \in BOOLEAN
    BY Zenon DEF WireInit
  <2>2. seq = 0 /\ seqLast = 0 /\ base = 1 /\ net = {} /\ arrived = {} /\ heard = {} /\ vect = Bits
    BY DEF WireInit
  <2>3. 0 \in 0 .. MaxSeq /\ 1 \in Nat
    BY SMT, SeqAssumption
  <2> QED
    BY Zenon, <2>1, <2>2, <2>3 DEF WireTypeOK
<1>2. NoLossHidden
  BY SMTT(30), WidthAssumption DEF WireInit, NoLossHidden, Bits
<1>3. HeardCounted /\ \A n \in heard : n <= seqLast
  BY DEF WireInit, HeardCounted
<1> QED
  BY <1>1, <1>2, <1>3 DEF WireInv

(* A packet far ahead: the vector starts again with all bits set.          *)
LEMMA ResetKeepsInv ==
    ASSUME WireInv, NEW s \in 0 .. MaxSeq, LossReset(s), arrived' = arrived \cup {s},
           seq' \in 0 .. MaxSeq, net' \subseteq 0 .. MaxSeq
    PROVE  WireInv'
<1>1. WireTypeOK'
  BY SMTT(30), SeqAssumption DEF WireInv, WireTypeOK, LossReset, Bits
<1>2. NoLossHidden'
  BY SMTT(30), SeqAssumption, WidthAssumption
     DEF WireInv, WireTypeOK, LossReset, Bits, NoLossHidden
<1>3. HeardCounted' /\ \A n \in heard' : n <= seqLast'
  BY SMTT(30), SeqAssumption, WidthAssumption
     DEF WireInv, WireTypeOK, LossReset, Bits, HeardCounted
<1> QED
  BY <1>1, <1>2, <1>3 DEF WireInv

(* A newer packet: the vector is shifted by what was skipped.              *)
LEMMA NewerKeepsInv ==
    ASSUME WireInv, NEW s \in 0 .. MaxSeq, LossNewer(s), arrived' = arrived \cup {s},
           seq' \in 0 .. MaxSeq, net' \subseteq 0 .. MaxSeq
    PROVE  WireInv'
<1> DEFINE n == s - seqLast
<1>1. n \in Int /\ 0 < n /\ n <= W /\ seqLast' = s /\ base' = base /\ heard' = heard \cup {s}
  BY SMTT(30), WidthAssumption, SeqAssumption DEF LossNewer, WireInv, WireTypeOK
<1>2. undefined' = (undefined \/ n = W)
  BY DEF LossNewer
<1>3. n # W => vect' = Shifted(n) \cup {0}
  BY DEF LossNewer
<1>4. vect' \subseteq Bits
  <2>1. vect \subseteq Bits /\ 0 \in Bits /\ Shifted(n) \subseteq Bits
    BY SMTT(30), WidthAssumption DEF WireInv, WireTypeOK, Bits, Shifted
  <2> QED
    BY SMTT(30), <2>1 DEF LossNewer
<1>5. WireTypeOK'
  BY SMTT(30), <1>1, <1>2, <1>4, SeqAssumption DEF WireInv, WireTypeOK, Bits
<1>6. NoLossHidden'
  <2> SUFFICES ASSUME ~undefined', NEW b \in vect'
               PROVE  s - b < base \/ s - b \in arrived \cup {s}
    BY <1>1 DEF NoLossHidden
  <2>1. ~undefined /\ n # W
    BY Zenon, <1>2
  <2>2. CASE b = 0
    BY SMTT(30), <2>2
  <2>3. CASE b \in Shifted(n)
    <3>1. PICK a \in vect : b = a + n
      BY <2>3 DEF Shifted
    <3>2. seqLast - a < base \/ seqLast - a \in arrived
      BY <2>1 DEF WireInv, NoLossHidden
    <3>3. s - b = seqLast - a
      BY SMTT(30), <3>1, WidthAssumption, SeqAssumption DEF WireInv, WireTypeOK, Bits
    <3> QED
      BY <3>2, <3>3
  <2> QED
    BY <1>3, <2>1, <2>2, <2>3
<1>7. HeardCounted'
  <2> SUFFICES ASSUME ~undefined', NEW m \in heard \cup {s}, m <= s, s - m < W
               PROVE  s - m \in vect'
    BY <1>1 DEF HeardCounted
  <2>1. ~undefined /\ n # W
    BY Zenon, <1>2
  <2>2. CASE m = s
    BY SMTT(30), <2>1, <2>2, <1>3
  <2>3. CASE m \in heard
    <3>1. m \in Int /\ m <= seqLast /\ seqLast \in Int /\ seqLast - m < W
      BY SMTT(30), <2>3, <1>1, WidthAssumption, SeqAssumption DEF WireInv, WireTypeOK
    <3>2. seqLast - m \in vect
      BY SMTT(30), <2>1, <2>3, <3>1 DEF WireInv, HeardCounted
    <3>3. s - m = (seqLast - m) + n /\ s - m \in Bits
      BY SMTT(30), <3>1, WidthAssumption DEF Bits
    <3> QED
      BY <2>1, <3>2, <3>3, <1>3 DEF Shifted
  <2> QED
    BY <2>2, <2>3
<1>8. \A m \in heard' : m <= seqLast'
  BY SMTT(30), <1>1, SeqAssumption DEF WireInv, WireTypeOK
<1> QED
  BY <1>5, <1>6, <1>7, <1>8 DEF WireInv

(* A late packet sets its bit.                                             *)
LEMMA LateKeepsInv ==
    ASSUME WireInv, NEW s \in 0 .. MaxSeq, LossLate(s), arrived' = arrived \cup {s},
           seq' \in 0 .. MaxSeq, net' \subseteq 0 .. MaxSeq
    PROVE  WireInv'
<1> DEFINE n == seqLast - s
<1>1. /\ n \in 0 .. W - 1 /\ s = seqLast - n /\ seqLast' = seqLast /\ base' = base
      /\ heard' = heard \cup {s} /\ undefined' = (undefined \/ n >= IntW - 1)
      /\ \E b \in IntBit(n) : vect' = vect \cup b
  BY SMTT(30), WidthAssumption, SeqAssumption DEF LossLate, WireInv, WireTypeOK
<1>2. \A b \in IntBit(n) : b \subseteq Bits
  BY SMTT(30), <1>1, WidthAssumption DEF IntBit, Bits
<1>3. n < IntW - 1 => vect' = vect \cup {n}
  BY SMTT(30), <1>1 DEF IntBit
<1>4. WireTypeOK'
  <2>1. undefined' \in BOOLEAN
    BY Zenon, <1>1
  <2>2. vect' \subseteq Bits
    BY Zenon, <1>1, <1>2 DEF WireInv, WireTypeOK
  <2>3. arrived' \subseteq 0 .. MaxSeq /\ heard' \subseteq 0 .. MaxSeq
    BY Zenon, <1>1 DEF WireInv, WireTypeOK
  <2> QED
    BY Zenon, <1>1, <2>1, <2>2, <2>3 DEF WireInv, WireTypeOK
<1>5. ~undefined' => ~undefined /\ vect' = vect \cup {n}
  <2>1. ~(n >= IntW - 1) => n < IntW - 1
    BY SMT, <1>1, WidthAssumption
  <2> QED
    BY Zenon, <1>1, <1>3, <2>1
<1>6. NoLossHidden'
  BY SMTT(30), <1>1, <1>5 DEF WireInv, NoLossHidden
<1>7. HeardCounted'
  BY SMTT(30), <1>1, <1>5 DEF WireInv, HeardCounted
<1>8. \A m \in heard' : m <= seqLast'
  BY SMTT(30), <1>1 DEF LossLate, WireInv
<1> QED
  BY <1>4, <1>6, <1>7, <1>8 DEF WireInv

LEMMA WireNextInv ==
    ASSUME WireInv, [WireNext]_wireVars
    PROVE  WireInv'
<1>1. CASE UNCHANGED receiver /\ seq' \in 0 .. MaxSeq /\ net' \subseteq 0 .. MaxSeq
  BY <1>1 DEF receiver, WireInv, WireTypeOK, NoLossHidden, HeardCounted
<1>2. CASE UNCHANGED wireVars
  BY <1>1, <1>2 DEF wireVars, WireInv, WireTypeOK
<1>3. CASE SendPacket \/ Restart
  <2>1. seq' \in 0 .. MaxSeq /\ net' \subseteq 0 .. MaxSeq
    <3>1. seq \in 0 .. MaxSeq /\ net \subseteq 0 .. MaxSeq
      BY DEF WireInv, WireTypeOK
    <3>2. seq' \in 0 .. MaxSeq
      BY SMTT(30), <1>3, <3>1, SeqAssumption DEF SendPacket, Restart
    <3>3. net' = net \/ net' = net \cup {seq}
      BY <1>3 DEF SendPacket, Restart
    <3> QED
      BY Zenon, <3>1, <3>2, <3>3
  <2> QED
    BY <1>1, <1>3, <2>1 DEF SendPacket, Restart
<1>4. ASSUME NEW s \in net, Receive(s)
      PROVE  WireInv'
  <2>1. /\ s \in 0 .. MaxSeq /\ seq' \in 0 .. MaxSeq /\ net' \subseteq 0 .. MaxSeq
        /\ arrived' = arrived \cup {s}
    BY <1>4 DEF Receive, WireInv, WireTypeOK
  <2>2. CASE LossIgnored(s)
    BY <2>1, <2>2 DEF LossIgnored, WireInv, WireTypeOK, NoLossHidden, HeardCounted
  <2> QED
    BY <1>4, <2>1, <2>2, ResetKeepsInv, NewerKeepsInv, LateKeepsInv DEF Receive
<1> QED
  BY <1>2, <1>3, <1>4 DEF WireNext

-----------------------------------------------------------------------------
(* The round trip.  Timestamps that wrap:                                  *)

LEMMA ModDef ==
    ASSUME NEW n \in Nat \ {0}, NEW u \in Nat
    PROVE  \E q \in Int : u = q * n + (u % n) /\ u % n \in 0 .. n - 1
<1>1. u = (u \div n) * n + (u % n) /\ u \div n \in Int
  BY SMTT(30)
<1>2. u % n \in 0 .. n - 1
  BY SMTT(30)
<1> QED
  BY Zenon, <1>1, <1>2

LEMMA ModUnique ==
    ASSUME NEW n \in Nat \ {0}, NEW q \in Int, NEW r \in 0 .. n - 1
    PROVE  (q * n + r) % n = r
BY SMTT(30)

LEMMA ModAdd ==
    ASSUME NEW n \in Nat \ {0}, NEW u \in Nat, NEW e \in 0 .. n - 1
    PROVE  (u + e) % n = IF (u % n) + e < n THEN (u % n) + e ELSE (u % n) + e - n
<1>1. PICK q \in Int : u = q * n + (u % n) /\ u % n \in 0 .. n - 1
  BY Zenon, ModDef
<1> DEFINE r == u % n
<1> HIDE DEF r
<1>2. r \in 0 .. n - 1 /\ u = q * n + r
  BY Zenon, <1>1 DEF r
<1>3. CASE r + e < n
  <2>1. r + e \in 0 .. n - 1 /\ u + e = q * n + (r + e)
    BY SMTT(30), <1>2, <1>3
  <2> QED
    BY Zenon, <1>3, <2>1, ModUnique DEF r
<1>4. CASE ~(r + e < n)
  <2>1. r + e - n \in 0 .. n - 1 /\ u + e = (q + 1) * n + (r + e - n) /\ q + 1 \in Int
    BY SMTT(30), <1>2, <1>4
  <2> QED
    BY Zenon, <1>4, <2>1, ModUnique DEF r
<1> QED
  BY Zenon, <1>3, <1>4

LEMMA ModShift ==
    ASSUME NEW n \in Nat \ {0}, NEW u \in Nat
    PROVE  (u + n) % n = u % n
<1>1. PICK q \in Int : u = q * n + (u % n) /\ u % n \in 0 .. n - 1
  BY Zenon, ModDef
<1> DEFINE r == u % n
<1> HIDE DEF r
<1>2. r \in 0 .. n - 1 /\ u = q * n + r
  BY Zenon, <1>1 DEF r
<1>3. u + n = (q + 1) * n + r /\ q + 1 \in Int
  BY SMTT(30), <1>2
<1> QED
  BY Zenon, <1>2, <1>3, ModUnique DEF r

(* Where the clock stands when the answer comes, d milliseconds under way  *)
(* after it was sent: the reserved value may have cost one.                *)
LEMMA ClockAtEnd ==
    ASSUME NEW s \in 0 .. TsMod - 1, NEW h \in Nat, NEW d \in 0 .. TsMod - 2
    PROVE  LET p == (Timestamp16(s) + h) % TsMod
               m == (s + h + d) % TsMod
           IN  /\ p \in 0 .. TsMod - 1 /\ m \in 0 .. TsMod - 1
               /\ \/ m = p + d \/ m = p + d - TsMod
                  \/ m = p + d - 1 \/ m = p + d - 1 - TsMod \/ m = p + d - 1 + TsMod
<1> DEFINE M == TsMod
           ts == Timestamp16(s)
           u == ts + h
           p == u % M
           m == (s + h + d) % M
<1>1. M \in Nat \ {0}
  BY SMT, TimeAssumption
<1>2. s % M = s
  BY <1>1, ModSame
<1>3. ts = IF s = M - 1 THEN 0 ELSE s
  BY Zenon, <1>2 DEF Timestamp16, None
<1> HIDE DEF M, ts
<1>4. s \in Nat /\ ts \in Nat /\ u \in Nat /\ s + h + d \in Nat
  BY SMT, <1>1, <1>3 DEF M
<1>5. p \in 0 .. M - 1 /\ m \in 0 .. M - 1
  <2>1. \A v \in Nat : v % M \in 0 .. M - 1
    BY Zenon, <1>1, ModDef
  <2> QED
    BY Zenon, <1>4, <2>1
<1>6. \A v \in Nat, e \in 0 .. M - 1 : (v + e) % M = (v % M) + e \/ (v + e) % M = (v % M) + e - M
  BY Zenon, <1>1, ModAdd
<1>7. CASE s # M - 1
  <2>1. s + h + d = u + d /\ d \in 0 .. M - 1
    BY SMT, <1>1, <1>3, <1>7 DEF M
  <2>2. m = p + d \/ m = p + d - M
    BY Zenon, <1>4, <1>6, <2>1
  <2> QED
    BY Zenon, <1>5, <2>2 DEF M, ts
<1>8. CASE s = M - 1 /\ d = 0
  <2>1. s + h + d = u + (M - 1) /\ M - 1 \in 0 .. M - 1
    BY SMT, <1>1, <1>3, <1>8 DEF M
  <2>2. m = p + (M - 1) \/ m = p + (M - 1) - M
    BY Zenon, <1>4, <1>6, <2>1
  <2> HIDE DEF p, m
  <2>3. m = p + d - 1 + M \/ m = p + d - 1
    BY SMT, <1>1, <1>5, <1>8, <2>2
  <2> QED
    BY Zenon, <1>5, <2>3 DEF M, ts, p, m
<1>9. CASE s = M - 1 /\ d # 0
  <2>1. s + h + d = (u + (d - 1)) + M /\ d - 1 \in 0 .. M - 1 /\ u + (d - 1) \in Nat
    BY SMT, <1>1, <1>3, <1>4, <1>9 DEF M
  <2>2. m = (u + (d - 1)) % M
    BY Zenon, <1>1, <2>1, ModShift
  <2>3. m = p + (d - 1) \/ m = p + (d - 1) - M
    BY Zenon, <1>4, <1>6, <2>1, <2>2
  <2> HIDE DEF p, m
  <2>4. m = p + d - 1 \/ m = p + d - 1 - M
    BY SMT, <1>1, <1>5, <1>9, <2>3 DEF M
  <2> QED
    BY Zenon, <1>5, <2>4 DEF M, ts, p, m
<1> QED
  BY Zenon, <1>7, <1>8, <1>9

LEMMA TripRight ==
    ASSUME NEW r \in Trips, Measured(r) # None, r.out + r.back < TsMod - 1
    PROVE  Measured(r) - (r.out + r.back) \in {-1, 0, 1}
<1> DEFINE s == r.sent
           h == r.hold
           d == r.out + r.back
           p == (Timestamp16(s) + h) % TsMod
           m == (s + h + d) % TsMod
           stamp == IF m = TsMod - 1 THEN 0 ELSE m
           rtt == IF stamp < p THEN stamp - p + TsMod ELSE stamp - p
<1>1. /\ s \in 0 .. TsMod - 1 /\ h \in Nat /\ d \in 0 .. TsMod - 2
      /\ s + h + d = r.sent + r.out + r.hold + r.back
  BY SMT, TimeAssumption DEF Trips
<1>2. TimestampReply(Timestamp16(s), h) = p
  BY Zenon DEF TimestampReply, Measured
<1>3. Timestamp16(r.sent + r.out + r.hold + r.back) = stamp
  BY Zenon, <1>1 DEF Timestamp16, None
<1>4. Measured(r) = rtt /\ rtt < MaxRtt /\ p # TsMod - 1
  BY Zenon, <1>2, <1>3 DEF Measured, Timestamp16Diff, None
<1>5. /\ p \in 0 .. TsMod - 1 /\ m \in 0 .. TsMod - 1
      /\ \/ m = p + d \/ m = p + d - TsMod
         \/ m = p + d - 1 \/ m = p + d - 1 - TsMod \/ m = p + d - 1 + TsMod
  BY Zenon, <1>1, ClockAtEnd
<1> HIDE DEF s, h, d, p, m
<1>6. rtt - d \in {-1, 0, 1}
  BY SMTT(30), <1>1, <1>4, <1>5, TimeAssumption
<1> QED
  BY Zenon, <1>4, <1>6 DEF d

-----------------------------------------------------------------------------
LEMMA TrafficInv == TrafficSpec => [](WrrTypeOK /\ WireInv /\ TuntapInv)
<1>1. TrafficInit => WrrTypeOK /\ WireInv /\ TuntapInv
  BY Zenon, WrrInitType, WireInitInv, TuntapInitInv DEF TrafficInit
<1>2. ASSUME [TrafficNext]_trafficVars
      PROVE  [WrrNext]_wrrVars /\ [WireNext]_wireVars /\ [TuntapNext]_tuntapVars
  BY Zenon, <1>2 DEF TrafficNext, trafficVars
<1>3. WrrTypeOK /\ WireInv /\ TuntapInv /\ [TrafficNext]_trafficVars => (WrrTypeOK /\ WireInv /\ TuntapInv)'
  BY Zenon, <1>2, WrrNextType, WireNextInv, TuntapNextInv
<1> QED
  BY <1>1, <1>3, PTL DEF TrafficSpec

(* The deadlines of the round robin stay between minus one choice and the  *)
(* period of the tunnel, and all variables keep their types.               *)
THEOREM TrafficTypeCorrect == TrafficSpec => []TrafficTypeOK
<1>1. WrrTypeOK /\ WireInv /\ TuntapInv => TrafficTypeOK
  BY Zenon DEF TrafficTypeOK, WireInv, TuntapInv
<1> QED
  BY <1>1, TrafficInv, PTL

(* For a vector of any width mlvpn_loss_update never hides a loss.         *)
THEOREM LossIsSeen == TrafficSpec => []NoLossHidden
<1>1. WireInv => NoLossHidden
  BY DEF WireInv
<1> QED
  BY <1>1, TrafficInv, PTL

(* Nor does it count a packet that came in time as lost.                   *)
THEOREM ArrivalIsSeen == TrafficSpec => []HeardCounted
<1>1. WireInv => HeardCounted
  BY DEF WireInv
<1> QED
  BY <1>1, TrafficInv, PTL

(* A circular buffer of any size is a queue that loses its oldest packet   *)
(* when it is full (mlvpn_cb_write, mlvpn_cb_read).                        *)
THEOREM BufferIsQueue == TrafficSpec => []HoldsNewest
<1>1. TuntapInv => HoldsNewest
  BY Zenon, LiesIsHolds DEF TuntapInv
<1> QED
  BY <1>1, TrafficInv, PTL

(* mlvpn_tuntap_write finds a packet whenever its watcher calls it, and    *)
(* the watcher runs while there is one.                                    *)
THEOREM WriterWorks == TrafficSpec => []WriterHasWork
<1>1. TuntapInv => WriterHasWork
  BY Zenon DEF TuntapInv
<1> QED
  BY <1>1, TrafficInv, PTL

(* A measured round trip is the time under way, give or take one, for a    *)
(* clock of any width and at whatever moment of its wrap it was sent       *)
(* (mlvpn_timestamp16, mlvpn_timestamp16_diff, mlvpn_protocol_read).       *)
THEOREM RttIsUnderWay == TrafficSpec => []RttRight
<1>1. TrafficInit => trip \in Trips
  BY Zenon DEF TrafficInit, WireInit
<1>2. ASSUME TrafficNext PROVE UNCHANGED trip
  <2>1. WireNext => UNCHANGED trip
    BY Zenon DEF WireNext, SendPacket, Restart, Receive
  <2> QED
    BY Zenon, <1>2, <2>1 DEF TrafficNext, wireVars
<1>3. trip \in Trips /\ [TrafficNext]_trafficVars => (trip \in Trips)'
  <2>1. UNCHANGED trafficVars => UNCHANGED trip
    BY Zenon DEF trafficVars, wireVars
  <2>2. Trips' = Trips
    BY Zenon DEF Trips
  <2> QED
    BY Zenon, <1>2, <2>1, <2>2
<1>4. trip \in Trips => RttRight
  BY Zenon, TripRight DEF RttRight
<1> QED
  BY <1>1, <1>3, <1>4, PTL DEF TrafficSpec


=============================================================================
