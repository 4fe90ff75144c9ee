---------------------------- MODULE PrivsepProofs ----------------------------
(***************************************************************************)
(* The two processes never get out of step, and the parent never refuses   *)
(* what a living child asks: for answers with any number of addresses.     *)
(*                                                                         *)
(* The inductive invariant says what is on its way between two processes   *)
(* that are both alive (Talking): the commands without an answer that the  *)
(* child has run ahead of, then its request; or the request is served; or  *)
(* its answer is being written and read.  Of a child whose parent is dead  *)
(* it says that what is left of the answer is a beginning of it (Orphan).  *)
(***************************************************************************)
EXTENDS Privsep, SequenceTheorems, TLAPS

(* Before priv_set_running_state.                                          *)
Early == {"open", "config", "tun", "set"}

(* The requests a place of the child may be in.                            *)
Place == Early \cup {"control", "check", "loop", "reload", "reread", "apply", "quit"}

StubAt(place) ==
    {"none"} \cup
    CASE place = "config" -> {"OPEN_CONFIG"}
      [] place = "tun" -> {"INIT_SCRIPT"}
      [] place = "set" -> {"OPEN_TUN"}
      [] place = "check" -> {"GETADDRINFO"}
      [] place = "loop" -> {"RUN_SCRIPT", "GETADDRINFO"}
      [] place = "apply" -> {"OPEN_CONFIG", "RUN_SCRIPT"}
      [] place = "quit" -> {"RUN_SCRIPT"}
      [] OTHER -> {}

Arg(place) == IF place = "config" THEN "mlvpn.conf" ELSE ""

Quick == Command \ HasArgs
Word == Command \cup {"none"} \cup Path

(* What the child has sent and the parent has not done: the change of      *)
(* state, the reload of the resolver, and k items of the request.          *)
Request(k, cmd, arg) == IF k = 0 THEN <<>> ELSE IF k = 1 THEN <<cmd>> ELSE <<cmd, arg>>

Before(ahead, cmd, q) == IF cmd \in ahead THEN <<cmd>> \o q ELSE q

Both(ahead, s, r, q) == Before(ahead, s, Before(ahead, r, q))

Sent(ahead, k, cmd, arg) ==
    Both(ahead, "SET_RUNNING_STATE", "RELOAD_RESOLVER", Request(k, cmd, arg))

InHand == {"case", "args", "assign"}

(* A stream holds q, but for the command a parent at pc has in its hand.   *)
Holds(pc, hand, line, q) ==
    IF pc \in InHand THEN q # <<>> /\ hand = Head(q) /\ line = Tail(q) ELSE line = q

Raise == cpc \notin Early /\ curState # RUNNING

(* It has sent ahead, and k items of its request.                          *)
Pending(ahead, k) ==
    /\ Holds(ppc, pcmd, toParent, Sent(ahead, k, stub, Arg(cpc)))
    /\ "SET_RUNNING_STATE" \in ahead <=> Raise
    /\ "RELOAD_RESOLVER" \in ahead =>
          cpc = "reread" \/ (cpc = "apply" /\ stub = "OPEN_CONFIG")
    /\ k = 0 => stub = "none" /\ want = <<>>
    /\ k = 1 => stub # "none" /\ want = <<"send">> \o Answer(stub)
    /\ k = 2 => stub # "none" /\ want = Answer(stub)

Asking ==
    /\ ppc \in {"setup", "test", "read", "case", "args", "assign", "reply"}
    /\ pout = <<>> /\ toChild = <<>>
    /\ \E ahead \in SUBSET Quick, k \in 0 .. 2 : Pending(ahead, k)
    /\ confFile # "" \/ cpc = "open" \/ (cpc = "config" /\ stub = "OPEN_CONFIG")

Served ==
    /\ ppc \in {"serve", "fork", "wait"}
    /\ toParent = <<>> /\ toChild = <<>> /\ pout = <<>>
    /\ pcmd = stub /\ stub # "none" /\ want = Answer(stub) /\ ~Raise
    /\ ppc # "serve" => stub = "RUN_SCRIPT"
    /\ confFile # ""

Kind == {"fd", "len", "count", "status", "name", "msg", "addr"}
Announcing == {"len", "count"}

ItemSet == {e \in [kind : Kind, val : Nat \cup {-1}] : e.kind = "count" => e.val # -1}

(* What an item announces to a stub, and the kinds of an answer that       *)
(* begins with a[1], of which w is awaited.                                *)
AnnouncedTo(s, e) ==
    CASE e.kind = "len" /\ s = "OPEN_TUN" /\ e.val # 0 -> <<"name", "fd">>
      [] e.kind = "len" /\ s = "INIT_SCRIPT" -> <<"msg">>
      [] e.kind = "count" -> [i \in 1 .. e.val |-> "addr"]
      [] OTHER -> <<>>

Kinds(s, w, a) == w \o AnnouncedTo(s, a[1])

(* a is a beginning of the answer of which s awaits w.                     *)
Fits(s, w, a) ==
    /\ a \in Seq(ItemSet)
    /\ a # <<>> =>
          /\ w # <<>> /\ w[1] # "send"
          /\ Len(a) <= Len(Kinds(s, w, a))
          /\ \A i \in 1 .. Len(a) : a[i].kind = Kinds(s, w, a)[i]
          /\ \A i \in 2 .. Len(a) : a[i].kind \notin Announcing

(* It is all of it.                                                        *)
Whole(s, w, a) == a # <<>> /\ Fits(s, w, a) /\ Len(a) = Len(Kinds(s, w, a))

Answering ==
    /\ ppc \in {"test", "read", "reply"} /\ (ppc # "reply" => pout = <<>>)
    /\ toParent = <<>> /\ stub # "none" /\ ~Raise
    /\ toChild \in Seq(ItemSet) /\ pout \in Seq(ItemSet)
    /\ Whole(stub, want, toChild \o pout)
    /\ confFile # ""

(* What is still to be read is the first item of an answer, or no item     *)
(* that announces others.                                                  *)
Awaits(s, w) ==
    /\ w \in Seq(Kind \cup {"send"})
    /\ \/ s \in HasArgs /\ w \in {Answer(s), <<"send">> \o Answer(s)}
       \/ \A i \in 1 .. Len(w) : w[i] \notin Announcing \cup {"send"}

(* Both are alive.                                                         *)
Talking ==
    /\ "child" \notin zombies
    /\ cpc \in Place /\ stub \in StubAt(cpc) /\ Awaits(stub, want)
    /\ curState \in IF cpc \in Early THEN {INIT, CONFIG} ELSE {CONFIG, RUNNING}
    /\ (curState = INIT) <=> (ppc = "setup")
    /\ ppc = "setup" => cpc = "open" \/ stub = "OPEN_CONFIG"
    /\ ppc = "args" => pcmd \in HasArgs
    /\ ppc = "assign" => pcmd = "SET_RUNNING_STATE"
    /\ Asking \/ Served \/ Answering

(* The parent is dead, the child goes on.                                  *)
Orphan == pout = <<>> /\ Fits(stub, want, toChild) /\ Awaits(stub, want)

IInv ==
    /\ NeverRefused
    /\ ParentAlive => why = ""
    /\ ChildAlive /\ ParentAlive => Talking
    /\ ChildAlive /\ ~ParentAlive => Orphan

-----------------------------------------------------------------------------
(* What the child has sent, item by item.                                  *)

LEMMA RequestFacts ==
    ASSUME NEW T, NEW cmd \in T, NEW arg \in T
    PROVE  /\ \A k \in 0 .. 2 : Request(k, cmd, arg) \in Seq(T)
           /\ Request(0, cmd, arg) = <<>>
           /\ Append(<<>>, cmd) = Request(1, cmd, arg)
           /\ Append(Request(1, cmd, arg), arg) = Request(2, cmd, arg)
           /\ \A k \in 1 .. 2 : Request(k, cmd, arg) # <<>> /\ Head(Request(k, cmd, arg)) = cmd
           /\ Tail(Request(1, cmd, arg)) = <<>>
           /\ Tail(Request(2, cmd, arg)) = <<arg>>
<1>1. /\ Request(0, cmd, arg) = <<>> /\ Request(1, cmd, arg) = <<cmd>>
      /\ Request(2, cmd, arg) = <<cmd, arg>>
  BY DEF Request
<1>2. /\ <<cmd>> \in Seq(T) /\ <<cmd, arg>> \in Seq(T)
      /\ Append(<<cmd>>, arg) \in Seq(T) /\ Append(<<>>, cmd) \in Seq(T)
  OBVIOUS
<1>3. Append(<<>>, cmd) = <<cmd>>
  <2>1. Len(Append(<<>>, cmd)) = 1 /\ Append(<<>>, cmd)[1] = cmd
    OBVIOUS
  <2> QED
    BY <1>2, <2>1, SeqEqual
<1>4. Append(<<cmd>>, arg) = <<cmd, arg>>
  <2>1. Len(Append(<<cmd>>, arg)) = 2 /\ Len(<<cmd, arg>>) = 2
    OBVIOUS
  <2>2. \A i \in 1 .. 2 : Append(<<cmd>>, arg)[i] = <<cmd, arg>>[i]
    OBVIOUS
  <2> QED
    BY Zenon, <1>2, <2>1, <2>2, SeqEqual
<1>5. Tail(<<cmd, arg>>) = <<arg>> /\ Tail(<<cmd>>) = <<>> /\ Head(<<cmd>>) = cmd /\ Head(<<cmd, arg>>) = cmd
  OBVIOUS
<1>6. \A k \in 0 .. 2 : k = 0 \/ k = 1 \/ k = 2
  OBVIOUS
<1>7. \A k \in 1 .. 2 : k = 1 \/ k = 2
  OBVIOUS
<1>8. <<>> \in Seq(T) /\ <<cmd>> # <<>> /\ <<cmd, arg>> # <<>>
  OBVIOUS
<1> QED
  BY Zenon, <1>1, <1>2, <1>3, <1>4, <1>5, <1>6, <1>7, <1>8

LEMMA ConsFacts ==
    ASSUME NEW T, NEW x \in T, NEW q \in Seq(T)
    PROVE  /\ <<x>> \o q \in Seq(T) /\ <<x>> \o q # <<>>
           /\ Head(<<x>> \o q) = x /\ Tail(<<x>> \o q) = q
<1>1. /\ <<x>> \o q \in Seq(T) /\ <<x>> \o q # <<>> /\ Head(<<x>> \o q) = x
      /\ Len(<<x>> \o q) = Len(q) + 1
  OBVIOUS
<1>2. Tail(<<x>> \o q) = q
  <2>1. Tail(<<x>> \o q) \in Seq(T) /\ Len(Tail(<<x>> \o q)) = Len(q)
    BY <1>1
  <2>2. \A i \in 1 .. Len(q) : Tail(<<x>> \o q)[i] = q[i]
    BY <1>1
  <2> QED
    BY <2>1, <2>2, SeqEqual
<1> QED
  BY Zenon, <1>1, <1>2

LEMMA BeforeFacts ==
    ASSUME NEW T, NEW x \in T, NEW q \in Seq(T), NEW A
    PROVE  /\ x \notin A => Before(A, x, q) = q
           /\ Before(A, x, q) \in Seq(T)
           /\ x \in A => /\ Before(A, x, q) # <<>> /\ Head(Before(A, x, q)) = x
                         /\ Tail(Before(A, x, q)) = q
<1>1. CASE x \notin A
  <2>1. \A p : Before(A, x, p) = p
    BY <1>1 DEF Before
  <2> QED
    BY Zenon, <1>1, <2>1
<1>2. CASE x \in A
  <2>1. \A p : Before(A, x, p) = <<x>> \o p
    BY <1>2 DEF Before
  <2>2. /\ <<x>> \o q \in Seq(T) /\ <<x>> \o q # <<>>
        /\ Head(<<x>> \o q) = x /\ Tail(<<x>> \o q) = q
    BY Zenon, ConsFacts
  <2> QED
    BY Zenon, <1>2, <2>1, <2>2
<1> QED
  BY Zenon, <1>1, <1>2

LEMMA BeforeAppend ==
    ASSUME NEW T, NEW x \in T, NEW y \in T, NEW q \in Seq(T), NEW A
    PROVE  /\ Append(Before(A, x, q), y) = Before(A, x, Append(q, y))
           /\ x \in A => Append(<<>>, x) = Before(A, x, <<>>)
<1>1. CASE x \notin A
  BY Zenon, <1>1 DEF Before
<1>2. CASE x \in A
  <2>1. \A p : Before(A, x, p) = <<x>> \o p
    BY <1>2 DEF Before
  <2>2. Append(<<x>> \o q, y) = <<x>> \o Append(q, y)
    OBVIOUS
  <2>3. Append(<<>>, x) = <<x>> \o <<>>
    OBVIOUS
  <2> QED
    BY Zenon, <2>1, <2>2, <2>3
<1> QED
  BY Zenon, <1>1, <1>2

BothStarts(T, A, s, r, q) ==
    /\ Both(A, s, r, q) \in Seq(T)
    /\ s \notin A /\ r \notin A => Both(A, s, r, q) = q
    /\ s \in A => /\ Both(A, s, r, q) # <<>> /\ Head(Both(A, s, r, q)) = s
                  /\ Tail(Both(A, s, r, q)) = Both(A \ {s}, s, r, q)
    /\ s \notin A /\ r \in A => /\ Both(A, s, r, q) # <<>> /\ Head(Both(A, s, r, q)) = r
                                /\ Tail(Both(A, s, r, q)) = Both(A \ {r}, s, r, q)

LEMMA BothFacts ==
    ASSUME NEW T, NEW s \in T, NEW r \in T, s # r, NEW q \in Seq(T), NEW A
    PROVE  BothStarts(T, A, s, r, q)
<1> DEFINE p(B) == Before(B, s, Before(B, r, q))
           rest == Before(A, r, q)
<1>1. rest \in Seq(T) /\ (r \notin A => rest = q)
  <2>1. rest \in Seq(T)
    BY SMTT(20), BeforeFacts
  <2> QED
    BY Zenon, <2>1 DEF Before
<1>2. r \in A => rest # <<>> /\ Head(rest) = r /\ Tail(rest) = q
  BY SMTT(20), BeforeFacts
<1>3. p(A \ {s}) = rest /\ (s \notin A => p(A \ {r}) = q)
  BY Zenon DEF Before
<1> HIDE DEF rest
<1>4. p(A) = Before(A, s, rest)
  BY Zenon DEF rest
<1> HIDE DEF p
<1>5. p(A) \in Seq(T) /\ (s \notin A => p(A) = rest)
  BY SMTT(20), <1>1, <1>4, BeforeFacts
<1>6. s \in A => p(A) # <<>> /\ Head(p(A)) = s /\ Tail(p(A)) = rest
  <2>1. s \in A => LET b == Before(A, s, rest) IN b # <<>> /\ Head(b) = s /\ Tail(b) = rest
    BY SMTT(20), <1>1, BeforeFacts
  <2> QED
    BY Zenon, <2>1, <1>4
<1>7. p(A) \in Seq(T) /\ (s \notin A /\ r \notin A => p(A) = q)
  BY Zenon, <1>1, <1>5
<1>8. s \in A => p(A) # <<>> /\ Head(p(A)) = s /\ Tail(p(A)) = p(A \ {s})
  BY Zenon, <1>3, <1>6
<1>9. s \notin A /\ r \in A => p(A) # <<>> /\ Head(p(A)) = r /\ Tail(p(A)) = p(A \ {r})
  BY Zenon, <1>2, <1>3, <1>5
<1> QED
  BY Zenon, <1>7, <1>8, <1>9 DEF p, Both, BothStarts

BothGrows(A, s, r, q, y) ==
    /\ Append(Both(A, s, r, q), y) = Both(A, s, r, Append(q, y))
    /\ s \notin A /\ r \notin A =>
          Append(Both(A, s, r, <<>>), s) = Both(A \cup {s}, s, r, <<>>)
    /\ r \notin A =>
          Append(Both(A, s, r, <<>>), r) = Both(A \cup {r}, s, r, <<>>)

LEMMA BothAppend ==
    ASSUME NEW T, NEW s \in T, NEW r \in T, s # r, NEW q \in Seq(T), NEW A, NEW y \in T
    PROVE  BothGrows(A, s, r, q, y)
<1> DEFINE p(B, v) == Before(B, s, Before(B, r, v))
<1>1. Before(A, r, q) \in Seq(T) /\ Append(q, y) \in Seq(T) /\ <<>> \in Seq(T)
  <2>1. Before(A, r, q) \in Seq(T)
    BY SMTT(20), BeforeFacts
  <2> QED
    BY <2>1
<1>2. Append(p(A, q), y) = p(A, Append(q, y))
  <2>1. Append(Before(A, r, q), y) = Before(A, r, Append(q, y))
    BY SMTT(20), BeforeAppend
  <2>2. Append(Before(A, s, Before(A, r, q)), y) = Before(A, s, Append(Before(A, r, q), y))
    BY SMTT(20), <1>1, BeforeAppend
  <2> QED
    BY Zenon, <2>1, <2>2
<1>3. ASSUME s \notin A, r \notin A
      PROVE  Append(p(A, <<>>), s) = p(A \cup {s}, <<>>)
  <2>1. p(A, <<>>) = <<>> /\ p(A \cup {s}, <<>>) = Before(A \cup {s}, s, <<>>)
    BY Zenon, <1>3 DEF Before
  <2>2. Append(<<>>, s) = Before(A \cup {s}, s, <<>>)
    BY SMTT(20), <1>1, BeforeAppend
  <2> QED
    BY Zenon, <2>1, <2>2
<1>4. ASSUME r \notin A
      PROVE  Append(p(A, <<>>), r) = p(A \cup {r}, <<>>)
  <2>1. p(A, <<>>) = Before(A, s, <<>>)
    BY Zenon, <1>4 DEF Before
  <2>2. Append(<<>>, r) = Before(A \cup {r}, r, <<>>)
    BY SMTT(20), <1>1, BeforeAppend
  <2>3. Append(Before(A, s, <<>>), r) = Before(A, s, Append(<<>>, r))
    <3>1. \A e \in Seq(T) : Append(Before(A, s, e), r) = Before(A, s, Append(e, r))
      BY SMTT(20), BeforeAppend
    <3> QED
      BY Zenon, <1>1, <3>1
  <2>4. \A v : Before(A, s, v) = Before(A \cup {r}, s, v)
    BY Zenon DEF Before
  <2> QED
    BY Zenon, <2>1, <2>2, <2>3, <2>4
<1> QED
  BY Zenon, <1>2, <1>3, <1>4 DEF Both, BothGrows

SentStarts(A, k, cmd, arg) ==
    LET q == Sent(A, k, cmd, arg)
    IN  /\ q \in Seq(Word)
        /\ "SET_RUNNING_STATE" \in A =>
              /\ q # <<>> /\ Head(q) = "SET_RUNNING_STATE"
              /\ Tail(q) = Sent(A \ {"SET_RUNNING_STATE"}, k, cmd, arg)
        /\ "SET_RUNNING_STATE" \notin A /\ "RELOAD_RESOLVER" \in A =>
              /\ q # <<>> /\ Head(q) = "RELOAD_RESOLVER"
              /\ Tail(q) = Sent(A \ {"RELOAD_RESOLVER"}, k, cmd, arg)
        /\ "SET_RUNNING_STATE" \notin A /\ "RELOAD_RESOLVER" \notin A =>
              /\ k = 0 => q = <<>>
              /\ k # 0 => q # <<>> /\ Head(q) = cmd
              /\ k = 1 => Tail(q) = <<>>
              /\ k = 2 => Tail(q) = <<arg>>

LEMMA SentFacts ==
    ASSUME NEW cmd \in Word, NEW arg \in Word, NEW k \in 0 .. 2, NEW A
    PROVE  SentStarts(A, k, cmd, arg)
<1> DEFINE q == Request(k, cmd, arg)
           s == "SET_RUNNING_STATE"
           r == "RELOAD_RESOLVER"
<1>1. s \in Word /\ r \in Word /\ s # r
  BY DEF Word, Command
<1>2. q \in Seq(Word) /\ (k = 0 => q = <<>>) /\ (k # 0 => q # <<>> /\ Head(q) = cmd)
  <2>1. k # 0 => k \in 1 .. 2
    OBVIOUS
  <2>2. /\ \A j \in 0 .. 2 : Request(j, cmd, arg) \in Seq(Word)
        /\ Request(0, cmd, arg) = <<>>
        /\ \A j \in 1 .. 2 : Request(j, cmd, arg) # <<>> /\ Head(Request(j, cmd, arg)) = cmd
    BY RequestFacts
  <2> QED
    BY Zenon, <2>1, <2>2
<1>3. (k = 1 => Tail(q) = <<>>) /\ (k = 2 => Tail(q) = <<arg>>)
  <2>1. Tail(Request(1, cmd, arg)) = <<>> /\ Tail(Request(2, cmd, arg)) = <<arg>>
    BY Zenon, RequestFacts
  <2> QED
    BY Zenon, <2>1
<1>4. \A B : Sent(B, k, cmd, arg) = Both(B, s, r, q)
  BY Zenon DEF Sent
<1> HIDE DEF q, s, r
<1>5. BothStarts(Word, A, s, r, q)
  BY Zenon, <1>1, <1>2, BothFacts
<1> QED
  BY Zenon, <1>2, <1>3, <1>4, <1>5 DEF s, r, BothStarts, SentStarts

SentGrows(A, cmd, arg, c, a) ==
    /\ Sent(A, 0, c, a) = Sent(A, 0, cmd, arg)
    /\ Append(Sent(A, 0, c, a), cmd) = Sent(A, 1, cmd, arg)
    /\ Append(Sent(A, 1, cmd, arg), arg) = Sent(A, 2, cmd, arg)
    /\ "SET_RUNNING_STATE" \notin A /\ "RELOAD_RESOLVER" \notin A =>
          Append(Sent(A, 0, c, a), "SET_RUNNING_STATE")
              = Sent(A \cup {"SET_RUNNING_STATE"}, 0, cmd, arg)
    /\ "RELOAD_RESOLVER" \notin A =>
          Append(Sent(A, 0, c, a), "RELOAD_RESOLVER")
              = Sent(A \cup {"RELOAD_RESOLVER"}, 0, cmd, arg)

LEMMA SentAppend ==
    ASSUME NEW cmd \in Word, NEW arg \in Word, NEW c \in Word, NEW a \in Word, NEW A
    PROVE  SentGrows(A, cmd, arg, c, a)
<1> DEFINE s == "SET_RUNNING_STATE"
           r == "RELOAD_RESOLVER"
           p(B, v) == Both(B, s, r, v)
<1>1. s \in Word /\ r \in Word /\ s # r
  BY DEF Word, Command
<1>2. /\ \A B : Sent(B, 0, c, a) = p(B, <<>>) /\ Sent(B, 0, cmd, arg) = p(B, <<>>)
      /\ \A B : Sent(B, 1, cmd, arg) = p(B, Request(1, cmd, arg))
      /\ \A B : Sent(B, 2, cmd, arg) = p(B, Request(2, cmd, arg))
  BY Zenon DEF Sent, Request
<1>3. /\ Append(<<>>, cmd) = Request(1, cmd, arg)
      /\ Append(Request(1, cmd, arg), arg) = Request(2, cmd, arg)
      /\ Request(1, cmd, arg) \in Seq(Word) /\ <<>> \in Seq(Word)
  BY RequestFacts
<1> HIDE DEF s, r
<1>4. \A v \in Seq(Word), y \in Word : BothGrows(A, s, r, v, y)
  BY Zenon, <1>1, BothAppend
<1> QED
  BY ZenonT(30), <1>2, <1>3, <1>4 DEF s, r, BothGrows, SentGrows

-----------------------------------------------------------------------------
(* Answers.                                                                *)

LEMMA AnnouncedFacts ==
    ASSUME NEW s, NEW e \in ItemSet
    PROVE  /\ AnnouncedTo(s, e) \in Seq(Kind)
           /\ \A i \in 1 .. Len(AnnouncedTo(s, e)) :
                 AnnouncedTo(s, e)[i] \notin Announcing \cup {"send"}
           /\ e.kind \notin Announcing => AnnouncedTo(s, e) = <<>>
<1> DEFINE Calm(q) == q \in Seq(Kind) /\ \A i \in 1 .. Len(q) : q[i] \notin Announcing \cup {"send"}
<1>1. /\ \/ AnnouncedTo(s, e) \in {<<"name", "fd">>, <<"msg">>, <<>>}
         \/ e.kind = "count" /\ AnnouncedTo(s, e) = [i \in 1 .. e.val |-> "addr"]
      /\ e.kind \notin Announcing => AnnouncedTo(s, e) = <<>>
  BY DEF AnnouncedTo, Announcing
<1>2. Calm(<<"name", "fd">>) /\ Calm(<<"msg">>) /\ Calm(<<>>)
  BY DEF Kind, Announcing
<1>3. ASSUME e.kind = "count" PROVE Calm([i \in 1 .. e.val |-> "addr"])
  <2>1. e.val \in Nat
    BY <1>3 DEF ItemSet
  <2>2. [i \in 1 .. e.val |-> "addr"] \in Seq(Kind) /\ Len([i \in 1 .. e.val |-> "addr"]) = e.val
    BY <2>1 DEF Kind
  <2>3. \A i \in 1 .. e.val : [j \in 1 .. e.val |-> "addr"][i] \notin Announcing \cup {"send"}
    BY DEF Announcing
  <2> QED
    BY Zenon, <2>2, <2>3
<1> HIDE DEF Calm
<1>4. Calm(AnnouncedTo(s, e))
  BY Zenon, <1>1, <1>2, <1>3
<1> QED
  BY <1>1, <1>4 DEF Calm

LEMMA AnswerFacts ==
    ASSUME NEW s \in HasArgs
    PROVE  /\ Answer(s) \in Seq(Kind) /\ Len(Answer(s)) = 1 /\ Answer(s) # <<>>
           /\ Tail(Answer(s)) = <<>>
           /\ <<"send">> \o Answer(s) \in Seq(Kind \cup {"send"})
           /\ <<"send">> \o Answer(s) # <<>> /\ Head(<<"send">> \o Answer(s)) = "send"
           /\ Tail(<<"send">> \o Answer(s)) = Answer(s)
<1> DEFINE K == Kind \cup {"send"}
<1>1. Answer(s) \in {<<"fd">>, <<"len">>, <<"count">>, <<"status">>}
  BY DEF Answer, HasArgs, Command
<1>2. PICK x \in Kind : Answer(s) = <<x>>
  BY <1>1 DEF Kind
<1>3. <<x>> \in Seq(Kind) /\ Len(<<x>>) = 1 /\ <<x>> # <<>> /\ Tail(<<x>>) = <<>>
  OBVIOUS
<1>4. <<x>> \in Seq(K) /\ "send" \in K
  OBVIOUS
<1> HIDE DEF K
<1>5. /\ <<"send">> \o <<x>> \in Seq(K) /\ <<"send">> \o <<x>> # <<>>
      /\ Head(<<"send">> \o <<x>>) = "send" /\ Tail(<<"send">> \o <<x>>) = <<x>>
  BY Zenon, <1>4, ConsFacts
<1> QED
  BY Zenon, <1>2, <1>3, <1>5 DEF K

(* A beginning of a beginning.                                             *)
LEMMA FitsPrefix ==
    ASSUME NEW s, NEW w \in Seq(Kind \cup {"send"}),
           NEW a \in Seq(ItemSet), NEW b \in Seq(ItemSet), Fits(s, w, a \o b)
    PROVE  Fits(s, w, a)
<1> SUFFICES ASSUME a # <<>>
             PROVE  /\ w # <<>> /\ w[1] # "send"
                    /\ Len(a) <= Len(Kinds(s, w, a))
                    /\ \A i \in 1 .. Len(a) : a[i].kind = Kinds(s, w, a)[i]
                    /\ \A i \in 2 .. Len(a) : a[i].kind \notin Announcing
  BY DEF Fits
<1> DEFINE c == a \o b
<1>1. /\ c # <<>> /\ Len(a) <= Len(c) /\ \A i \in 1 .. Len(a) : i \in 1 .. Len(c) /\ c[i] = a[i]
      /\ c[1] = a[1] /\ \A i \in 2 .. Len(a) : i \in 2 .. Len(c) /\ c[i] = a[i]
  OBVIOUS
<1>2. Kinds(s, w, c) = Kinds(s, w, a)
  BY <1>1 DEF Kinds
<1>3. /\ w # <<>> /\ w[1] # "send"
      /\ Len(c) <= Len(Kinds(s, w, a))
      /\ \A i \in 1 .. Len(c) : c[i].kind = Kinds(s, w, a)[i]
      /\ \A i \in 2 .. Len(c) : c[i].kind \notin Announcing
  BY <1>1, <1>2 DEF Fits
<1> DEFINE K == Kinds(s, w, a)
<1> HIDE DEF c, K
<1>4. Len(a) <= Len(K)
  <2>1. Len(a) <= Len(c) /\ Len(c) <= Len(K) /\ Len(a) \in Nat /\ Len(c) \in Nat
    BY <1>1, <1>3 DEF c, K
  <2>2. Len(K) \in Nat
    <3>1. a[1] \in ItemSet
      OBVIOUS
    <3>2. AnnouncedTo(s, a[1]) \in Seq(Kind)
      BY Zenon, <3>1, AnnouncedFacts
    <3>3. K \in Seq(Kind \cup {"send"})
      BY <3>2 DEF K, Kinds
    <3> QED
      BY <3>3
  <2> QED
    BY <2>1, <2>2
<1>5. \A i \in 1 .. Len(a) : a[i].kind = K[i]
  BY Zenon, <1>1, <1>3 DEF K
<1>6. \A i \in 2 .. Len(a) : a[i].kind \notin Announcing
  BY Zenon, <1>1, <1>3
<1> QED
  BY <1>3, <1>4, <1>5, <1>6 DEF K

(* The child reads the first item of an answer: what it awaits then is     *)
(* what is left of the answer.                                             *)
ReadOn(s, w, a) ==
    LET v == Tail(w) \o AnnouncedTo(s, Head(a))
    IN  /\ \A z : Awaits(z, v) /\ Fits(z, v, Tail(a))
        /\ v # <<>> /\ Whole(s, w, a) => Whole(s, v, Tail(a))
        /\ v = <<>> => Tail(a) = <<>>

LEMMA ReadOnFacts ==
    ASSUME NEW s, NEW w, NEW a \in Seq(ItemSet), a # <<>>, Awaits(s, w), Fits(s, w, a)
    PROVE  ReadOn(s, w, a)
<1> DEFINE M == Kind \cup {"send"}
           n == AnnouncedTo(s, Head(a))
           K == w \o n
           v == Tail(w) \o n
           b == Tail(a)
<1>1. w \in Seq(M) /\ w # <<>> /\ w[1] # "send"
  BY DEF Awaits, Fits
<1>2. n \in Seq(M) /\ \A i \in 1 .. Len(n) : n[i] \notin Announcing \cup {"send"}
  <2>1. Head(a) \in ItemSet
    OBVIOUS
  <2>2. n \in Seq(Kind) /\ \A i \in 1 .. Len(n) : n[i] \notin Announcing \cup {"send"}
    BY Zenon, <2>1, AnnouncedFacts
  <2> QED
    BY <2>2
<1>3. Head(a) = a[1] /\ Kinds(s, w, a) = K
  BY DEF Kinds
<1>4. /\ Len(a) <= Len(K)
      /\ \A i \in 1 .. Len(a) : a[i].kind = K[i]
      /\ \A i \in 2 .. Len(a) : a[i].kind \notin Announcing
  BY <1>3 DEF Fits
<1>5. Tail(w) \in Seq(M) /\ \A i \in 1 .. Len(Tail(w)) : Tail(w)[i] \notin Announcing \cup {"send"}
  <2>1. CASE s \in HasArgs /\ w = Answer(s)
    <3>1. Tail(w) = <<>>
      BY Zenon, <2>1, AnswerFacts
    <3>2. <<>> \in Seq(M) /\ \A i \in 1 .. Len(<<>>) : FALSE
      OBVIOUS
    <3> QED
      BY Zenon, <3>1, <3>2
  <2>2. CASE s \in HasArgs /\ w = <<"send">> \o Answer(s)
    <3>1. Head(w) = "send"
      BY Zenon, <2>2, AnswerFacts
    <3> QED
      BY <1>1, <3>1
  <2>3. CASE \A i \in 1 .. Len(w) : w[i] \notin Announcing \cup {"send"}
    BY <1>1, <2>3
  <2> QED
    BY Zenon, <2>1, <2>2, <2>3 DEF Awaits
<1> HIDE DEF M, n
<1>6. v \in Seq(M) /\ \A i \in 1 .. Len(v) : v[i] \notin Announcing \cup {"send"}
  <2>1. v \in Seq(M) /\ Len(v) = Len(Tail(w)) + Len(n)
    BY <1>2, <1>5
  <2>2. ASSUME NEW i \in 1 .. Len(v) PROVE v[i] \notin Announcing \cup {"send"}
    <3>1. CASE i <= Len(Tail(w))
      BY <1>2, <1>5, <2>1, <3>1
    <3>2. CASE i > Len(Tail(w))
      <4>1. i - Len(Tail(w)) \in 1 .. Len(n) /\ v[i] = n[i - Len(Tail(w))]
        BY <1>2, <1>5, <2>1, <3>2
      <4> QED
        BY Zenon, <1>2, <4>1
    <3> QED
      BY <2>1, <1>5, <3>1, <3>2
  <2> QED
    BY <2>1, <2>2
<1>7. Len(v) = Len(K) - 1 /\ \A i \in 1 .. Len(v) : v[i] = K[i + 1]
  <2>1. v = Tail(K)
    BY SMTT(30), <1>1, <1>2
  <2>2. K \in Seq(M) /\ K # <<>>
    BY <1>1, <1>2
  <2> HIDE DEF v, K
  <2> QED
    BY <2>1, <2>2
<1>8. b \in Seq(ItemSet) /\ Len(b) = Len(a) - 1 /\ \A i \in 1 .. Len(b) : b[i] = a[i + 1]
  OBVIOUS
<1>9. Len(K) \in Nat /\ Len(a) \in Nat /\ Len(v) \in Nat
  BY <1>1, <1>2, <1>6
<1> HIDE DEF v, K, b
<1>10. \A z : Awaits(z, v)
  BY Zenon, <1>6 DEF Awaits, M
<1>11. Len(b) <= Len(v) /\ Len(b) \in Nat
  BY <1>4, <1>7, <1>8, <1>9
<1>12. b # <<>> => v # <<>> /\ v[1] # "send"
  <2>1. b # <<>> => Len(b) > 0
    BY <1>8
  <2>2. b # <<>> => 1 \in 1 .. Len(v) /\ v # <<>>
    BY <1>6, <1>9, <1>11, <2>1
  <2> QED
    BY <1>6, <2>2
<1>13. /\ \A i \in 1 .. Len(b) : b[i].kind = v[i]
       /\ \A i \in 1 .. Len(b) : b[i].kind \notin Announcing
  <2>1. ASSUME NEW i \in 1 .. Len(b)
        PROVE  i \in 1 .. Len(v) /\ i + 1 \in 1 .. Len(a) /\ i + 1 \in 2 .. Len(a)
    BY <1>4, <1>7, <1>8, <1>9
  <2> QED
    BY Zenon, <1>4, <1>7, <1>8, <2>1
<1>14. \A z : b # <<>> => Kinds(z, v, b) = v
  <2>1. b # <<>> => b[1] \in ItemSet /\ b[1].kind \notin Announcing
    BY <1>8, <1>13
  <2>2. \A z : b # <<>> => AnnouncedTo(z, b[1]) = <<>>
    BY Zenon, <2>1, AnnouncedFacts
  <2>3. v \o <<>> = v
    BY <1>6
  <2> QED
    BY Zenon, <2>2, <2>3 DEF Kinds
<1>15. \A z : Fits(z, v, b)
  <2>1. \A i \in 2 .. Len(b) : b[i].kind \notin Announcing
    BY <1>11, <1>13
  <2> QED
    BY ZenonT(30), <1>8, <1>11, <1>12, <1>13, <1>14, <2>1 DEF Fits
<1>16. v = <<>> => b = <<>>
  BY <1>12
<1>17. v # <<>> /\ Whole(s, w, a) => Whole(s, v, b)
  <2>1. SUFFICES ASSUME v # <<>>, Whole(s, w, a) PROVE b # <<>> /\ Len(b) = Len(v)
    BY Zenon, <1>14, <1>15 DEF Whole
  <2>2. Len(a) = Len(K)
    BY <1>3, <2>1 DEF Whole
  <2>3. Len(b) = Len(v)
    BY <1>7, <1>8, <1>9, <2>2
  <2>4. Len(v) # 0
    BY <1>6, <2>1
  <2> QED
    BY <1>8, <2>3, <2>4
<1> QED
  BY Zenon, <1>10, <1>15, <1>16, <1>17 DEF ReadOn, v, b, n

(* Whatever the parent answers is a whole answer.                          *)
LEMMA ResultsFit ==
    /\ \A s \in HasArgs \ {"RUN_SCRIPT"} : \A p \in Results(s) :
          p \in Seq(ItemSet) /\ Whole(s, Answer(s), p)
    /\ \A v \in {0, -1} :
          Status(v) \in Seq(ItemSet) /\ Whole("RUN_SCRIPT", Answer("RUN_SCRIPT"), Status(v))
<1> DEFINE One(s, p, e) ==
             p \in Seq(ItemSet) /\ Len(p) = 1 /\ p[1].kind = e /\ Answer(s) = <<e>>
             /\ AnnouncedTo(s, p[1]) = <<>> /\ e # "send"
<1>1. ASSUME NEW s, NEW p, NEW e \in Kind, One(s, p, e)
      PROVE  Whole(s, Answer(s), p)
  <2>1. Kinds(s, Answer(s), p) = <<e>>
    <3>1. <<e>> \o <<>> = <<e>>
      OBVIOUS
    <3> QED
      BY <1>1, <3>1 DEF Kinds
  <2>2. Len(<<e>>) = 1 /\ <<e>>[1] = e /\ <<e>> # <<>>
    OBVIOUS
  <2>3. p # <<>> /\ (\A i \in 1 .. Len(p) : i = 1) /\ \A i \in 2 .. Len(p) : FALSE
    BY <1>1
  <2>4. Len(p) <= 1 /\ Len(p) = 1
    BY <1>1
  <2>5. Fits(s, Answer(s), p)
    BY Zenon, <1>1, <2>1, <2>2, <2>3, <2>4 DEF Fits
  <2> QED
    BY Zenon, <2>1, <2>2, <2>3, <2>4, <2>5 DEF Whole
<1>2. ASSUME NEW v \in {-1, 3}
      PROVE  LET p == <<Item("fd", v)>>
             IN  p \in Seq(ItemSet) /\ Whole("OPEN_CONFIG", Answer("OPEN_CONFIG"), p)
  <2>1. One("OPEN_CONFIG", <<Item("fd", v)>>, "fd") /\ "fd" \in Kind
    BY DEF Item, ItemSet, Kind, Answer, AnnouncedTo
  <2> QED
    BY Zenon, <1>1, <2>1
<1>3. LET p == <<Item("len", 0)>>
      IN  p \in Seq(ItemSet) /\ Whole("OPEN_TUN", Answer("OPEN_TUN"), p)
  <2>1. One("OPEN_TUN", <<Item("len", 0)>>, "len") /\ "len" \in Kind
    BY DEF Item, ItemSet, Kind, Answer, AnnouncedTo
  <2> QED
    BY Zenon, <1>1, <2>1
<1>4. ASSUME NEW n \in {1, IFNAMSIZ}
      PROVE  LET p == <<Item("len", n), Item("name", 0), Item("fd", 3)>>
             IN  p \in Seq(ItemSet) /\ Whole("OPEN_TUN", Answer("OPEN_TUN"), p)
  <2> DEFINE p == <<Item("len", n), Item("name", 0), Item("fd", 3)>>
  <2>1. p \in Seq(ItemSet) /\ Len(p) = 3 /\ p # <<>>
    BY DEF Item, ItemSet, Kind, IFNAMSIZ
  <2>2. AnnouncedTo("OPEN_TUN", p[1]) = <<"name", "fd">> /\ Answer("OPEN_TUN") = <<"len">>
    BY DEF Item, AnnouncedTo, Answer, IFNAMSIZ
  <2>3. Kinds("OPEN_TUN", Answer("OPEN_TUN"), p) = <<"len">> \o <<"name", "fd">>
    BY Zenon, <2>2 DEF Kinds
  <2> DEFINE K == <<"len">> \o <<"name", "fd">>
  <2>4. Len(K) = 3 /\ K[1] = "len" /\ K[2] = "name" /\ K[3] = "fd"
    OBVIOUS
  <2>5. p[1].kind = "len" /\ p[2].kind = "name" /\ p[3].kind = "fd"
    BY DEF Item
  <2>6. /\ \A i \in 1 .. 3 : i = 1 \/ i = 2 \/ i = 3
        /\ \A i \in 2 .. 3 : i = 2 \/ i = 3
        /\ 3 <= 3
    OBVIOUS
  <2>7. <<"len">> # <<>> /\ <<"len">>[1] # "send" /\ "name" \notin Announcing /\ "fd" \notin Announcing
    BY DEF Announcing
  <2> HIDE DEF K, p
  <2>8. Fits("OPEN_TUN", Answer("OPEN_TUN"), p)
    BY Zenon, <2>1, <2>2, <2>3, <2>4, <2>5, <2>6, <2>7 DEF Fits, K
  <2> QED
    BY Zenon, <2>1, <2>3, <2>4, <2>8 DEF Whole, K, p
<1>5. ASSUME NEW v \in {-1, 0}
      PROVE  LET p == <<Item("len", 1), Item("msg", v)>>
             IN  p \in Seq(ItemSet) /\ Whole("INIT_SCRIPT", Answer("INIT_SCRIPT"), p)
  <2> DEFINE p == <<Item("len", 1), Item("msg", v)>>
  <2>1. p \in Seq(ItemSet) /\ Len(p) = 2 /\ p # <<>>
    BY DEF Item, ItemSet, Kind
  <2>2. AnnouncedTo("INIT_SCRIPT", p[1]) = <<"msg">> /\ Answer("INIT_SCRIPT") = <<"len">>
    BY DEF Item, AnnouncedTo, Answer
  <2>3. Kinds("INIT_SCRIPT", Answer("INIT_SCRIPT"), p) = <<"len">> \o <<"msg">>
    BY Zenon, <2>2 DEF Kinds
  <2> DEFINE K == <<"len">> \o <<"msg">>
  <2>4. Len(K) = 2 /\ K[1] = "len" /\ K[2] = "msg"
    OBVIOUS
  <2>5. p[1].kind = "len" /\ p[2].kind = "msg"
    BY DEF Item
  <2>6. /\ \A i \in 1 .. 2 : i = 1 \/ i = 2
        /\ \A i \in 2 .. 2 : i = 2
        /\ 2 <= 2
    OBVIOUS
  <2>7. <<"len">> # <<>> /\ <<"len">>[1] # "send" /\ "msg" \notin Announcing
    BY DEF Announcing
  <2> HIDE DEF K, p
  <2>8. Fits("INIT_SCRIPT", Answer("INIT_SCRIPT"), p)
    BY Zenon, <2>1, <2>2, <2>3, <2>4, <2>5, <2>6, <2>7 DEF Fits, K
  <2> QED
    BY Zenon, <2>1, <2>3, <2>4, <2>8 DEF Whole, K, p
<1>6. ASSUME NEW n \in 0 .. MaxAddrs
      PROVE  LET p == <<Item("count", n)>> \o [i \in 1 .. n |-> Item("addr", i)]
             IN  p \in Seq(ItemSet) /\ Whole("GETADDRINFO", Answer("GETADDRINFO"), p)
  <2> DEFINE t == [i \in 1 .. n |-> Item("addr", i)]
             p == <<Item("count", n)>> \o t
             u == [i \in 1 .. n |-> "addr"]
             K == <<"count">> \o u
  <2>1. n \in Nat
    BY MaxAddrsAssumption
  <2>2. t \in Seq(ItemSet) /\ Len(t) = n /\ \A i \in 1 .. n : t[i].kind = "addr"
    <3>1. \A i \in 1 .. n : Item("addr", i) \in ItemSet /\ Item("addr", i).kind = "addr"
      BY <2>1 DEF Item, ItemSet, Kind
    <3> QED
      BY <2>1, <3>1
  <2>3. Item("count", n) \in ItemSet /\ Item("count", n).kind = "count" /\ Item("count", n).val = n
    BY <2>1 DEF Item, ItemSet, Kind
  <2> HIDE DEF t
  <2>4. /\ p \in Seq(ItemSet) /\ Len(p) = n + 1 /\ p # <<>> /\ p[1] = Item("count", n)
        /\ \A i \in 2 .. n + 1 : p[i] = t[i - 1]
    BY <2>1, <2>2, <2>3
  <2>5. u \in Seq(Kind) /\ Len(u) = n /\ \A i \in 1 .. n : u[i] = "addr"
    BY <2>1 DEF Kind
  <2>6. AnnouncedTo("GETADDRINFO", p[1]) = u /\ Answer("GETADDRINFO") = <<"count">>
    BY Zenon, <2>3, <2>4 DEF AnnouncedTo, Answer
  <2> HIDE DEF u
  <2>7. Len(K) = n + 1 /\ K[1] = "count" /\ \A i \in 2 .. n + 1 : K[i] = u[i - 1]
    BY <2>1, <2>5 DEF Kind
  <2>8. Kinds("GETADDRINFO", Answer("GETADDRINFO"), p) = K
    BY Zenon, <2>6 DEF Kinds
  <2> HIDE DEF K, p
  <2>9. \A i \in 2 .. n + 1 : i - 1 \in 1 .. n
    BY <2>1
  <2>10. \A i \in 2 .. n + 1 : p[i].kind = "addr" /\ K[i] = "addr"
    <3> TAKE i \in 2 .. n + 1
    <3>1. p[i] = t[i - 1] /\ K[i] = u[i - 1] /\ i - 1 \in 1 .. n
      BY <2>4, <2>7, <2>9
    <3> QED
      BY <3>1, <2>2, <2>5
  <2>11. (\A i \in 1 .. n + 1 : i = 1 \/ i \in 2 .. n + 1) /\ n + 1 <= n + 1
    BY <2>1
  <2>12. <<"count">> # <<>> /\ <<"count">>[1] # "send" /\ "addr" \notin Announcing
    BY DEF Announcing
  <2>13. Fits("GETADDRINFO", Answer("GETADDRINFO"), p)
    BY Zenon, <2>3, <2>4, <2>6, <2>7, <2>8, <2>10, <2>11, <2>12 DEF Fits
  <2> QED
    BY Zenon, <2>4, <2>7, <2>8, <2>13 DEF Whole, p, t
<1>7. ASSUME NEW v \in {0, -1}
      PROVE  Status(v) \in Seq(ItemSet) /\ Whole("RUN_SCRIPT", Answer("RUN_SCRIPT"), Status(v))
  <2>1. One("RUN_SCRIPT", Status(v), "status") /\ "status" \in Kind
    BY DEF Status, Item, ItemSet, Kind, Answer, AnnouncedTo
  <2> QED
    BY Zenon, <1>1, <2>1
<1> HIDE DEF One
<1>8. ASSUME NEW s \in HasArgs \ {"RUN_SCRIPT"}, NEW p \in Results(s)
      PROVE  p \in Seq(ItemSet) /\ Whole(s, Answer(s), p)
  <2>1. s \in {"OPEN_CONFIG", "OPEN_TUN", "INIT_SCRIPT", "GETADDRINFO"}
    BY DEF HasArgs, Command
  <2>2. CASE s = "OPEN_CONFIG"
    BY Zenon, <1>2, <2>2 DEF Results
  <2>3. CASE s = "OPEN_TUN"
    BY Zenon, <1>3, <1>4, <2>3 DEF Results
  <2>4. CASE s = "INIT_SCRIPT"
    BY Zenon, <1>5, <2>4 DEF Results
  <2>5. CASE s = "GETADDRINFO"
    BY Zenon, <1>6, <2>5 DEF Results
  <2> QED
    BY Zenon, <2>1, <2>2, <2>3, <2>4, <2>5
<1> QED
  BY Zenon, <1>7, <1>8


-----------------------------------------------------------------------------
(* The invariant implies that the processes are in step.                   *)

LEMMA IInvInStep == IInv => InStep
<1> SUFFICES ASSUME IInv, ChildAlive, toChild \o pout # <<>>
             PROVE  /\ want # <<>> /\ Head(toChild \o pout).kind = Head(want)
                    /\ ParentAlive /\ Len(want) > 1 => Len(toChild \o pout) = Len(want)
  BY DEF InStep
<1> DEFINE a == toChild \o pout
           K == Kinds(stub, want, a)
<1>1. Awaits(stub, want) /\ Fits(stub, want, a) /\ (ParentAlive => Whole(stub, want, a))
  <2>1. CASE ParentAlive
    <3>1. Talking
      BY Zenon, <2>1 DEF IInv
    <3>2. <<>> \o <<>> = <<>>
      OBVIOUS
    <3>3. Answering
      BY Zenon, <3>1, <3>2 DEF Talking, Asking, Served
    <3> QED
      BY Zenon, <3>1, <3>3 DEF Talking, Answering, Whole
  <2>2. CASE ~ParentAlive
    <3>1. Orphan
      BY Zenon, <2>2 DEF IInv
    <3>2. toChild \in Seq(ItemSet) /\ pout = <<>>
      BY <3>1 DEF Orphan, Fits
    <3>3. a = toChild
      BY <3>2
    <3> QED
      BY Zenon, <2>2, <3>1, <3>3 DEF Orphan
  <2> QED
    BY <2>1, <2>2
<1>2. a \in Seq(ItemSet) /\ want \in Seq(Kind \cup {"send"})
  BY <1>1 DEF Fits, Awaits
<1>3. a # <<>> /\ want # <<>> /\ want[1] # "send" /\ \A i \in 1 .. Len(a) : a[i].kind = K[i]
  BY <1>1 DEF Fits
<1> HIDE DEF a
<1>4. AnnouncedTo(stub, a[1]) \in Seq(Kind) /\ a[1] \in ItemSet
  <2>1. a[1] \in ItemSet
    BY <1>2, <1>3
  <2> QED
    BY Zenon, <2>1, AnnouncedFacts
<1>5. 1 \in 1 .. Len(a) /\ K[1] = want[1] /\ Head(a) = a[1] /\ Head(want) = want[1]
  BY <1>2, <1>3, <1>4 DEF Kinds
<1>6. a[1].kind = want[1]
  BY Zenon, <1>3, <1>5
<1>7. ASSUME ParentAlive, Len(want) > 1 PROVE Len(a) = Len(want)
  <2>1. \A i \in 1 .. Len(want) : want[i] \notin Announcing \cup {"send"}
    <3>1. CASE stub \in HasArgs /\ want = Answer(stub)
      <4>1. Len(want) = 1
        BY Zenon, <3>1, AnswerFacts
      <4> QED
        BY <1>7, <4>1
    <3>2. CASE stub \in HasArgs /\ want = <<"send">> \o Answer(stub)
      <4>1. Head(want) = "send"
        BY Zenon, <3>2, AnswerFacts
      <4> QED
        BY <1>3, <1>5, <4>1
    <3> QED
      BY Zenon, <1>1, <3>1, <3>2 DEF Awaits
  <2>2. 1 \in 1 .. Len(want)
    BY <1>2, <1>7
  <2>3. AnnouncedTo(stub, a[1]) = <<>>
    <3>1. a[1].kind \notin Announcing
      BY Zenon, <1>6, <2>1, <2>2
    <3> QED
      BY Zenon, <1>4, <3>1, AnnouncedFacts
  <2>4. K = want
    BY <1>2, <2>3 DEF Kinds
  <2> QED
    BY Zenon, <1>1, <1>7, <2>4 DEF Whole
<1> QED
  BY Zenon, <1>3, <1>5, <1>6, <1>7 DEF a

-----------------------------------------------------------------------------
(* Steps that end a process, and steps of the one that is left.            *)

LEMMA InitIInv == Init => IInv
<1> SUFFICES ASSUME Init PROVE IInv
  OBVIOUS
<1>1. Pending({}, 0)
  <2>1. "none" \in Word /\ Arg(cpc) \in Word
    BY DEF Word, Arg, Path
  <2>2. SentStarts({}, 0, "none", Arg(cpc))
    BY <2>1, SentFacts
  <2>3. Sent({}, 0, "none", Arg(cpc)) = <<>>
    BY Zenon, <2>2 DEF SentStarts
  <2>4. ppc \notin InHand /\ ~Raise
    BY Zenon DEF Init, InHand, Raise, Early
  <2>5. 0 # 1 /\ 0 # 2
    OBVIOUS
  <2> QED
    BY Zenon, <2>3, <2>4, <2>5 DEF Init, Pending, Holds
<1>2. Asking
  <2>1. {} \in SUBSET Quick /\ 0 \in 0 .. 2
    OBVIOUS
  <2> QED
    BY Zenon, <1>1, <2>1 DEF Asking, Init
<1>3. Awaits(stub, want)
  <2>1. <<>> \in Seq(Kind \cup {"send"}) /\ \A i \in 1 .. Len(<<>>) : FALSE
    OBVIOUS
  <2> QED
    BY Zenon, <2>1 DEF Awaits, Init
<1>4. Talking
  BY Zenon, <1>2, <1>3 DEF Talking, Init, Place, StubAt, Early, INIT, CONFIG
<1> QED
  BY Zenon, <1>4 DEF IInv, Init, NeverRefused, ParentAlive, ChildAlive


LEMMA StayAlive ==
    ASSUME Talking', why' = "", ppc' # "dead"
    PROVE  IInv'
BY Zenon DEF IInv, NeverRefused, ParentAlive

(* The parent dies: what it has written is the beginning of its answer.    *)
LEMMA ParentEnds ==
    ASSUME Talking, NEW r, r \notin {"refused", "fatal"}, ParentDies(r)
    PROVE  IInv'
<1>1. Fits(stub, want, toChild)
  <2>1. CASE toChild = <<>>
    <3>1. <<>> \in Seq(ItemSet)
      OBVIOUS
    <3> QED
      BY Zenon, <2>1, <3>1 DEF Fits
  <2>2. CASE Answering
    <3>1. /\ toChild \in Seq(ItemSet) /\ pout \in Seq(ItemSet)
          /\ Fits(stub, want, toChild \o pout) /\ want \in Seq(Kind \cup {"send"})
      BY Zenon, <2>2 DEF Answering, Whole, Talking, Awaits
    <3> QED
      BY Zenon, <3>1, FitsPrefix
  <2> QED
    BY Zenon, <2>1, <2>2 DEF Talking, Asking, Served
<1>2. Awaits(stub, want)
  BY DEF Talking
<1>3. Orphan'
  BY <1>1, <1>2 DEF Orphan, ParentDies, child, Fits, Kinds, Awaits
<1> QED
  BY <1>3 DEF IInv, NeverRefused, ParentAlive, ParentDies

LEMMA ChildEnds ==
    ASSUME ParentAlive => why = "", ChildDies, UNCHANGED parent
    PROVE  IInv'
BY Zenon DEF IInv, NeverRefused, ParentAlive, ChildAlive, ChildDies, parent

(* The child is dead.                                                      *)
LEMMA DeadChild ==
    ASSUME ~ChildAlive, IInv, [Next]_vars
    PROVE  IInv'
<1> SUFFICES ~ChildAlive' /\ (ParentAlive' => why' = "")
  BY Zenon DEF IInv, NeverRefused
<1>1. ASSUME NEW r, ParentDies(r) PROVE ~ChildAlive' /\ (ParentAlive' => why' = "")
  BY <1>1 DEF ParentDies, ParentAlive, ChildAlive, child
<1>2. ASSUME UNCHANGED child, UNCHANGED why, ppc # "dead"
      PROVE  ~ChildAlive' /\ (ParentAlive' => why' = "")
  BY Zenon, <1>2 DEF ChildAlive, child, IInv, ParentAlive
<1>3. ASSUME UNCHANGED child, UNCHANGED why, UNCHANGED ppc
      PROVE  ~ChildAlive' /\ (ParentAlive' => why' = "")
  BY Zenon, <1>3 DEF ChildAlive, child, IInv, ParentAlive
<1>4. CASE ParentStep
  <2>1. CASE SetUp \/ Assign \/ Serve \/ ServeScript \/ Fork \/ WaitScript
    <3>1. UNCHANGED child /\ UNCHANGED why /\ ppc # "dead"
      BY <2>1 DEF SetUp, Assign, Serve, ServeScript, Fork, WaitScript, At
    <3> QED
      BY Zenon, <1>2, <3>1
  <2>2. CASE TestState \/ ReadCommand \/ Case \/ ReadArgs \/ Reply
    <3>1. \/ \E r : ParentDies(r)
          \/ UNCHANGED child /\ UNCHANGED why /\ ppc # "dead"
      BY Zenon, <2>2 DEF TestState, ReadCommand, Case, ReadArgs, Reply, At
    <3> QED
      BY Zenon, <1>1, <1>2, <3>1
  <2> QED
    BY Zenon, <1>4, <2>1, <2>2 DEF ParentStep
<1>5. CASE SigGotChld \/ ScriptEnds
  <2>1. UNCHANGED child /\ UNCHANGED why /\ UNCHANGED ppc
    BY <1>5 DEF SigGotChld, ScriptEnds, parent
  <2> QED
    BY Zenon, <1>3, <2>1
<1>6. CASE (\E s \in {"HUP", "TERM"} : Signal(s)) \/ ParentKilled
  <2>1. ParentDies("signal")
    BY <1>6 DEF Signal, ParentKilled
  <2> QED
    BY Zenon, <1>1, <2>1
<1>7. CASE UNCHANGED vars
  <2>1. UNCHANGED child /\ UNCHANGED why /\ UNCHANGED ppc
    BY <1>7 DEF vars, parent, child
  <2> QED
    BY ZenonT(30), <1>3, <2>1
<1>8. cpc = "dead"
  BY DEF ChildAlive
<1>9. ~(ChildStep \/ Event \/ HandleHup \/ HandleTerm \/ TunnelDown \/ HandlerEnds \/ ChildKilled)
  BY <1>8 DEF ChildStep, Event, HandleHup, HandleTerm, TunnelDown, HandlerEnds, ChildKilled,
              SendArgs, ReadItem, ReadEof, Start, Reload, DefaultSignal, ChildAlive
<1> QED
  BY Zenon, <1>4, <1>5, <1>6, <1>7, <1>9 DEF Next


(* The parent is dead.                                                     *)
LEMMA DeadParent ==
    ASSUME ChildAlive, ~ParentAlive, IInv, [Next]_vars
    PROVE  IInv'
<1>1. Orphan /\ ppc = "dead" /\ why \notin {"refused", "fatal"}
  BY DEF IInv, NeverRefused, ParentAlive
<1>2. ASSUME ChildDies, UNCHANGED parent PROVE IInv'
  BY Zenon, <1>2, ChildEnds
<1>3. ASSUME UNCHANGED <<parent, stub, want, toChild>> PROVE IInv'
  <2>1. Orphan'
    BY <1>1, <1>3 DEF Orphan, parent, Fits, Kinds, Awaits
  <2> QED
    BY SMTT(30), <1>1, <1>3, <2>1 DEF IInv, NeverRefused, ParentAlive, parent
<1>4. ASSUME ChildDies \/ UNCHANGED <<stub, want, toChild>>, UNCHANGED parent PROVE IInv'
  BY <1>2, <1>3, <1>4
<1>5. CASE ReadItem
  <2>1. CASE Fatal(Head(toChild))
    BY <1>2, <1>5, <2>1 DEF ReadItem
  <2>2. CASE ~Fatal(Head(toChild))
    <3> DEFINE v == Tail(want) \o AnnouncedTo(stub, Head(toChild))
    <3>1. /\ toChild # <<>> /\ toChild' = Tail(toChild) /\ want' = v /\ UNCHANGED parent
      BY Zenon, <1>5, <2>2 DEF ReadItem, Announced, AnnouncedTo
    <3>2. ReadOn(stub, want, toChild)
      <4>1. Awaits(stub, want) /\ Fits(stub, want, toChild) /\ toChild \in Seq(ItemSet)
        BY Zenon, <1>1 DEF Orphan, Fits
      <4> QED
        BY Zenon, <3>1, <4>1, ReadOnFacts
    <3>3. Fits(stub', want', toChild') /\ Awaits(stub', want')
      BY Zenon, <3>1, <3>2 DEF ReadOn
    <3>4. Orphan'
      BY Zenon, <1>1, <3>1, <3>3 DEF Orphan, parent, Fits, Kinds, Awaits
    <3> QED
      BY <1>1, <3>1, <3>4 DEF IInv, NeverRefused, ParentAlive, parent
  <2> QED
    BY <2>1, <2>2
<1>6. CASE ReadEof
  <2>1. CASE ChildDies
    BY <1>2, <1>6, <2>1 DEF ReadEof
  <2>2. CASE ~ChildDies
    <3>1. toChild = <<>> /\ toChild' = <<>> /\ want' = <<>> /\ stub' = "none" /\ UNCHANGED parent
      BY <1>6, <2>2 DEF ReadEof, Return
    <3>2. /\ <<>> \in Seq(Kind \cup {"send"}) /\ <<>> \in Seq(ItemSet)
          /\ \A i \in 1 .. Len(<<>>) : FALSE
      OBVIOUS
    <3>3. Fits(stub', want', toChild') /\ Awaits(stub', want')
      BY Zenon, <3>1, <3>2 DEF Fits, Awaits
    <3>4. Orphan'
      BY <1>1, <3>1, <3>3 DEF Orphan, parent, Fits, Kinds, Awaits
    <3> QED
      BY <1>1, <3>1, <3>4 DEF IInv, NeverRefused, ParentAlive, parent
  <2> QED
    BY <2>1, <2>2
<1>7. \A cmd, next : Call(cmd, next) => ChildDies /\ UNCHANGED parent
  BY <1>1 DEF Call, ParentAlive
<1>8. CASE SendArgs \/ Start \/ Reload \/ DefaultSignal \/ Event \/ HandleHup \/ HandleTerm
           \/ TunnelDown \/ HandlerEnds \/ ChildKilled
  <2>1. (ChildDies \/ UNCHANGED <<stub, want, toChild>>) /\ UNCHANGED parent
    BY <1>1, <1>7, <1>8 DEF SendArgs, Start, Reload, DefaultSignal, Event, HandleHup, HandleTerm,
          TunnelDown, HandlerEnds, ChildKilled, Goto, Exit, ParentAlive
  <2> QED
    BY <1>4, <2>1
<1>9. CASE (\E s \in {"HUP", "TERM"} : Signal(s)) \/ ScriptEnds
  <2>1. UNCHANGED <<parent, stub, want, toChild>>
    BY <1>1, <1>9 DEF Signal, ScriptEnds, child
  <2> QED
    BY <1>3, <2>1
<1>10. CASE UNCHANGED vars
  BY SMTT(30), <1>3, <1>10 DEF vars, child
<1>11. ~(ParentStep \/ SigGotChld \/ ParentKilled)
  BY <1>1 DEF ParentStep, SigGotChld, ParentKilled, ParentAlive, SetUp, TestState, ReadCommand, Case,
              Assign, ReadArgs, Serve, ServeScript, Fork, WaitScript, Reply, At
<1> QED
  BY Zenon, <1>5, <1>6, <1>8, <1>9, <1>10, <1>11 DEF Next, ChildStep


-----------------------------------------------------------------------------
(* Steps of the child while both are alive.                                *)

LEMMA StubFacts ==
    ASSUME NEW c \in Place, NEW s \in StubAt(c)
    PROVE  /\ s \in HasArgs \cup {"none"} /\ s \in Word /\ Arg(c) \in Word
           /\ s \in {"OPEN_TUN", "INIT_SCRIPT"} => c \in Early
           /\ s = "OPEN_CONFIG" => c \in {"config", "apply"}
           /\ c = "open" => s = "none"
<1>1. s \in {"none", "OPEN_CONFIG", "INIT_SCRIPT", "OPEN_TUN", "GETADDRINFO", "RUN_SCRIPT"}
  BY DEF Place, StubAt
<1>2. HasArgs = {"OPEN_CONFIG", "INIT_SCRIPT", "OPEN_TUN", "GETADDRINFO", "RUN_SCRIPT"}
  BY DEF HasArgs, Command
<1>3. HasArgs \subseteq Word /\ "none" \in Word /\ Arg(c) \in Word
  BY Zenon DEF HasArgs, Word, Arg, Path
<1>4. /\ s \in {"OPEN_TUN", "INIT_SCRIPT"} => c \in Early
      /\ s = "OPEN_CONFIG" => c \in {"config", "apply"}
      /\ c = "open" => s = "none"
  BY DEF Place, StubAt, Early
<1> QED
  BY Zenon, <1>1, <1>2, <1>3, <1>4

LEMMA TalkFrame ==
    ASSUME Talking, "child" \notin zombies',
           UNCHANGED <<ppc, curState, pcmd, pout, confFile, cpc, stub, want, toParent, toChild>>
    PROVE  Talking'
<1>1. Raise' <=> Raise
  BY DEF Raise
<1>2. ASSUME Asking PROVE Asking'
  <2>1. PICK A \in SUBSET Quick, k \in 0 .. 2 : Pending(A, k)
    BY Zenon, <1>2 DEF Asking
  <2>2. Pending(A, k)'
    BY <1>1, <2>1 DEF Pending
  <2> QED
    BY Zenon, <1>2, <2>2 DEF Asking
<1>3. ASSUME Served PROVE Served'
  BY Zenon, <1>1, <1>3 DEF Served
<1>4. ASSUME Answering PROVE Answering'
  BY Zenon, <1>1, <1>4 DEF Answering
<1> QED
  BY <1>2, <1>3, <1>4 DEF Talking

(* A child in no request has been answered.                                *)
LEMMA Idle ==
    ASSUME Talking, stub = "none"
    PROVE  Asking /\ \E A \in SUBSET Quick : Pending(A, 0)
<1>1. Asking
  BY Zenon DEF Talking, Served, Answering
<1>2. PICK A \in SUBSET Quick, k \in 0 .. 2 : Pending(A, k)
  BY Zenon, <1>1 DEF Asking
<1>3. k = 0
  BY <1>2 DEF Pending
<1> QED
  BY <1>1, <1>2, <1>3

(* One more item on the stream.                                            *)
LEMMA HoldsMore ==
    ASSUME NEW pc, NEW hand, NEW q \in Seq(Word), NEW line, NEW x \in Word,
           Holds(pc, hand, line, q)
    PROVE  Holds(pc, hand, Append(line, x), Append(q, x))
<1>1. CASE pc \notin InHand
  BY Zenon, <1>1 DEF Holds
<1>2. CASE pc \in InHand
  <2>1. q # <<>> /\ hand = Head(q) /\ line = Tail(q)
    BY Zenon, <1>2 DEF Holds
  <2>2. /\ Append(q, x) # <<>> /\ Head(Append(q, x)) = Head(q)
        /\ Tail(Append(q, x)) = Append(Tail(q), x)
    BY <2>1
  <2> QED
    BY Zenon, <1>2, <2>1, <2>2 DEF Holds
<1> QED
  BY <1>1, <1>2


(* The child goes to another place, and asks for nothing.                  *)
LEMMA MoveTalks ==
    ASSUME Talking, stub = "none", cpc \notin {"open", "reread"}, cpc' \in Place,
           "none" \in StubAt(cpc'), cpc' \in Early <=> cpc \in Early, cpc' # "open",
           UNCHANGED <<ppc, curState, pcmd, pout, confFile, zombies, stub, want, toParent, toChild>>
    PROVE  Talking'
<1>1. Asking /\ ppc # "setup"
  BY Idle DEF Talking
<1>2. PICK A \in SUBSET Quick : Pending(A, 0)
  BY Idle
<1>3. Raise' <=> Raise
  BY DEF Raise
<1>4. Sent(A, 0, "none", Arg(cpc)) = Sent(A, 0, "none", Arg(cpc'))
  <2>1. "none" \in Word /\ Arg(cpc) \in Word /\ Arg(cpc') \in Word
    BY DEF Word, Arg, Path
  <2>2. SentGrows(A, "none", Arg(cpc'), "none", Arg(cpc))
    BY Zenon, <2>1, SentAppend
  <2> QED
    BY Zenon, <2>2 DEF SentGrows
<1>5. Pending(A, 0)'
  BY <1>2, <1>3, <1>4 DEF Pending
<1>6. confFile # ""
  BY Zenon, <1>1 DEF Asking
<1>7. Asking'
  <2>1. 0 \in 0 .. 2
    OBVIOUS
  <2> QED
    BY Zenon, <1>1, <1>5, <1>6, <2>1 DEF Asking
<1> QED
  BY <1>1, <1>7 DEF Talking

(* It asks for something that has an answer.                               *)
LEMMA CallArgsTalks ==
    ASSUME Talking, NEW cmd \in HasArgs, stub = "none", cpc' \in Place,
           cmd \in StubAt(cpc'), cpc' \in Early <=> cpc \in Early,
           cpc = "open" => cpc' = "config" /\ cmd = "OPEN_CONFIG",
           cpc = "reread" => cpc' = "apply" /\ cmd = "OPEN_CONFIG",
           stub' = cmd, want' = <<"send">> \o Answer(cmd), toParent' = Append(toParent, cmd),
           UNCHANGED <<ppc, curState, pcmd, pout, confFile, zombies, toChild>>
    PROVE  Talking'
<1>1. Asking /\ (ppc = "setup" => cpc = "open")
  BY Idle DEF Talking
<1>2. PICK A \in SUBSET Quick : Pending(A, 0)
  BY Idle
<1>3. Raise' <=> Raise
  BY DEF Raise
<1>4. cmd \in Word /\ "none" \in Word /\ Arg(cpc) \in Word /\ Arg(cpc') \in Word /\ cmd # "none"
  BY Zenon DEF Word, Arg, Path, HasArgs, Command
<1>5. Holds(ppc, pcmd, Append(toParent, cmd), Sent(A, 1, cmd, Arg(cpc')))
  <2> DEFINE q == Sent(A, 0, "none", Arg(cpc))
  <2>1. q \in Seq(Word)
    <3>1. SentStarts(A, 0, "none", Arg(cpc))
      BY <1>4, SentFacts
    <3> QED
      BY Zenon, <3>1 DEF SentStarts
  <2>2. Append(q, cmd) = Sent(A, 1, cmd, Arg(cpc'))
    <3>1. SentGrows(A, cmd, Arg(cpc'), "none", Arg(cpc))
      BY Zenon, <1>4, SentAppend
    <3> QED
      BY Zenon, <3>1 DEF SentGrows
  <2>3. Holds(ppc, pcmd, toParent, q)
    BY Zenon, <1>2 DEF Pending
  <2> HIDE DEF q
  <2>4. Holds(ppc, pcmd, Append(toParent, cmd), Append(q, cmd))
    BY Zenon, <1>4, <2>1, <2>3, HoldsMore
  <2> QED
    BY Zenon, <2>2, <2>4
<1>6. "RELOAD_RESOLVER" \in A => cpc' = "apply" /\ cmd = "OPEN_CONFIG"
  BY <1>2 DEF Pending
<1>7. Pending(A, 1)'
  BY <1>2, <1>3, <1>4, <1>5, <1>6 DEF Pending
<1>8. confFile # "" \/ (cpc' = "config" /\ cmd = "OPEN_CONFIG")
  BY Zenon, <1>1 DEF Asking
<1>9. Asking'
  <2>1. 1 \in 0 .. 2
    OBVIOUS
  <2> QED
    BY Zenon, <1>1, <1>7, <1>8, <2>1 DEF Asking
<1>10. Awaits(cmd, want')
  <2>1. want' \in Seq(Kind \cup {"send"})
    BY Zenon, AnswerFacts
  <2> QED
    BY Zenon, <2>1 DEF Awaits
<1> QED
  BY <1>1, <1>9, <1>10 DEF Talking

(* It raises the state of the parent, or has its resolver read its file    *)
(* again.                                                                  *)
LEMMA CallQuickTalks ==
    ASSUME Talking, NEW cmd \in Quick, stub = "none",
           \/ cmd = "SET_RUNNING_STATE" /\ cpc = "set" /\ cpc' = "control"
           \/ cmd = "RELOAD_RESOLVER" /\ cpc = "reload" /\ cpc' = "reread",
           stub' = "none", want' = <<>>, toParent' = Append(toParent, cmd),
           UNCHANGED <<ppc, curState, pcmd, pout, confFile, zombies, toChild>>
    PROVE  Talking'
<1>1. Asking /\ ppc # "setup"
  BY Idle DEF Talking
<1>2. PICK A \in SUBSET Quick : Pending(A, 0)
  BY Idle
<1>3. curState \in {CONFIG, RUNNING} /\ (cpc = "set" => curState = CONFIG)
  BY <1>1 DEF Talking, Early
<1>4. cmd \in Word /\ "none" \in Word /\ Arg(cpc) \in Word /\ Arg(cpc') \in Word
  BY Zenon DEF Word, Arg, Path, Quick
<1>5. "RELOAD_RESOLVER" \notin A /\ (cpc = "set" => "SET_RUNNING_STATE" \notin A)
  BY <1>2 DEF Pending, Raise, Early
<1>6. Holds(ppc, pcmd, Append(toParent, cmd), Sent(A \cup {cmd}, 0, "none", Arg(cpc')))
  <2> DEFINE q == Sent(A, 0, "none", Arg(cpc))
  <2>1. q \in Seq(Word)
    <3>1. SentStarts(A, 0, "none", Arg(cpc))
      BY <1>4, SentFacts
    <3> QED
      BY Zenon, <3>1 DEF SentStarts
  <2>2. Append(q, cmd) = Sent(A \cup {cmd}, 0, "none", Arg(cpc'))
    <3>1. SentGrows(A, "none", Arg(cpc'), "none", Arg(cpc))
      BY Zenon, <1>4, SentAppend
    <3> QED
      BY Zenon, <1>5, <3>1 DEF SentGrows
  <2>3. Holds(ppc, pcmd, toParent, q)
    BY Zenon, <1>2 DEF Pending
  <2> HIDE DEF q
  <2>4. Holds(ppc, pcmd, Append(toParent, cmd), Append(q, cmd))
    BY Zenon, <1>4, <2>1, <2>3, HoldsMore
  <2> QED
    BY Zenon, <2>2, <2>4
<1>7. "SET_RUNNING_STATE" \in A \cup {cmd} <=> Raise'
  BY <1>2, <1>3 DEF Pending, Raise, Early, CONFIG, RUNNING
<1>8. Pending(A \cup {cmd}, 0)'
  <2>1. "RELOAD_RESOLVER" \in A \cup {cmd} => cpc' = "reread"
    BY <1>5
  <2> QED
    BY <1>6, <1>7, <2>1 DEF Pending
<1>9. confFile # ""
  BY Zenon, <1>1 DEF Asking
<1>10. Asking'
  <2>1. 0 \in 0 .. 2 /\ A \cup {cmd} \in SUBSET Quick
    OBVIOUS
  <2> QED
    BY Zenon, <1>1, <1>8, <1>9, <2>1 DEF Asking
<1>11. Awaits("none", <<>>)
  <2>1. <<>> \in Seq(Kind \cup {"send"}) /\ \A i \in 1 .. Len(<<>>) : FALSE
    OBVIOUS
  <2> QED
    BY Zenon, <2>1 DEF Awaits
<1>12. cpc' \in Place /\ "none" \in StubAt(cpc') /\ cpc' \notin Early
  BY DEF Place, StubAt, Early
<1> QED
  BY <1>1, <1>3, <1>10, <1>11, <1>12 DEF Talking


(* It sends the arguments of its request.                                  *)
LEMMA SendArgsTalks ==
    ASSUME Talking, ParentAlive, SendArgs
    PROVE  Talking'
<1>1. /\ want # <<>> /\ Head(want) = "send"
      /\ toParent' = Append(toParent, Arg(cpc)) /\ want' = Tail(want)
      /\ UNCHANGED <<ppc, curState, pcmd, pout, confFile, zombies, toChild, cpc, stub>>
  BY Zenon DEF SendArgs, Arg, parent, signals
<1>2. cpc \in Place /\ stub \in StubAt(cpc) /\ Awaits(stub, want)
  BY DEF Talking
<1>3. stub \in HasArgs \cup {"none"} /\ stub \in Word /\ Arg(cpc) \in Word
  BY <1>2, StubFacts
<1>4. want[1] = "send" /\ 1 \in 1 .. Len(want)
  BY <1>1, <1>2 DEF Awaits
<1>5. stub # "none" /\ want # Answer(stub) => stub \in HasArgs /\ want = <<"send">> \o Answer(stub)
  BY Zenon, <1>2, <1>3, <1>4 DEF Awaits
<1>6. stub # "none" => want # Answer(stub)
  <2>1. SUFFICES ASSUME stub # "none", want = Answer(stub) PROVE FALSE
    OBVIOUS
  <2>2. stub \in HasArgs
    BY <1>3, <2>1
  <2>3. want \in Seq(Kind)
    BY Zenon, <2>1, <2>2, AnswerFacts
  <2>4. want[1] \in Kind
    BY <1>4, <2>3
  <2> QED
    BY <1>4, <2>4 DEF Kind
<1>7. Asking
  <2>1. ~Served
    BY Zenon, <1>6 DEF Served
  <2>2. ~Answering
    BY Zenon, <1>4 DEF Answering, Whole, Fits
  <2> QED
    BY <2>1, <2>2 DEF Talking
<1>8. PICK A \in SUBSET Quick, k \in 0 .. 2 : Pending(A, k)
  BY Zenon, <1>7 DEF Asking
<1>9. k = 1 /\ stub # "none" /\ Pending(A, 1)
  <2>1. k = 0 \/ k = 1 \/ k = 2
    OBVIOUS
  <2> QED
    BY Zenon, <1>1, <1>6, <1>8, <2>1 DEF Pending
<1>10. stub \in HasArgs /\ want' = Answer(stub)
  BY Zenon, <1>1, <1>5, <1>6, <1>9, AnswerFacts
<1>11. Holds(ppc, pcmd, Append(toParent, Arg(cpc)), Sent(A, 2, stub, Arg(cpc)))
  <2> DEFINE q == Sent(A, 1, stub, Arg(cpc))
  <2>1. q \in Seq(Word)
    <3>1. SentStarts(A, 1, stub, Arg(cpc))
      BY <1>3, SentFacts
    <3> QED
      BY Zenon, <3>1 DEF SentStarts
  <2>2. Append(q, Arg(cpc)) = Sent(A, 2, stub, Arg(cpc))
    <3>1. SentGrows(A, stub, Arg(cpc), stub, Arg(cpc))
      BY Zenon, <1>3, SentAppend
    <3> QED
      BY Zenon, <3>1 DEF SentGrows
  <2>3. Holds(ppc, pcmd, toParent, q)
    BY Zenon, <1>9 DEF Pending
  <2> HIDE DEF q
  <2>4. Holds(ppc, pcmd, Append(toParent, Arg(cpc)), Append(q, Arg(cpc)))
    BY Zenon, <1>3, <2>1, <2>3, HoldsMore
  <2> QED
    BY Zenon, <2>2, <2>4
<1>12. Raise' <=> Raise
  BY <1>1 DEF Raise
<1>13. Pending(A, 2)'
  BY <1>1, <1>9, <1>10, <1>11, <1>12 DEF Pending
<1>14. Asking'
  <2>1. 2 \in 0 .. 2
    OBVIOUS
  <2> QED
    BY Zenon, <1>1, <1>7, <1>13, <2>1 DEF Asking
<1>15. Awaits(stub, want')
  <2>1. Answer(stub) \in Seq(Kind)
    BY Zenon, <1>10, AnswerFacts
  <2>2. Answer(stub) \in Seq(Kind \cup {"send"})
    BY <2>1
  <2> QED
    BY Zenon, <1>10, <2>2 DEF Awaits
<1> QED
  BY <1>1, <1>14, <1>15 DEF Talking

(* Nothing is on its way, and the child asks for nothing.                  *)
Quiet ==
    /\ ppc \in {"test", "read", "reply"} /\ pout = <<>> /\ toChild = <<>> /\ toParent = <<>>
    /\ stub = "none" /\ want = <<>> /\ ~Raise /\ confFile # ""

LEMMA QuietAsks ==
    ASSUME Quiet'
    PROVE  Asking'
<1>1. Pending({}, 0)'
  <2>1. "none" \in Word /\ Arg(cpc') \in Word
    BY DEF Word, Arg, Path
  <2>2. SentStarts({}, 0, "none", Arg(cpc'))
    BY <2>1, SentFacts
  <2>3. Sent({}, 0, "none", Arg(cpc')) = <<>>
    BY Zenon, <2>2 DEF SentStarts
  <2>4. ppc' \notin InHand
    BY Zenon DEF InHand, Quiet
  <2>5. 0 # 1 /\ 0 # 2
    OBVIOUS
  <2> QED
    BY Zenon, <2>3, <2>4, <2>5 DEF Pending, Holds, Quiet
<1>2. {} \in SUBSET Quick /\ 0 \in 0 .. 2
  OBVIOUS
<1> QED
  BY Zenon, <1>1, <1>2 DEF Asking, Quiet

(* It reads an item of an answer.                                          *)
LEMMA ReadItemTalks ==
    ASSUME Talking, ReadItem, ~Fatal(Head(toChild))
    PROVE  Talking'
<1> DEFINE v == Tail(want) \o AnnouncedTo(stub, Head(toChild))
           a == toChild \o pout
<1>1. /\ toChild # <<>> /\ toChild' = Tail(toChild) /\ want' = v
      /\ UNCHANGED <<ppc, curState, pcmd, pout, confFile, zombies, toParent>>
      /\ v # <<>> => UNCHANGED <<cpc, stub>>
      /\ v = <<>> => stub' = "none" /\ (cpc' = cpc \/ (cpc = "apply" /\ cpc' = "loop"))
  BY Zenon DEF ReadItem, Announced, AnnouncedTo, parent, signals, Return
<1>2. Answering
  BY Zenon, <1>1 DEF Talking, Asking, Served
<1>3. /\ toChild \in Seq(ItemSet) /\ pout \in Seq(ItemSet) /\ Awaits(stub, want)
      /\ Whole(stub, want, a)
  BY Zenon, <1>2 DEF Answering, Talking
<1>4. /\ a \in Seq(ItemSet) /\ a # <<>> /\ Head(a) = Head(toChild)
      /\ Tail(a) = Tail(toChild) \o pout /\ Tail(toChild) \in Seq(ItemSet)
  <2>1. a \in Seq(ItemSet) /\ a # <<>> /\ Head(a) = Head(toChild)
    BY <1>1, <1>3
  <2>2. Tail(toChild) \in Seq(ItemSet) /\ Tail(a) = Tail(toChild) \o pout
    BY <1>1, <1>3
  <2> QED
    BY <2>1, <2>2
<1>5. ReadOn(stub, want, a)
  BY Zenon, <1>3, <1>4, ReadOnFacts DEF Whole
<1>6. /\ \A z : Awaits(z, v)
      /\ v # <<>> => Whole(stub, v, Tail(toChild) \o pout)
      /\ v = <<>> => Tail(toChild) \o pout = <<>>
  BY Zenon, <1>3, <1>4, <1>5 DEF ReadOn
<1> HIDE DEF v, a
<1>7. Raise' <=> Raise
  BY <1>1 DEF Raise, Early
<1>8. CASE v # <<>>
  <2>1. Answering'
    BY ZenonT(30), <1>1, <1>2, <1>4, <1>6, <1>7, <1>8 DEF Answering
  <2> QED
    BY <1>1, <1>6, <1>8, <2>1 DEF Talking
<1>9. CASE v = <<>>
  <2>1. toChild' = <<>> /\ pout' = <<>>
    BY <1>1, <1>3, <1>4, <1>6, <1>9
  <2>2. /\ ppc' \in {"test", "read", "reply"} /\ toParent' = <<>> /\ ~Raise' /\ confFile' # ""
        /\ ppc' # "setup" /\ ppc' \notin {"args", "assign"}
    BY Zenon, <1>1, <1>2, <1>7 DEF Answering
  <2>3. Asking'
    BY Zenon, <1>1, <1>9, <2>1, <2>2, QuietAsks DEF Quiet
  <2>4. cpc' \in Place /\ "none" \in StubAt(cpc') /\ (cpc' \in Early <=> cpc \in Early)
    <3>1. cpc \in Place
      BY DEF Talking
    <3> QED
      BY <1>1, <1>9, <3>1 DEF Place, StubAt, Early
  <2> QED
    BY Zenon, <1>1, <1>6, <1>9, <2>2, <2>3, <2>4 DEF Talking
<1> QED
  BY <1>8, <1>9


-----------------------------------------------------------------------------
(* Steps of the parent while both are alive.                               *)

(* What it takes from the stream or has taken.                             *)
Taken(A, k, s, arg, hand, line) ==
    /\ hand = "SET_RUNNING_STATE" =>
          hand \in A /\ line = Sent(A \ {hand}, k, s, arg)
    /\ hand = "RELOAD_RESOLVER" =>
          hand \in A /\ line = Sent(A \ {hand}, k, s, arg)
    /\ hand \in HasArgs =>
          A = {} /\ hand = s /\ (k = 1 \/ k = 2) /\ (k = 1 => line = <<>>)
          /\ (k = 2 => line = <<arg>>)
    /\ hand \in HasArgs \cup {"SET_RUNNING_STATE", "RELOAD_RESOLVER"}
    /\ hand = "SET_RUNNING_STATE" \/ "SET_RUNNING_STATE" \notin A

LEMMA HoldsNext ==
    ASSUME NEW A \in SUBSET Quick, NEW k \in 0 .. 2, NEW s \in HasArgs \cup {"none"},
           NEW arg \in Word, NEW pc \in InHand, NEW hand, NEW line,
           k # 0 => s \in HasArgs,
           Holds(pc, hand, line, Sent(A, k, s, arg))
    PROVE  Taken(A, k, s, arg, hand, line)
<1>1. /\ Quick = {"SET_RUNNING_STATE", "RELOAD_RESOLVER"}
      /\ "SET_RUNNING_STATE" \notin HasArgs /\ "RELOAD_RESOLVER" \notin HasArgs
      /\ "none" \notin HasArgs /\ "SET_RUNNING_STATE" # "RELOAD_RESOLVER"
  BY DEF Quick, HasArgs, Command
<1>2. s \in Word
  BY DEF Word, HasArgs
<1>3. SentStarts(A, k, s, arg)
  BY <1>2, SentFacts
<1>4. /\ Sent(A, k, s, arg) # <<>> /\ hand = Head(Sent(A, k, s, arg))
      /\ line = Tail(Sent(A, k, s, arg))
  BY Zenon DEF Holds
<1>5. CASE "SET_RUNNING_STATE" \in A
  BY Zenon, <1>1, <1>3, <1>4, <1>5 DEF SentStarts, Taken
<1>6. CASE "SET_RUNNING_STATE" \notin A /\ "RELOAD_RESOLVER" \in A
  BY Zenon, <1>1, <1>3, <1>4, <1>6 DEF SentStarts, Taken
<1>7. CASE "SET_RUNNING_STATE" \notin A /\ "RELOAD_RESOLVER" \notin A
  <2>1. A = {}
    BY <1>1, <1>7
  <2>2. k # 0 /\ hand = s /\ (k = 1 => line = <<>>) /\ (k = 2 => line = <<arg>>)
    BY Zenon, <1>3, <1>4, <1>7 DEF SentStarts
  <2>3. k = 1 \/ k = 2
    BY <2>2
  <2> QED
    BY Zenon, <1>1, <1>7, <2>1, <2>2, <2>3 DEF Taken
<1> QED
  BY <1>5, <1>6, <1>7

LEMMA SetUpTalks ==
    ASSUME Talking, SetUp
    PROVE  Talking'
<1>1. /\ ppc = "setup" /\ ppc' = "test" /\ curState' = CONFIG /\ curState = INIT
      /\ UNCHANGED <<pcmd, pout, confFile, zombies, cpc, stub, want, toParent, toChild>>
  BY DEF SetUp, At, signals, child, Talking
<1>2. cpc \in Early /\ Asking
  <2>1. curState = INIT /\ INIT \notin {CONFIG, RUNNING}
    BY <1>1 DEF INIT, CONFIG, RUNNING
  <2> QED
    BY <1>1, <2>1 DEF Talking, Served, Answering
<1>3. Raise' <=> Raise
  BY <1>1, <1>2 DEF Raise
<1>4. PICK A \in SUBSET Quick, k \in 0 .. 2 : Pending(A, k)
  BY Zenon, <1>2 DEF Asking
<1>5. Pending(A, k)'
  <2>1. ppc \notin InHand /\ ppc' \notin InHand
    BY <1>1 DEF InHand
  <2> QED
    BY <1>1, <1>3, <1>4, <2>1 DEF Pending, Holds
<1>6. Asking'
  BY Zenon, <1>1, <1>2, <1>5 DEF Asking
<1> QED
  BY <1>1, <1>2, <1>6 DEF Talking, INIT, CONFIG


(* What a parent with a command in its hand finds.                         *)
LEMMA InHandTalks ==
    ASSUME Talking, ppc \in InHand
    PROVE  /\ Asking /\ curState # INIT
           /\ \E A \in SUBSET Quick, k \in 0 .. 2 :
                 Pending(A, k) /\ Taken(A, k, stub, Arg(cpc), pcmd, toParent)
<1>1. Asking /\ curState # INIT
  BY Zenon DEF Talking, Served, Answering, InHand
<1>2. PICK A \in SUBSET Quick, k \in 0 .. 2 : Pending(A, k)
  BY Zenon, <1>1 DEF Asking
<1>3. stub \in HasArgs \cup {"none"} /\ Arg(cpc) \in Word
  <2>1. cpc \in Place /\ stub \in StubAt(cpc)
    BY DEF Talking
  <2> QED
    BY <2>1, StubFacts
<1>4. k # 0 => stub \in HasArgs
  <2>1. k = 0 \/ k = 1 \/ k = 2
    OBVIOUS
  <2>2. k # 0 => stub # "none"
    BY Zenon, <1>2, <2>1 DEF Pending
  <2> QED
    BY <1>3, <2>2
<1>5. Holds(ppc, pcmd, toParent, Sent(A, k, stub, Arg(cpc)))
  BY Zenon, <1>2 DEF Pending
<1>6. Taken(A, k, stub, Arg(cpc), pcmd, toParent)
  BY Zenon, <1>3, <1>4, <1>5, HoldsNext
<1> QED
  BY Zenon, <1>1, <1>2, <1>6

(* A command has no case for the state of the parent only once the child   *)
(* is dead.                                                                *)
LEMMA CaseAllowed ==
    ASSUME Talking, ppc = "case"
    PROVE  Allowed
<1>1. ppc \in InHand
  BY DEF InHand
<1>2. PICK A \in SUBSET Quick, k \in 0 .. 2 :
         /\ Pending(A, k)
         /\ pcmd = "SET_RUNNING_STATE" => pcmd \in A
         /\ pcmd \in HasArgs => pcmd = stub
  BY Zenon, <1>1, InHandTalks DEF Taken
<1>3. curState # INIT /\ cpc \in Place /\ stub \in StubAt(cpc)
  BY <1>1, InHandTalks DEF Talking
<1>4. ASSUME pcmd = "SET_RUNNING_STATE" PROVE Allowed
  <2>1. cpc \notin Early /\ curState # RUNNING
    BY <1>2, <1>4 DEF Pending, Raise
  <2>2. curState = CONFIG
    BY <2>1 DEF Talking
  <2> QED
    BY <1>4, <2>2 DEF Allowed, CONFIG, RUNNING
<1>5. ASSUME pcmd \in {"OPEN_TUN", "INIT_SCRIPT"} PROVE Allowed
  <2>1. pcmd \in HasArgs
    BY <1>5 DEF HasArgs, Command
  <2>2. stub \in {"OPEN_TUN", "INIT_SCRIPT"}
    BY <1>2, <1>5, <2>1
  <2>3. cpc \in Early
    BY <1>3, <2>2, StubFacts
  <2>4. curState = CONFIG
    BY <1>3, <2>3 DEF Talking
  <2> QED
    BY <1>5, <2>4 DEF Allowed
<1>6. ASSUME pcmd # "SET_RUNNING_STATE", pcmd \notin {"OPEN_TUN", "INIT_SCRIPT"} PROVE Allowed
  BY <1>6 DEF Allowed
<1> QED
  BY <1>4, <1>5, <1>6

LEMMA CaseTalks ==
    ASSUME Talking, Case
    PROVE  Talking' /\ why' = why /\ ppc' # "dead"
<1>1. ppc = "case"
  BY DEF Case, At
<1>2. Allowed
  BY <1>1, CaseAllowed
<1>3. /\ UNCHANGED <<curState, pcmd, pout, confFile, zombies, cpc, stub, want, toParent, toChild, why>>
      /\ \/ pcmd \in HasArgs /\ ppc' = "args"
         \/ pcmd = "RELOAD_RESOLVER" /\ ppc' = "test"
         \/ pcmd = "SET_RUNNING_STATE" /\ ppc' = "assign"
  BY <1>2 DEF Case, At, Local, signals, child
<1>4. Asking /\ curState # INIT /\ ppc \in InHand
  BY <1>1, InHandTalks DEF InHand
<1>5. Raise' <=> Raise
  BY <1>3 DEF Raise
<1>6. PICK A \in SUBSET Quick, k \in 0 .. 2 :
         /\ Pending(A, k)
         /\ pcmd = "RELOAD_RESOLVER" =>
               pcmd \in A /\ toParent = Sent(A \ {pcmd}, k, stub, Arg(cpc))
  BY Zenon, <1>4, InHandTalks DEF Taken
<1>7. CASE ppc' \in InHand
  <2>1. Pending(A, k)'
    BY <1>3, <1>4, <1>5, <1>6, <1>7 DEF Pending, Holds
  <2>2. Asking'
    BY ZenonT(30), <1>3, <1>4, <2>1 DEF Asking
  <2> QED
    BY <1>3, <1>4, <2>2 DEF Talking
<1>8. CASE ppc' \notin InHand
  <2>1. pcmd = "RELOAD_RESOLVER" /\ ppc' = "test"
    BY <1>3, <1>8 DEF InHand
  <2>2. A \ {pcmd} \in SUBSET Quick /\ ("SET_RUNNING_STATE" \in A \ {pcmd} <=> "SET_RUNNING_STATE" \in A)
    BY <2>1
  <2>3. Pending(A \ {pcmd}, k)'
    BY <1>3, <1>5, <1>6, <1>8, <2>1, <2>2 DEF Pending, Holds
  <2>4. Asking'
    BY ZenonT(30), <1>3, <1>4, <2>1, <2>2, <2>3 DEF Asking
  <2> QED
    BY Zenon, <1>3, <1>4, <2>1, <2>4 DEF Talking
<1> QED
  BY <1>7, <1>8


LEMMA AssignTalks ==
    ASSUME Talking, Assign
    PROVE  Talking'
<1>1. /\ ppc = "assign" /\ ppc' = "test" /\ curState' = RUNNING /\ pcmd = "SET_RUNNING_STATE"
      /\ UNCHANGED <<pcmd, pout, confFile, zombies, cpc, stub, want, toParent, toChild>>
  BY Zenon DEF Assign, At, signals, child, Talking
<1>2. Asking /\ ppc \in InHand /\ ppc' \notin InHand
  BY <1>1, InHandTalks DEF InHand
<1>3. PICK A \in SUBSET Quick, k \in 0 .. 2 :
         Pending(A, k) /\ pcmd \in A /\ toParent = Sent(A \ {pcmd}, k, stub, Arg(cpc))
  BY Zenon, <1>1, <1>2, InHandTalks DEF Taken
<1>4. cpc \notin Early /\ ~Raise'
  BY <1>1, <1>3 DEF Pending, Raise
<1>5. Pending(A \ {pcmd}, k)'
  BY <1>1, <1>2, <1>3, <1>4 DEF Pending, Holds
<1>6. Asking'
  <2>1. A \ {pcmd} \in SUBSET Quick
    OBVIOUS
  <2> QED
    BY Zenon, <1>1, <1>2, <1>5, <2>1 DEF Asking
<1>7. RUNNING # INIT
  BY DEF INIT, RUNNING
<1> QED
  BY Zenon, <1>1, <1>4, <1>6, <1>7 DEF Talking

(* It takes a command from the stream.                                     *)
LEMMA ReadCommandTalks ==
    ASSUME Talking, ReadCommand, ChildAlive
    PROVE  Talking' /\ why' = why /\ ppc' # "dead"
<1>1. /\ toParent # <<>> /\ ppc = "read" /\ ppc' = "case"
      /\ pcmd' = Head(toParent) /\ toParent' = Tail(toParent)
      /\ UNCHANGED <<curState, pout, confFile, zombies, cpc, stub, want, toChild, why>>
  BY DEF ReadCommand, At, signals, child
<1>2. Asking
  BY Zenon, <1>1 DEF Talking, Served, Answering
<1>3. PICK A \in SUBSET Quick, k \in 0 .. 2 : Pending(A, k)
  BY Zenon, <1>2 DEF Asking
<1>4. Raise' <=> Raise
  BY <1>1 DEF Raise
<1>5. ppc \notin InHand /\ ppc' \in InHand
  BY <1>1 DEF InHand
<1>6. Pending(A, k)'
  <2>1. toParent = Sent(A, k, stub, Arg(cpc))
    BY Zenon, <1>3, <1>5 DEF Pending, Holds
  <2>2. Holds(ppc', pcmd', toParent', Sent(A, k, stub', Arg(cpc')))
    BY Zenon, <1>1, <1>5, <2>1 DEF Holds
  <2> QED
    BY <1>1, <1>3, <1>4, <2>2 DEF Pending
<1>7. Asking'
  BY ZenonT(30), <1>1, <1>2, <1>6 DEF Asking
<1> QED
  BY <1>1, <1>7 DEF Talking

(* It goes from one place with nothing in its hand to another.             *)
LEMMA StepTalks ==
    ASSUME Talking, ppc \in {"test", "reply"}, ppc' \in {"test", "read"}, pout = <<>>,
           UNCHANGED <<curState, pcmd, pout, confFile, zombies, cpc, stub, want, toParent, toChild>>
    PROVE  Talking'
<1>1. Raise' <=> Raise
  BY DEF Raise
<1>2. ASSUME Asking PROVE Asking'
  <2>1. PICK A \in SUBSET Quick, k \in 0 .. 2 : Pending(A, k)
    BY Zenon, <1>2 DEF Asking
  <2>2. ppc \notin InHand /\ ppc' \notin InHand
    BY DEF InHand
  <2>3. Pending(A, k)'
    BY <1>1, <2>1, <2>2 DEF Pending, Holds
  <2> QED
    BY Zenon, <1>2, <2>3 DEF Asking
<1>3. ASSUME Answering PROVE Answering'
  BY Zenon, <1>1, <1>3 DEF Answering
<1> QED
  BY Zenon, <1>2, <1>3 DEF Talking, Served

(* It reads the arguments; a path is empty only once the child is dead.    *)
LEMMA ReadArgsTalks ==
    ASSUME Talking, ReadArgs, ChildAlive
    PROVE  Talking' /\ why' = why /\ ppc' # "dead"
<1>1. ppc = "args" /\ pcmd \in HasArgs /\ toParent # <<>>
  BY Zenon DEF ReadArgs, At, Talking
<1>2. Asking /\ curState # INIT /\ ppc \in InHand
  BY <1>1, InHandTalks DEF InHand
<1>3. PICK A \in SUBSET Quick, k \in 0 .. 2 :
         Pending(A, k) /\ A = {} /\ pcmd = stub /\ (k = 1 \/ k = 2) /\ (k = 1 => toParent = <<>>)
         /\ (k = 2 => toParent = <<Arg(cpc)>>)
  BY Zenon, <1>1, <1>2, InHandTalks DEF Taken
<1>4. k = 2 /\ toParent = <<Arg(cpc)>> /\ stub # "none" /\ want = Answer(stub) /\ ~Raise
  <2>1. k = 2
    BY <1>1, <1>3
  <2> QED
    BY <1>3, <2>1 DEF Pending
<1>5. Head(toParent) = Arg(cpc) /\ Tail(toParent) = <<>>
  BY <1>4
<1>6. cpc \in Place /\ stub \in StubAt(cpc)
  BY DEF Talking
<1> DEFINE path == IF pcmd = "OPEN_CONFIG" THEN PathOf(Head(toParent)) ELSE confFile
<1>7. path # ""
  <2>1. CASE pcmd = "OPEN_CONFIG" /\ cpc \in Early
    <3>1. cpc = "config" /\ curState = CONFIG
      <4>1. cpc \in {"config", "apply"}
        BY <1>3, <1>6, <2>1, StubFacts
      <4> QED
        BY <1>2, <2>1, <4>1 DEF Talking, Early
    <3>2. Arg(cpc) # ""
      BY <3>1 DEF Arg
    <3> QED
      BY ZenonT(30), <1>5, <2>1, <3>1, <3>2 DEF PathOf
  <2>2. CASE pcmd = "OPEN_CONFIG" /\ cpc \notin Early
    <3>1. curState = RUNNING /\ confFile # ""
      BY Zenon, <1>2, <1>4, <2>2 DEF Raise, Asking, Early
    <3>2. RUNNING # CONFIG
      BY DEF CONFIG, RUNNING
    <3> QED
      BY Zenon, <2>2, <3>1, <3>2 DEF PathOf
  <2>3. CASE pcmd # "OPEN_CONFIG"
    <3>1. cpc # "open"
      BY <1>4, <1>6, StubFacts
    <3> QED
      BY Zenon, <1>2, <1>3, <2>3, <3>1 DEF Asking
  <2> QED
    BY Zenon, <2>1, <2>2, <2>3
<1>8. /\ ppc' = "serve" /\ confFile' = path /\ toParent' = <<>>
      /\ UNCHANGED <<curState, pcmd, pout, zombies, cpc, stub, want, toChild, why>>
  <2> HIDE DEF path
  <2>1. /\ At("args", "serve") /\ confFile' = path /\ toParent' = Tail(toParent)
        /\ UNCHANGED <<curState, pcmd, pout>>
    BY Zenon, <1>1, <1>7 DEF ReadArgs, path
  <2> QED
    BY <1>5, <2>1 DEF At, signals, child
<1> HIDE DEF path
<1>9. Raise' <=> Raise
  BY <1>8 DEF Raise
<1>10. Served'
  BY ZenonT(30), <1>2, <1>3, <1>4, <1>7, <1>8, <1>9 DEF Served, Asking
<1> QED
  BY <1>2, <1>8, <1>10 DEF Talking


(* An answer is ready.                                                     *)
LEMMA ReadyTalks ==
    ASSUME Talking, Served, ppc' = "reply", zombies' \subseteq zombies,
           \/ stub # "RUN_SCRIPT" /\ pout' \in Results(stub)
           \/ stub = "RUN_SCRIPT" /\ \E v \in {0, -1} : pout' = Status(v),
           UNCHANGED <<curState, pcmd, confFile, cpc, stub, want, toParent, toChild>>
    PROVE  Talking'
<1>1. stub \in HasArgs
  <2>1. cpc \in Place /\ stub \in StubAt(cpc) /\ stub # "none"
    BY Zenon DEF Talking, Served
  <2>2. stub \in HasArgs \cup {"none"}
    BY <2>1, StubFacts
  <2> QED
    BY <2>1, <2>2
<1>2. pout' \in Seq(ItemSet) /\ Whole(stub, want, pout')
  <2>1. want = Answer(stub)
    BY Zenon DEF Served
  <2> QED
    BY Zenon, <1>1, <2>1, ResultsFit
<1>3. toChild = <<>> /\ toChild \o pout' = pout' /\ toChild \in Seq(ItemSet)
  <2>1. toChild = <<>>
    BY Zenon DEF Served
  <2> QED
    BY <1>2, <2>1
<1>4. Raise' <=> Raise
  BY DEF Raise
<1>5. Answering'
  BY ZenonT(30), <1>2, <1>3, <1>4 DEF Answering, Served
<1>6. curState # INIT
  BY Zenon DEF Talking, Served
<1> QED
  BY <1>5, <1>6 DEF Talking

(* It serves a request.                                                    *)
LEMMA ServeTalks ==
    ASSUME Talking, Serve \/ ServeScript \/ Fork \/ WaitScript
    PROVE  Talking' /\ why' = why /\ ppc' # "dead"
<1>1. /\ ppc \in {"serve", "fork", "wait"} /\ ppc' \in {"fork", "wait", "reply"}
      /\ zombies' \subseteq zombies
      /\ UNCHANGED <<curState, pcmd, confFile, cpc, stub, want, toParent, toChild, why>>
  BY ZenonT(30) DEF Serve, ServeScript, Fork, WaitScript, At, signals, child
<1>2. Served
  BY Zenon, <1>1 DEF Talking, Asking, Answering
<1>3. ASSUME ppc' = "reply"
      PROVE  \/ stub # "RUN_SCRIPT" /\ pout' \in Results(stub)
             \/ stub = "RUN_SCRIPT" /\ \E v \in {0, -1} : pout' = Status(v)
  <2>1. pcmd = stub /\ (ppc # "serve" => stub = "RUN_SCRIPT")
    BY Zenon, <1>2 DEF Served
  <2>2. CASE Serve
    BY Zenon, <2>1, <2>2 DEF Serve
  <2>3. CASE ServeScript
    <3>1. stub = "RUN_SCRIPT" /\ pout' = Status(-1)
      BY <1>3, <2>1, <2>3 DEF ServeScript, At
    <3> QED
      BY <3>1
  <2>4. CASE Fork
    <3>1. stub = "RUN_SCRIPT" /\ pout' = Status(-1)
      BY <1>3, <2>1, <2>4 DEF Fork, At
    <3> QED
      BY <3>1
  <2>5. CASE WaitScript
    <3>1. stub = "RUN_SCRIPT" /\ pout' \in {Status(0), Status(-1)}
      BY <2>1, <2>5 DEF WaitScript
    <3> QED
      BY Zenon, <3>1
  <2> QED
    BY <2>2, <2>3, <2>4, <2>5
<1>4. CASE ppc' = "reply"
  <2>1. Talking'
    BY Zenon, <1>1, <1>2, <1>3, <1>4, ReadyTalks
  <2> QED
    BY <1>1, <1>4, <2>1
<1>5. CASE ppc' # "reply"
  <2>1. pcmd = "RUN_SCRIPT" /\ UNCHANGED pout
    <3>1. CASE ServeScript
      BY <1>5, <3>1 DEF ServeScript, At
    <3>2. CASE Fork
      BY ZenonT(30), <1>2, <1>5, <3>2 DEF Fork, At, Served
    <3>3. ~Serve /\ ~WaitScript
      BY <1>5 DEF Serve, WaitScript, At
    <3> QED
      BY <3>1, <3>2, <3>3
  <2>2. Raise' <=> Raise
    BY <1>1 DEF Raise
  <2>3. Served'
    BY ZenonT(30), <1>1, <1>2, <1>5, <2>1, <2>2 DEF Served
  <2>4. curState # INIT /\ ppc' \notin {"setup", "args", "assign", "dead"} /\ "child" \notin zombies'
    BY Zenon, <1>1 DEF Talking
  <2> QED
    BY <1>1, <2>3, <2>4 DEF Talking
<1> QED
  BY <1>4, <1>5

(* It writes an item of an answer, or has written them all.                *)
LEMMA ReplyTalks ==
    ASSUME Talking, Reply, ChildAlive
    PROVE  Talking' /\ why' = why /\ ppc' # "dead"
<1>1. CASE pout = <<>>
  <2>1. /\ ppc = "reply" /\ ppc' = "test"
        /\ UNCHANGED <<curState, pcmd, pout, confFile, zombies, cpc, stub, want, toParent, toChild, why>>
    BY <1>1 DEF Reply, At, Local, signals, child
  <2>2. Talking'
    BY <1>1, <2>1, StepTalks
  <2> QED
    BY <2>1, <2>2
<1>2. CASE pout # <<>>
  <2>1. /\ ppc = "reply" /\ ppc' = "reply"
        /\ toChild' = Append(toChild, Head(pout)) /\ pout' = Tail(pout)
        /\ UNCHANGED <<curState, pcmd, confFile, zombies, cpc, stub, want, toParent, why>>
    BY <1>2 DEF Reply, At, signals, child
  <2>2. Answering
    BY Zenon, <1>2 DEF Talking, Asking, Served
  <2>3. toChild \in Seq(ItemSet) /\ pout \in Seq(ItemSet)
    BY Zenon, <2>2 DEF Answering
  <2>4. /\ toChild' \in Seq(ItemSet) /\ pout' \in Seq(ItemSet)
        /\ toChild' \o pout' = toChild \o pout
    <3>1. /\ Append(toChild, Head(pout)) \in Seq(ItemSet) /\ Tail(pout) \in Seq(ItemSet)
          /\ Append(toChild, Head(pout)) \o Tail(pout) = toChild \o pout
      BY <1>2, <2>3
    <3> QED
      BY Zenon, <2>1, <3>1
  <2>5. Raise' <=> Raise
    BY <2>1 DEF Raise
  <2>6. Answering'
    BY ZenonT(30), <2>1, <2>2, <2>4, <2>5 DEF Answering
  <2> QED
    BY <2>1, <2>6 DEF Talking
<1> QED
  BY <1>1, <1>2


-----------------------------------------------------------------------------
(* Every step while both are alive.                                        *)

(* A call from place to next, for the calls the child makes.               *)
LEMMA CallStep ==
    ASSUME Talking, ParentAlive, why = "", NEW cmd \in Command, NEW next, Call(cmd, next),
           next \in Place, next \in Early <=> cpc \in Early,
           cmd \in HasArgs /\ cmd \in StubAt(next),
           cpc = "open" => next = "config" /\ cmd = "OPEN_CONFIG",
           cpc = "reread" => next = "apply" /\ cmd = "OPEN_CONFIG"
    PROVE  IInv'
<1>1. /\ stub = "none" /\ cpc' = next /\ stub' = cmd /\ want' = <<"send">> \o Answer(cmd)
      /\ toParent' = Append(toParent, cmd)
      /\ UNCHANGED <<ppc, curState, pcmd, pout, confFile, why, zombies, toChild>>
  BY ZenonT(30) DEF Call, parent, signals
<1>2. Talking'
  BY Zenon, <1>1, CallArgsTalks
<1> QED
  BY ZenonT(30), <1>1, <1>2, StayAlive DEF ParentAlive

LEMMA QuickStep ==
    ASSUME Talking, ParentAlive, why = "", NEW cmd \in Quick, NEW next, Call(cmd, next),
           \/ cmd = "SET_RUNNING_STATE" /\ cpc = "set" /\ next = "control"
           \/ cmd = "RELOAD_RESOLVER" /\ cpc = "reload" /\ next = "reread"
    PROVE  IInv'
<1>1. /\ stub = "none" /\ cpc' = next /\ stub' = "none" /\ want' = <<>>
      /\ toParent' = Append(toParent, cmd)
      /\ UNCHANGED <<ppc, curState, pcmd, pout, confFile, why, zombies, toChild>>
  BY Zenon DEF Call, parent, signals, Quick
<1>2. Talking'
  BY Zenon, <1>1, CallQuickTalks
<1> QED
  BY Zenon, <1>1, <1>2, StayAlive DEF ParentAlive

LEMMA MoveStep ==
    ASSUME Talking, ParentAlive, why = "", NEW next, stub = "none", cpc' = next,
           UNCHANGED <<parent, zombies, stub, want, toParent, toChild>>,
           \/ cpc = "config" /\ next = "tun"
           \/ cpc \in {"control", "check", "loop", "apply"} /\ next \in {"check", "loop", "reload", "quit"}
    PROVE  IInv'
<1>1. /\ cpc \notin {"open", "reread"} /\ next \in Place /\ "none" \in StubAt(next)
      /\ (next \in Early <=> cpc \in Early) /\ next # "open"
  <2>1. next \in {"tun", "check", "loop", "reload", "quit"}
    BY Zenon
  <2>2. next \in Place /\ "none" \in StubAt(next)
    BY Zenon, <2>1 DEF Place, StubAt, Early
  <2>3. cpc \notin {"open", "reread"} /\ (next \in Early <=> cpc \in Early) /\ next # "open"
    BY Zenon DEF Early
  <2> QED
    BY Zenon, <2>2, <2>3
<1>2. Talking'
  BY Zenon, <1>1, MoveTalks DEF parent
<1> QED
  BY Zenon, <1>2, StayAlive DEF ParentAlive, parent

LEMMA ChildStepIInv ==
    ASSUME Talking, ParentAlive, ChildAlive, why = "",
           \/ ChildStep \/ Event \/ HandleHup \/ HandleTerm \/ TunnelDown \/ HandlerEnds
           \/ ChildKilled
    PROVE  IInv'
<1> USE DEF ParentAlive
<1>1. ASSUME ChildDies, UNCHANGED parent PROVE IInv'
  BY Zenon, <1>1, ChildEnds
<1>2. CASE SendArgs
  <2>1. Talking'
    BY Zenon, <1>2, SendArgsTalks
  <2> QED
    BY Zenon, <1>2, <2>1, StayAlive DEF SendArgs, parent
<1>3. CASE ReadItem
  <2>1. CASE Fatal(Head(toChild))
    BY Zenon, <1>1, <1>3, <2>1 DEF ReadItem
  <2>2. CASE ~Fatal(Head(toChild))
    <3>1. Talking'
      BY Zenon, <1>3, <2>2, ReadItemTalks
    <3> QED
      BY Zenon, <1>3, <3>1, StayAlive DEF ReadItem, parent
  <2> QED
    BY Zenon, <2>1, <2>2
<1>4. ~ReadEof
  BY Zenon DEF ReadEof
<1>5. Exit => IInv'
  BY Zenon, <1>1 DEF Exit
<1>6. CASE DefaultSignal \/ ChildKilled
  BY Zenon, <1>1, <1>6 DEF DefaultSignal, ChildKilled
<1>7. CASE Start
  <2>1. CASE cpc = "open" /\ Call("OPEN_CONFIG", "config")
    BY Zenon, <2>1, CallStep DEF Command, HasArgs, Place, StubAt, Early
  <2>2. CASE cpc = "config" /\ Call("INIT_SCRIPT", "tun")
    BY Zenon, <2>2, CallStep DEF Command, HasArgs, Place, StubAt, Early
  <2>3. CASE cpc = "config" /\ Goto("tun")
    BY Zenon, <2>3, MoveStep DEF Goto, signals
  <2>4. CASE cpc = "tun" /\ Call("OPEN_TUN", "set")
    BY Zenon, <2>4, CallStep DEF Command, HasArgs, Place, StubAt, Early
  <2>5. CASE cpc = "set" /\ Call("SET_RUNNING_STATE", "control")
    BY Zenon, <2>5, QuickStep DEF Command, HasArgs, Quick
  <2>6. CASE cpc = "control" /\ Call("GETADDRINFO", "check")
    BY Zenon, <2>6, CallStep DEF Command, HasArgs, Place, StubAt, Early
  <2>7. CASE cpc = "control" /\ Goto("check")
    BY Zenon, <2>7, MoveStep DEF Goto, signals
  <2>8. CASE cpc = "check" /\ Goto("loop")
    BY Zenon, <2>8, MoveStep DEF Goto, signals
  <2> QED
    BY Zenon, <1>5, <1>7, <2>1, <2>2, <2>3, <2>4, <2>5, <2>6, <2>7, <2>8 DEF Start
<1>8. CASE Event
  <2>1. CASE cpc = "loop" /\ Call("RUN_SCRIPT", "loop")
    BY Zenon, <2>1, CallStep DEF Command, HasArgs, Place, StubAt
  <2>2. CASE cpc = "loop" /\ Call("GETADDRINFO", "loop")
    BY Zenon, <2>2, CallStep DEF Command, HasArgs, Place, StubAt
  <2> QED
    BY Zenon, <1>8, <2>1, <2>2 DEF Event
<1>9. CASE Reload
  <2>1. CASE cpc = "reload" /\ Call("RELOAD_RESOLVER", "reread")
    BY Zenon, <2>1, QuickStep DEF Command, HasArgs, Quick
  <2>2. CASE cpc = "reread" /\ Call("OPEN_CONFIG", "apply")
    BY Zenon, <2>2, CallStep DEF Command, HasArgs, Place, StubAt, Early
  <2> QED
    BY Zenon, <1>9, <2>1, <2>2 DEF Reload
<1>10. CASE TunnelDown
  <2>1. CASE cpc = "apply" /\ Call("RUN_SCRIPT", cpc)
    BY Zenon, <2>1, CallStep DEF Command, HasArgs, Place, StubAt
  <2>2. CASE cpc = "quit" /\ Call("RUN_SCRIPT", cpc)
    BY Zenon, <2>2, CallStep DEF Command, HasArgs, Place, StubAt
  <2> QED
    BY Zenon, <1>10, <2>1, <2>2 DEF TunnelDown
<1>11. CASE HandleHup \/ HandleTerm
  BY Zenon, <1>11, MoveStep DEF HandleHup, HandleTerm
<1>12. CASE HandlerEnds
  <2>1. CASE cpc = "apply" /\ Goto("loop")
    BY Zenon, <2>1, MoveStep DEF Goto, signals
  <2> QED
    BY Zenon, <1>5, <1>12, <2>1 DEF HandlerEnds
<1> QED
  BY Zenon, <1>2, <1>3, <1>4, <1>6, <1>7, <1>8, <1>9, <1>10, <1>11, <1>12 DEF ChildStep


LEMMA ParentStepIInv ==
    ASSUME Talking, ParentAlive, ChildAlive, why = "", ParentStep
    PROVE  IInv'
<1>1. CASE SetUp
  <2>1. Talking'
    BY Zenon, <1>1, SetUpTalks
  <2> QED
    BY Zenon, <1>1, <2>1, StayAlive DEF SetUp, At
<1>2. CASE TestState
  <2>1. CASE ParentDies("quit")
    BY Zenon, <2>1, ParentEnds
  <2>2. CASE At("test", "read") /\ Local
    <3>1. pout = <<>>
      BY Zenon, <2>2 DEF Talking, Asking, Served, Answering, At
    <3>2. Talking'
      BY Zenon, <2>2, <3>1, StepTalks DEF At, Local, signals, child
    <3> QED
      BY ZenonT(30), <2>2, <3>2, StayAlive DEF At
  <2> QED
    BY Zenon, <1>2, <2>1, <2>2 DEF TestState
<1>3. CASE ReadCommand \/ Case \/ ReadArgs \/ Reply \/ Serve \/ ServeScript \/ Fork \/ WaitScript
  <2>1. Talking' /\ why' = why /\ ppc' # "dead"
    BY Zenon, <1>3, ReadCommandTalks, CaseTalks, ReadArgsTalks, ReplyTalks, ServeTalks
  <2> QED
    BY Zenon, <2>1, StayAlive
<1>4. CASE Assign
  <2>1. Talking'
    BY ZenonT(30), <1>4, AssignTalks
  <2> QED
    BY Zenon, <1>4, <2>1, StayAlive DEF Assign, At
<1> QED
  BY Zenon, <1>1, <1>2, <1>3, <1>4 DEF ParentStep

LEMMA NextIInv ==
    ASSUME IInv, [Next]_vars
    PROVE  IInv'
<1>1. CASE ~ChildAlive
  BY <1>1, DeadChild
<1>2. CASE ChildAlive /\ ~ParentAlive
  BY <1>2, DeadParent
<1>3. CASE ChildAlive /\ ParentAlive
  <2>1. Talking /\ why = "" /\ ppc # "dead"
    BY Zenon, <1>3 DEF IInv, ParentAlive
  <2>2. ASSUME UNCHANGED <<ppc, curState, pcmd, pout, confFile, cpc, stub, want, toParent, toChild>>,
               UNCHANGED why, "child" \notin zombies'
        PROVE  IInv'
    <3>1. Talking'
      BY Zenon, <2>1, <2>2, TalkFrame
    <3> QED
      BY Zenon, <2>1, <2>2, <3>1, StayAlive
  <2>3. CASE ParentStep
    BY Zenon, <1>3, <2>1, <2>3, ParentStepIInv
  <2>4. CASE \/ ChildStep \/ Event \/ HandleHup \/ HandleTerm \/ TunnelDown \/ HandlerEnds
             \/ ChildKilled
    BY Zenon, <1>3, <2>1, <2>4, ChildStepIInv
  <2>5. "child" \notin zombies
    BY Zenon, <2>1 DEF Talking
  <2>6. CASE SigGotChld
    BY <2>2, <2>5, <2>6 DEF SigGotChld, child
  <2>7. CASE ScriptEnds
    BY <2>2, <2>5, <2>7 DEF ScriptEnds, parent, child
  <2>8. CASE ParentKilled
    BY Zenon, <2>1, <2>8, ParentEnds DEF ParentKilled
  <2>9. CASE \E s \in {"HUP", "TERM"} : Signal(s)
    <3>1. CASE ParentDies("signal")
      BY ZenonT(30), <2>1, <3>1, ParentEnds
    <3>2. CASE ~ParentDies("signal")
      BY SMTT(30), <2>2, <2>5, <2>9, <3>2 DEF Signal, parent, child
    <3> QED
      BY <3>1, <3>2
  <2>10. CASE UNCHANGED vars
    BY <2>2, <2>5, <2>10 DEF vars, parent, signals, child
  <2> QED
    BY Zenon, <2>3, <2>4, <2>6, <2>7, <2>8, <2>9, <2>10 DEF Next
<1> QED
  BY <1>1, <1>2, <1>3

(* Whatever the order of requests, signals, deaths and scripts, and        *)
(* however many addresses an answer has, the invariant holds.              *)
THEOREM IInvariance == Spec => []IInv
<1>1. Init => IInv
  BY InitIInv
<1>2. IInv /\ [Next]_vars => IInv'
  BY NextIInv
<1> QED
  BY <1>1, <1>2, PTL DEF Spec

(* must_read of the child always meets the item that the parent wrote for  *)
(* it, until one of them is dead.                                          *)
THEOREM InStepAlways == Spec => []InStep
BY IInvariance, IInvInStep, PTL

(* priv_init ends with "refused" or on an empty path only when the child   *)
(* that asked is dead.                                                     *)
THEOREM NeverRefusedAlways == Spec => []NeverRefused
<1>1. IInv => NeverRefused
  BY Zenon DEF IInv
<1> QED
  BY <1>1, IInvariance, PTL

=============================================================================
