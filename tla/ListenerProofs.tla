--------------------------- MODULE ListenerProofs ---------------------------
(***************************************************************************)
(* Proofs about one slot of the management listener, for every buffer size *)
(* and reply size, every set of requests and every setting of the limits.  *)
(***************************************************************************)
EXTENDS Listener, NaturalsInduction, WellFoundedInduction, SequenceTheorems, TLAPS

\* A non-empty set of naturals has a least element: a loop over an array that
\* stops at the first match stops whenever a match exists.
LEMMA LeastNatural ==
    ASSUME NEW S \in SUBSET Nat, S # {}
    PROVE  \E x \in S : \A y \in S : x <= y
<1>. DEFINE R == OpToRel(<, Nat)
<1>1. IsWellFoundedOn(R, Nat) BY NatLessThanWellFounded
<1>. HIDE DEF R
<1>2. \E x \in S : \A y \in S : ~ (<<y, x>> \in R) BY <1>1, WFMin
<1>3. \A x, y \in Nat : (y < x) => <<y, x>> \in R BY DEF R, OpToRel
<1>4. PICK x \in S : \A y \in S : ~ (<<y, x>> \in R) BY <1>2
<1>5. \A y \in S : ~ (y < x) BY <1>3, <1>4
<1>6. \A y \in S : x <= y BY <1>5
<1>. QED BY <1>6

-----------------------------------------------------------------------------
(* The invariant *)

Msgs == {Hello, Other} \cup Requests

\* A buffered request that was already handled had its reply split.
Tracked == {r \in [kind : Kinds, close : BOOLEAN, ran : 0 .. 2, split : BOOLEAN] :
                r.ran > 0 => r.split}

SlotState ==
    [sock : {"closed", "listen", "synrcvd", "estab", "closewait", "fin"},
     peer : {"none", "live", "gone"}, rx : Seq(Msgs), txq : 0 .. TxCap,
     st : {"ch", "app", "fail"}, tx : Nat, http : Seq(Tracked),
     own : {"none", "current", "old"},
     announced : BOOLEAN, accept : Nat, kept : BOOLEAN, lastHttp : Nat,
     closing : BOOLEAN, drained : Nat \cup {Unset}, closeAt : Nat, fin : BOOLEAN]

\* A socket on its way to a connection has received nothing and sits on a session
\* that holds nobody's bytes; so does one no tick has announced; and no session is
\* ever another connection's.
Untouched(s) ==
    /\ s.sock \in {"listen", "synrcvd"} => s.own = "none" /\ s.rx = <<>>
    /\ ~s.announced => s.own = "none" /\ ~s.kept /\ ~s.closing
    /\ s.own # "old"

Good(s) == s \in SlotState /\ Untouched(s)

ListenerIInv == Good(slot)

-----------------------------------------------------------------------------
(* Operators that touch the bookkeeping only *)

\* The smaller of two numbers is one of them, and no larger than either.
LEMMA MinOfTwo ==
    ASSUME NEW a \in Int, NEW b \in Int
    PROVE  Min({a, b}) = IF a <= b THEN a ELSE b
BY SMT DEF Min

\* A new session: nothing buffered, nobody's bytes, the rest as it was.
LEMMA ResetDoes ==
    ASSUME NEW s \in SlotState
    PROVE  /\ SessionReset(s) \in SlotState
           /\ SessionReset(s).own = "none"
           /\ SessionReset(s).sock = s.sock /\ SessionReset(s).rx = s.rx
           /\ SessionReset(s).announced = s.announced
           /\ SessionReset(s).kept = s.kept /\ SessionReset(s).closing = s.closing
<1>1. <<>> \in Seq(Tracked) OBVIOUS
<1>. QED BY <1>1 DEF SlotState, SessionReset

\* listen() empties the buffers.
LEMMA ListenDoes ==
    ASSUME NEW s \in SlotState
    PROVE  /\ Listen(s) \in SlotState
           /\ Listen(s).sock = "listen" /\ Listen(s).rx = <<>>
           /\ Listen(s).own = s.own
           /\ Listen(s).announced = s.announced
           /\ Listen(s).kept = s.kept /\ Listen(s).closing = s.closing
<1>1. <<>> \in Seq(Msgs) /\ 0 \in 0 .. TxCap BY ListenerAssumption
<1>. QED BY <1>1 DEF SlotState, Listen

\* An empty record for the slot leaves the socket and the session alone.
LEMMA RtEmptyDoes ==
    ASSUME NEW s \in SlotState
    PROVE  /\ RtEmpty(s) \in SlotState
           /\ ~RtEmpty(s).announced /\ ~RtEmpty(s).kept /\ ~RtEmpty(s).closing
           /\ RtEmpty(s).sock = s.sock /\ RtEmpty(s).rx = s.rx /\ RtEmpty(s).own = s.own
BY DEF SlotState, RtEmpty, Unset

\* session_relisten leaves a listening slot with nothing of the last client.
LEMMA RelistenGood ==
    ASSUME NEW s \in SlotState
    PROVE  Good(SessionRelisten(s))
<1>. DEFINE l == Listen(s)
            r == SessionReset(l)
<1>1. l \in SlotState /\ l.sock = "listen" /\ l.rx = <<>> BY ListenDoes
<1>. HIDE DEF l
<1>2. r \in SlotState /\ r.sock = "listen" /\ r.rx = <<>> /\ r.own = "none"
  BY <1>1, ResetDoes
<1>. HIDE DEF r
<1>3. Good(RtEmpty(r)) BY <1>2, RtEmptyDoes DEF Good, Untouched
<1>. QED BY <1>3 DEF SessionRelisten, r, l

\* listen() and a new session on a closed slot.
LEMMA ListenResetGood ==
    ASSUME NEW s, Good(s), ~s.announced
    PROVE  /\ Good([SessionReset(Listen(s)) EXCEPT !.accept = 0])
           /\ [SessionReset(Listen(s)) EXCEPT !.accept = 0].sock = "listen"
           /\ Good(Listen(s))
<1>. DEFINE l == Listen(s)
            r == SessionReset(l)
<1>0. s \in SlotState /\ s.own = "none" /\ ~s.kept /\ ~s.closing BY DEF Good, Untouched
<1>1. /\ l \in SlotState /\ l.sock = "listen" /\ l.rx = <<>> /\ l.own = "none"
      /\ ~l.announced /\ ~l.kept /\ ~l.closing
  BY <1>0, ListenDoes
<1>. HIDE DEF l
<1>2. /\ r \in SlotState /\ r.sock = "listen" /\ r.rx = <<>> /\ r.own = "none"
      /\ ~r.announced /\ ~r.kept /\ ~r.closing
  BY <1>1, ResetDoes
<1>. HIDE DEF r
<1>3. Good(l) BY <1>1 DEF Good, Untouched
<1>4. Good([r EXCEPT !.accept = 0]) /\ [r EXCEPT !.accept = 0].sock = "listen"
  BY <1>2 DEF Good, Untouched, SlotState
<1>. QED BY <1>3, <1>4 DEF r, l

\* The drain, the FIN, the wait and the forced close of a slot that is closing.
LEMMA ClosingGood ==
    ASSUME NEW s, Good(s), s.closing
    PROVE  Good(ClosingStep(s))
<1>. USE DEF Good
<1>1. Good(SessionRelisten(s)) BY RelistenGood
<1>2. Good([s EXCEPT !.drained = Unset]) BY DEF Untouched, SlotState, Unset
<1>3. ASSUME NEW since \in Nat
      PROVE  /\ Good([s EXCEPT !.drained = since])
             /\ Good(SessionReset([CloseSock(s) EXCEPT
                            !.fin = TRUE, !.closeAt = 0, !.drained = since]))
  <2>. DEFINE c == [CloseSock(s) EXCEPT !.fin = TRUE, !.closeAt = 0, !.drained = since]
  <2>1. Good([s EXCEPT !.drained = since]) BY DEF Untouched, SlotState
  <2>2. /\ CloseSock(s) \in SlotState
        /\ CloseSock(s).rx = s.rx /\ CloseSock(s).announced = s.announced
        /\ CloseSock(s).sock \in {"fin", "closed", "listen"}
        /\ CloseSock(s).sock = "listen" => s.sock = "listen"
    BY DEF SlotState, CloseSock, IsActive
  <2>3. /\ c \in SlotState /\ c.rx = s.rx /\ c.announced = s.announced
        /\ c.sock \in {"fin", "closed", "listen"} /\ (c.sock = "listen" => s.sock = "listen")
    BY <2>2 DEF SlotState
  <2>4. s.announced BY DEF Untouched
  <2>. HIDE DEF c
  <2>5. Good(SessionReset(c)) BY <2>3, <2>4, ResetDoes DEF Untouched
  <2>. QED BY <2>1, <2>5 DEF c
<1>4. (IF s.drained = Unset THEN 0 ELSE s.drained) \in Nat BY DEF SlotState
<1>. QED BY <1>1, <1>2, <1>3, <1>4 DEF ClosingStep

\* The first sight of a connection announces it on a session of its own.
LEMMA AnnounceGood ==
    ASSUME NEW s, Good(s), IsOpen(s)
    PROVE  /\ Good(Announce(s))
           /\ Announce(s).announced \/ Announce(s).rx = <<>>
           /\ IsActive(Announce(s)) => Announce(s).announced
<1>. DEFINE a == [s EXCEPT !.announced = TRUE, !.accept = 0]
<1>1. CASE IsActive(s) /\ ~s.announced
  <2>1. a \in SlotState /\ a.sock = s.sock /\ a.rx = s.rx /\ a.announced /\ ~s.kept
    BY <1>1 DEF Good, Untouched, SlotState
  <2>2. Announce(s) = SessionReset(a) BY <1>1, <2>1 DEF Announce
  <2>. HIDE DEF a
  <2>3. Good(SessionReset(a)) /\ SessionReset(a).announced
    BY <2>1, ResetDoes DEF Good, Untouched
  <2>. QED BY <2>2, <2>3
<1>2. CASE ~(IsActive(s) /\ ~s.announced)
  <2>1. Announce(s) = s BY <1>2 DEF Announce
  <2>. QED BY <1>2, <2>1 DEF Good, Untouched, IsActive, IsOpen
<1>. QED BY <1>1, <1>2

\* Sealed bytes move to the socket as far as they fit.
LEMMA DrainGood ==
    ASSUME NEW s, Good(s)
    PROVE  /\ Good(DrainTls(s))
           /\ DrainTls(s).announced = s.announced
           /\ DrainTls(s).sock = s.sock
           /\ DrainTls(s).http = s.http
<1>. DEFINE k == IF CanSend(s) THEN Min({s.tx, Free(s)}) ELSE 0
<1>1. s.tx \in Nat /\ s.txq \in 0 .. TxCap /\ TxCap \in Nat
  BY ListenerAssumption DEF Good, SlotState
<1>2. k \in Nat /\ s.tx - k \in Nat /\ s.txq + k \in 0 .. TxCap
  <2>1. Free(s) \in Nat /\ Free(s) = TxCap - s.txq BY <1>1 DEF Free
  <2>2. Min({s.tx, Free(s)}) = IF s.tx <= Free(s) THEN s.tx ELSE Free(s)
    BY <1>1, <2>1, MinOfTwo
  <2>. QED BY <1>1, <2>1, <2>2
<1>3. DrainTls(s) = [s EXCEPT !.tx = s.tx - k, !.txq = s.txq + k]
  BY DEF DrainTls
<1>. HIDE DEF k
<1>. QED BY <1>2, <1>3, ZenonT(60) DEF Good, Untouched, SlotState

-----------------------------------------------------------------------------
(* Receiving *)

\* One message fed to the session of an announced connection.
LEMMA FeedGood ==
    ASSUME NEW s, Good(s), s.announced, s.sock \notin {"listen", "synrcvd"}, NEW msg \in Msgs
    PROVE  /\ Good(Feed(s, msg))
           /\ Feed(s, msg).announced
           /\ Feed(s, msg).sock = s.sock
<1>. DEFINE rec == [kind |-> msg.kind, close |-> msg.close, ran |-> 0, split |-> FALSE]
<1>1. CASE s.st = "fail" BY <1>1 DEF Feed
<1>2. CASE s.st # "fail" /\ msg = Hello /\ s.st = "ch"
  <2>1. Feed(s, msg) = [s EXCEPT !.st = "app", !.tx = s.tx + 1, !.own = "current"]
    BY <1>2 DEF Feed
  <2>2. s.tx + 1 \in Nat BY DEF Good, SlotState
  <2>. QED BY <2>1, <2>2, ZenonT(60) DEF Good, Untouched, SlotState
<1>3. CASE msg \in Requests /\ s.st = "app"
  <2>1. Feed(s, msg) = [s EXCEPT !.http = Append(s.http, rec)] BY <1>3 DEF Feed
  <2>2. rec \in Tracked BY <1>3, RequestsAssumption DEF Tracked
  <2>3. s.http \in Seq(Tracked) BY DEF Good, SlotState
  <2>. HIDE DEF rec
  <2>4. Append(s.http, rec) \in Seq(Tracked) BY <2>2, <2>3, AppendProperties
  <2>. QED BY <2>1, <2>4, ZenonT(60) DEF Good, Untouched, SlotState
<1>4. CASE s.st # "fail" /\ ~(msg = Hello /\ s.st = "ch") /\ ~(msg \in Requests /\ s.st = "app")
  <2>1. Feed(s, msg) = [s EXCEPT !.st = "fail", !.own = "current"] BY <1>4 DEF Feed
  <2>. QED BY <2>1 DEF Good, Untouched, SlotState
<1>. QED BY <1>1, <1>2, <1>3, <1>4

\* Whatever set of slots Feed stays in, recv_tls ends in: the messages are fed one
\* by one, each to what the one before it left.
LEMMA FedOneByOne ==
    ASSUME NEW X, NEW s \in X, s.rx \in Seq(Msgs),
           \A t \in X : \A n \in 1 .. Len(s.rx) : Feed(t, s.rx[n]) \in X
    PROVE  \E t \in X : RecvTls(s) = [t EXCEPT !.rx = <<>>]
<1>. DEFINE L == Len(s.rx)
            Fed(f, n) == /\ f \in [0 .. n -> X]
                         /\ f[0] = s
                         /\ \A i \in 1 .. n : f[i] = Feed(f[i - 1], s.rx[i])
            Unfed == {n \in 0 .. L : ~ \E f : Fed(f, n)}
<1>1. L \in Nat OBVIOUS
<1>. HIDE DEF L
<1>0. \A t \in X : \A n \in 1 .. L : Feed(t, s.rx[n]) \in X BY DEF L
<1>2. Unfed = {}
  <2>1. SUFFICES ASSUME Unfed # {} PROVE FALSE OBVIOUS
  <2>2. Unfed \in SUBSET Nat BY <1>1
  <2>3. PICK n \in Unfed : \A m \in Unfed : n <= m BY <2>1, <2>2, LeastNatural
  <2>4. n \in 0 .. L OBVIOUS
  <2>5. n # 0
    <3>1. Fed([i \in 0 .. 0 |-> s], 0) OBVIOUS
    <3>. QED BY <3>1
  <2>6. n - 1 \in 0 .. L /\ ~(n <= n - 1) BY <1>1, <2>4, <2>5
  <2>7. PICK f : Fed(f, n - 1)
    <3>. HIDE DEF Fed
    <3>. QED BY <2>3, <2>6
  <2>. DEFINE last == Feed(f[n - 1], s.rx[n])
              g == [i \in 0 .. n |-> IF i = n THEN last ELSE f[i]]
  <2>8. last \in X BY <1>0, <1>1, <2>4, <2>5, <2>7
  <2>9. \A i \in 1 .. n : g[i] = Feed(g[i - 1], s.rx[i])
    <3>1. SUFFICES ASSUME NEW i \in 1 .. n PROVE g[i] = Feed(g[i - 1], s.rx[i]) OBVIOUS
    <3>2. g[i - 1] = f[i - 1] BY <1>1, <2>4
    <3>3. CASE i = n BY <3>2, <3>3, <1>1, <2>4
    <3>4. CASE i # n
      <4>1. g[i] = f[i] BY <3>4
      <4>2. i \in 1 .. n - 1 BY <3>4, <1>1, <2>4
      <4>. QED BY <3>2, <4>1, <4>2, <2>7
    <3>. QED BY <3>3, <3>4
  <2>10. g \in [0 .. n -> X] BY <1>1, <2>4, <2>5, <2>7, <2>8
  <2>11. g[0] = s BY <1>1, <2>4, <2>5, <2>7
  <2>12. Fed(g, n) BY <2>9, <2>10, <2>11
  <2>. QED BY <2>12
<1>3. PICK f : Fed(f, L)
  <2>. HIDE DEF Fed
  <2>1. L \in 0 .. L BY <1>1
  <2>. QED BY <1>2, <2>1
<1>4. f = [n \in 0 .. L |-> IF n = 0 THEN s ELSE Feed(f[n - 1], s.rx[n])]
  BY <1>1, <1>3
<1>. DEFINE Eq(g) == g = [n \in 0 .. L |-> IF n = 0 THEN s ELSE Feed(g[n - 1], s.rx[n])]
            fed == CHOOSE g : Eq(g)
<1>5. Eq(fed) BY <1>4
<1>6. RecvTls(s) = [fed[L] EXCEPT !.rx = <<>>] BY DEF RecvTls, L
<1>. HIDE DEF fed
<1>7. \A n \in 0 .. L : fed[n] \in X
  <2>. DEFINE Out == {n \in 0 .. L : fed[n] \notin X}
  <2>1. SUFFICES ASSUME Out # {} PROVE FALSE OBVIOUS
  <2>2. Out \in SUBSET Nat BY <1>1
  <2>3. PICK n \in Out : \A m \in Out : n <= m BY <2>1, <2>2, LeastNatural
  <2>4. fed[n] = IF n = 0 THEN s ELSE Feed(fed[n - 1], s.rx[n]) BY <1>5
  <2>5. n # 0 BY <2>4
  <2>6. n - 1 \in 0 .. L /\ n - 1 \notin Out BY <1>1, <2>3, <2>5
  <2>7. fed[n - 1] \in X BY <2>6
  <2>. QED BY <1>0, <1>1, <2>4, <2>5, <2>7
<1>8. fed[L] \in X BY <1>1, <1>7
<1>. QED BY <1>6, <1>8, Zenon

\* recv_tls on a slot that was announced, or that has nothing to receive.
LEMMA RecvGood ==
    ASSUME NEW s, Good(s), s.announced \/ s.rx = <<>>
    PROVE  /\ Good(RecvTls(s))
           /\ RecvTls(s).announced = s.announced
           /\ RecvTls(s).sock = s.sock
<1>0. s.rx \in Seq(Msgs) /\ s \in SlotState BY DEF Good, SlotState
<1>1. ASSUME NEW t, Good(t), t.announced = s.announced, t.sock = s.sock,
             RecvTls(s) = [t EXCEPT !.rx = <<>>]
      PROVE  /\ Good(RecvTls(s))
             /\ RecvTls(s).announced = s.announced
             /\ RecvTls(s).sock = s.sock
  <2>1. <<>> \in Seq(Msgs) OBVIOUS
  <2>2. t \in SlotState /\ Untouched(t) BY <1>1 DEF Good
  <2>. DEFINE u == [t EXCEPT !.rx = <<>>]
  <2>3. u \in SlotState /\ u.announced = s.announced /\ u.sock = s.sock
    BY <1>1, <2>1, <2>2 DEF SlotState
  <2>4. Untouched(u) BY <2>2 DEF Untouched, SlotState
  <2>. QED BY <1>1, <2>3, <2>4 DEF Good
<1>2. CASE s.rx = <<>>
  <2>. DEFINE X == {s}
  <2>1. \A t \in X : \A n \in 1 .. Len(s.rx) : Feed(t, s.rx[n]) \in X BY <1>2
  <2>2. s \in X OBVIOUS
  <2>3. \A t \in X : t = s OBVIOUS
  <2>. HIDE DEF X
  <2>4. PICK t \in X : RecvTls(s) = [t EXCEPT !.rx = <<>>] BY <1>0, <2>1, <2>2, FedOneByOne
  <2>. QED BY <1>1, <2>3, <2>4
<1>3. CASE s.rx # <<>>
  <2>. DEFINE X == {t \in SlotState : Good(t) /\ t.announced /\ t.sock = s.sock}
  <2>1. s.announced /\ s.sock \notin {"listen", "synrcvd"} BY <1>3 DEF Good, Untouched
  <2>2. s \in X BY <2>1 DEF Good
  <2>3. \A t \in X : \A n \in 1 .. Len(s.rx) : Feed(t, s.rx[n]) \in X
    <3>1. SUFFICES ASSUME NEW t \in X, NEW n \in 1 .. Len(s.rx)
                   PROVE  Feed(t, s.rx[n]) \in X
      OBVIOUS
    <3>2. s.rx[n] \in Msgs BY <1>0, ElementOfSeq
    <3>3. Good(t) /\ t.announced /\ t.sock = s.sock OBVIOUS
    <3>. DEFINE msg == s.rx[n]
    <3>. HIDE DEF msg
    <3>4. /\ Good(Feed(t, msg)) /\ Feed(t, msg).announced
          /\ Feed(t, msg).sock = s.sock
      BY <2>1, <3>2, <3>3, FeedGood DEF msg
    <3>5. Feed(t, msg) \in SlotState BY <3>4 DEF Good
    <3>. QED BY <3>4, <3>5 DEF msg
  <2>4. \A t \in X : Good(t) /\ t.announced = TRUE /\ t.sock = s.sock
    <3>1. \A t \in SlotState : t.announced \in BOOLEAN BY DEF SlotState
    <3>. QED BY <3>1
  <2>5. s.announced = TRUE BY <2>2, <2>4
  <2>. HIDE DEF X
  <2>6. PICK t \in X : RecvTls(s) = [t EXCEPT !.rx = <<>>] BY <1>0, <2>2, <2>3, FedOneByOne
  <2>. QED BY <1>1, <2>4, <2>5, <2>6
<1>. QED BY <1>2, <1>3

-----------------------------------------------------------------------------
(* Serving *)

\* Taking the first request out of the buffer.
LEMMA ClearGood ==
    ASSUME NEW s, Good(s), s.http # <<>>
    PROVE  Good(ClearHttp(s)) /\ ClearHttp(s).announced = s.announced
<1>1. s \in SlotState /\ Untouched(s) /\ s.http \in Seq(Tracked) BY DEF Good, SlotState
<1>2. Tail(s.http) \in Seq(Tracked) BY <1>1, HeadTailProperties
<1>. DEFINE q == Tail(s.http)
<1>3. ClearHttp(s) = [s EXCEPT !.http = q] BY DEF ClearHttp
<1>. HIDE DEF q
<1>. QED BY <1>1, <1>2, <1>3 DEF Good, Untouched, SlotState, q

\* wrap_session_try_exchange.  A request that was handled and is still in the
\* buffer is one whose reply did not fit.
LEMMA ExchangeGood ==
    ASSUME NEW s, Good(s), s.announced, s.http # <<>>, CanSend(s)
    PROVE  Good(TryExchange(s).s) /\ TryExchange(s).s.announced
<1>. DEFINE r == Head(s.http)
            n == ReplySize[r.kind]
            k == Min({n, Free(s)})
            again == DrainTls(s)
            handled == [r EXCEPT !.ran = Min({2, @ + 1}), !.split = @ \/ n > Free(s)]
            ran == [SealAndQueue(s, n) EXCEPT !.http[1] = handled]
            Answer(t) == IF t.tx > 0 THEN t ELSE ClearHttp(t)
<1>0. s \in SlotState /\ Untouched(s) /\ s.announced \in BOOLEAN BY DEF Good, SlotState
<1>1. s.http \in Seq(Tracked) /\ s.tx \in Nat /\ s.txq \in 0 .. TxCap BY <1>0 DEF SlotState
<1>2. TryExchange(s).s = IF s.tx > 0 THEN Answer(again) ELSE Answer(ran)
  BY DEF TryExchange
<1>3. ASSUME s.tx > 0 PROVE Good(Answer(again)) /\ Answer(again).announced
  <2>1. Good(again) /\ again.announced /\ again.http # <<>> BY DrainGood
  <2>. HIDE DEF again
  <2>. QED BY <2>1, ClearGood
<1>4. ASSUME ~(s.tx > 0) PROVE Good(Answer(ran)) /\ Answer(ran).announced
  <2>1. r \in Tracked /\ r = s.http[1] /\ Len(s.http) \in Nat /\ Len(s.http) >= 1
    BY <1>1, HeadTailProperties, EmptySeq
  <2>2. n \in 1 .. TxCap /\ r.ran \in 0 .. 2 /\ r.split \in BOOLEAN
    BY <2>1, ListenerAssumption DEF Tracked, Kinds
  <2>3. Free(s) \in Nat /\ Free(s) = TxCap - s.txq BY <1>1, ListenerAssumption DEF Free
  <2>4. k = IF n <= Free(s) THEN n ELSE Free(s) BY <2>2, <2>3, MinOfTwo
  <2>. DEFINE base == [s EXCEPT !.txq = s.txq + k, !.tx = n - k]
              http1 == [s.http EXCEPT ![1] = handled]
  <2>5. SealAndQueue(s, n) = base BY DEF SealAndQueue
  <2>. HIDE DEF r
  <2>6. handled \in [kind : Kinds, close : BOOLEAN, ran : 0 .. 2, split : BOOLEAN]
    <3>1. Min({2, r.ran + 1}) \in 0 .. 2 BY <2>2, MinOfTwo
    <3>2. (r.split \/ n > Free(s)) \in BOOLEAN OBVIOUS
    <3>. QED BY <2>1, <3>1, <3>2 DEF Tracked
  <2>7. n > Free(s) => handled.split BY <2>1 DEF Tracked
  <2>. HIDE DEF handled, n
  <2>8. s.txq + k \in 0 .. TxCap /\ n - k \in Nat /\ (n - k > 0 <=> n > Free(s))
    <3>. DEFINE room == Free(s)
    <3>1. TxCap \in Nat BY ListenerAssumption
    <3>2. n \in Nat /\ room \in Nat /\ room = TxCap - s.txq BY <2>2, <2>3, <3>1
    <3>3. k = IF n <= room THEN n ELSE room BY <2>4
    <3>. HIDE DEF k, room
    <3>4. s.txq + k \in 0 .. TxCap /\ n - k \in Nat /\ (n - k > 0 <=> n > room)
      BY <1>1, <3>1, <3>2, <3>3
    <3>. QED BY <3>4 DEF room
  <2>. HIDE DEF k
  <2>9. /\ base \in SlotState /\ base.http = s.http /\ base.tx = n - k
        /\ base.announced = s.announced /\ Untouched(base)
    BY <1>0, <2>8 DEF SlotState, Untouched
  <2>. HIDE DEF base
  <2>10. ran = [base EXCEPT !.http = http1] BY <2>5, <2>9 DEF SlotState
  <2>. DEFINE cleared == [base EXCEPT !.http = Tail(http1)]
  <2>11. Tail(http1) = Tail(s.http) /\ Tail(s.http) \in Seq(Tracked)
    <3>1. Tail(s.http) \in Seq(Tracked) BY <1>1, HeadTailProperties
    <3>2. http1 \in Seq([kind : Kinds, close : BOOLEAN, ran : 0 .. 2, split : BOOLEAN])
      <4>. DEFINE Any == [kind : Kinds, close : BOOLEAN, ran : 0 .. 2, split : BOOLEAN]
      <4>1. Tracked \subseteq Any BY DEF Tracked
      <4>2. handled \in Any BY <2>6
      <4>. HIDE DEF Any
      <4>3. s.http \in Seq(Any) BY <1>1, <4>1
      <4>4. http1 \in Seq(Any) BY <4>2, <4>3
      <4>. QED BY <4>4 DEF Any
    <3>3. Len(http1) = Len(s.http) /\ \A i \in 2 .. Len(s.http) : http1[i] = s.http[i]
      BY <1>1
    <3>. HIDE DEF http1
    <3>. QED BY <1>1, <2>1, <3>1, <3>2, <3>3
  <2>12. ASSUME ran.tx > 0 PROVE Good(ran) /\ ran.announced
    <3>1. base.tx > 0 BY <2>9, <2>10, <2>12 DEF SlotState
    <3>2. handled \in Tracked BY <2>6, <2>7, <2>8, <2>9, <3>1 DEF Tracked
    <3>3. http1 \in Seq(Tracked) BY <1>1, <3>2
    <3>. HIDE DEF http1
    <3>4. /\ ran \in SlotState /\ ran.announced = base.announced
          /\ ran.sock = base.sock /\ ran.own = base.own /\ ran.rx = base.rx
          /\ ran.kept = base.kept /\ ran.closing = base.closing
      BY <2>9, <2>10, <3>3, ZenonT(60) DEF SlotState
    <3>. HIDE DEF ran
    <3>. QED BY <2>9, <3>4 DEF Good, Untouched
  <2>13. ASSUME ~(ran.tx > 0) PROVE Good(ClearHttp(ran)) /\ ClearHttp(ran).announced
    <3>. HIDE DEF http1
    <3>1. ClearHttp(ran) = [base EXCEPT !.http = Tail(http1)]
      BY <2>9, <2>10 DEF ClearHttp, SlotState
    <3>. DEFINE c == ClearHttp(ran)
                q == Tail(http1)
    <3>4. q \in Seq(Tracked) BY <2>11, Zenon
    <3>5. c = [base EXCEPT !.http = q] BY <3>1
    <3>. HIDE DEF q, c
    <3>2. /\ c \in SlotState /\ c.announced = base.announced
          /\ c.sock = base.sock /\ c.own = base.own /\ c.rx = base.rx
          /\ c.kept = base.kept /\ c.closing = base.closing
      BY <2>9, <3>4, <3>5 DEF SlotState
    <3>3. Good(c) /\ c.announced BY <2>9, <3>2 DEF Good, Untouched
    <3>. QED BY <3>3 DEF c
  <2>. HIDE DEF ran
  <2>. QED BY <2>12, <2>13
<1>. QED BY <1>2, <1>3, <1>4

\* The body of the loop for a slot with no close pending.
LEMMA ServeGood ==
    ASSUME NEW s, Good(s), IsOpen(s), NEW stops
    PROVE  Good(ServeStep(s, stops).slot)
<1>. DEFINE n == Announce(s)
            v == RecvTls(n)
            a == DrainTls(v)
            headers == HasRequest(a)
            peerFin == (a.announced \/ a.kept) /\ IsActive(a) /\ ~MayRecv(a) /\ MaySend(a)
            trying == headers /\ CanSend(a)
            x == IF trying THEN TryExchange(a) ELSE [s |-> a, res |-> "none"]
            asked == stops \cup (IF trying THEN Latches(a) ELSE {})
            keepNow == x.res = "keep" /\ ~peerFin
            b == IF keepNow THEN [x.s EXCEPT !.kept = TRUE, !.lastHttp = 0] ELSE x.s
            idle == ~a.kept /\ AcceptIdleAbort(a, headers)
            drop == \/ ~trying /\ (peerFin \/ a.st = "fail" \/ idle)
                    \/ ReplyGiveUp(b, headers)
            close == \/ x.res = "close"
                     \/ x.res = "keep" /\ peerFin
                     \/ b.kept /\ ~keepNow /\ KeepaliveIdle(b)
            c == [b EXCEPT !.closing = TRUE, !.closeAt = 0, !.drained = Unset, !.kept = FALSE]
<1>1. ServeStep(s, stops).slot = IF drop THEN SessionRelisten(b)
                                 ELSE IF close /\ asked = {} THEN c ELSE b
  BY DEF ServeStep
<1>2. /\ Good(n) /\ (n.announced \/ n.rx = <<>>)
      /\ (IsActive(n) => n.announced)
  BY AnnounceGood
<1>. HIDE DEF n
<1>3. Good(v) /\ v.announced = n.announced /\ v.sock = n.sock BY <1>2, RecvGood
<1>. HIDE DEF v
<1>4. Good(a) /\ a.announced = n.announced /\ a.sock = n.sock BY <1>3, DrainGood
<1>. HIDE DEF a
<1>5. CanSend(a) => a.announced BY <1>2, <1>4 DEF CanSend, MaySend, IsActive
<1>6. trying => Good(TryExchange(a).s) /\ TryExchange(a).s.announced
  <2>1. SUFFICES ASSUME trying PROVE Good(TryExchange(a).s) /\ TryExchange(a).s.announced
    OBVIOUS
  <2>2. a.http # <<>> BY <2>1 DEF HasRequest
  <2>. QED BY <1>4, <1>5, <2>1, <2>2, ExchangeGood
<1>7. Good(x.s) /\ (x.res # "none" => x.s.announced)
  <2>1. CASE trying BY <1>6, <2>1
  <2>2. CASE ~trying
    <3>1. x = [s |-> a, res |-> "none"] BY <2>2
    <3>. QED BY <1>4, <3>1
  <2>. QED BY <2>1, <2>2
<1>. HIDE DEF x
<1>8. Good(b) /\ (x.res # "none" => b.announced)
  <2>1. x.s \in SlotState /\ Untouched(x.s) BY <1>7 DEF Good
  <2>. DEFINE y == x.s
              z == [y EXCEPT !.kept = TRUE, !.lastHttp = 0]
  <2>2. ASSUME keepNow PROVE Good(z) /\ z.announced
    <3>1. y.announced /\ y \in SlotState /\ Untouched(y) BY <1>7, <2>1, <2>2
    <3>. HIDE DEF y
    <3>2. /\ z \in SlotState /\ z.announced = y.announced /\ z.sock = y.sock
          /\ z.own = y.own /\ z.rx = y.rx /\ z.closing = y.closing
      BY <3>1 DEF SlotState
    <3>. HIDE DEF z
    <3>. QED BY <3>1, <3>2 DEF Good, Untouched
  <2>. HIDE DEF z
  <2>3. b = IF keepNow THEN z ELSE y BY DEF z
  <2>. QED BY <1>7, <2>2, <2>3
<1>. HIDE DEF b
<1>9. b \in SlotState /\ Untouched(b) BY <1>8 DEF Good
<1>10. Good(SessionRelisten(b)) BY <1>9, RelistenGood
<1>11. close => b.announced
  <2>1. b.kept => b.announced BY <1>9 DEF Untouched
  <2>. QED BY <1>8, <2>1
<1>12. b.announced => Good(c)
  <2>1. SUFFICES ASSUME b.announced PROVE Good(c) OBVIOUS
  <2>2. /\ c \in SlotState /\ c.announced = b.announced /\ c.sock = b.sock
        /\ c.own = b.own /\ c.rx = b.rx
    BY <1>9 DEF SlotState, Unset
  <2>. HIDE DEF c
  <2>. QED BY <1>9, <2>1, <2>2 DEF Good, Untouched
<1>. HIDE DEF close, drop, asked, c
<1>. QED BY <1>1, <1>8, <1>10, <1>11, <1>12

\* The body of the loop over the slots.
LEMMA SlotStepGood ==
    ASSUME NEW s, Good(s), NEW stops
    PROVE  Good(SlotStep(s, stops).slot)
<1>. DEFINE l == [SessionReset(Listen(s)) EXCEPT !.accept = 0]
<1>1. CASE s.closing
  <2>1. SlotStep(s, stops).slot = ClosingStep(s) BY <1>1 DEF SlotStep
  <2>. QED BY <1>1, <2>1, ClosingGood
<1>2. CASE ~s.closing /\ IsOpen(s)
  <2>1. SlotStep(s, stops).slot = ServeStep(s, stops).slot BY <1>2 DEF SlotStep
  <2>. QED BY <1>2, <2>1, ServeGood
<1>3. CASE ~s.closing /\ ~IsOpen(s) /\ (s.announced \/ s.kept)
  <2>1. SlotStep(s, stops).slot = SessionRelisten(s) BY <1>3 DEF SlotStep
  <2>2. s \in SlotState BY DEF Good
  <2>. QED BY <2>1, <2>2, RelistenGood
<1>4. CASE ~s.closing /\ ~IsOpen(s) /\ ~(s.announced \/ s.kept)
  <2>1. SlotStep(s, stops).slot = ServeStep(l, stops).slot BY <1>4 DEF SlotStep
  <2>2. Good(l) /\ l.sock = "listen" BY <1>4, ListenResetGood
  <2>. HIDE DEF l
  <2>3. IsOpen(l) BY <2>2 DEF IsOpen
  <2>. QED BY <2>1, <2>2, <2>3, ServeGood
<1>. QED BY <1>1, <1>2, <1>3, <1>4

-----------------------------------------------------------------------------
(* The steps of the tick and of the network *)

\* The clock only ages the slot; a socket that ensure_listener takes is idle.
LEMMA BeginGood ==
    ASSUME NEW s, Good(s), NEW d \in TimeSteps, NEW needed \in BOOLEAN
    PROVE  Good(EnsureListener(Older(s, d), needed))
<1>. DEFINE o == Older(s, d)
<1>1. s \in SlotState /\ Untouched(s) /\ d \in Nat BY ListenerAssumption DEF Good
<1>2. ASSUME NEW age \in Nat, NEW cap \in Nat
      PROVE  Later(age, d, cap) \in Nat
  <2>1. age + d \in Int /\ cap \in Int /\ age # Unset BY <1>1 DEF Unset
  <2>2. Min({age + d, cap}) = IF age + d <= cap THEN age + d ELSE cap BY <2>1, MinOfTwo
  <2>. QED BY <1>1, <2>1, <2>2 DEF Later
<1>3. \A cap \in Nat : Later(Unset, d, cap) = Unset BY DEF Later
<1>4. {DrainMs, ForceMs, HttpIdleMs, KeepIdleMs} \subseteq Nat BY ListenerAssumption
<1>5. /\ s.accept \in Nat /\ s.lastHttp \in Nat /\ s.closeAt \in Nat
      /\ s.drained \in Nat \cup {Unset}
  BY <1>1 DEF SlotState
<1>. DEFINE acc == IF s.announced /\ ~s.kept /\ ~s.closing
                   THEN Later(s.accept, d, HttpIdleMs) ELSE 0
            http == IF s.kept THEN Later(s.lastHttp, d, KeepIdleMs) ELSE 0
            shut == IF s.closing THEN Later(s.closeAt, d, ForceMs) ELSE 0
            dry == Later(s.drained, d, DrainMs)
<1>6. acc \in Nat /\ http \in Nat /\ shut \in Nat BY <1>2, <1>4, <1>5
<1>7. dry \in Nat \cup {Unset} BY <1>2, <1>3, <1>4, <1>5
<1>8. o = [s EXCEPT !.accept = acc, !.lastHttp = http, !.closeAt = shut, !.drained = dry]
  BY DEF Older
<1>. HIDE DEF o, acc, http, shut, dry
<1>9. /\ o \in SlotState /\ o.announced = s.announced /\ o.sock = s.sock
      /\ o.own = s.own /\ o.rx = s.rx /\ o.kept = s.kept /\ o.closing = s.closing
  BY <1>1, <1>6, <1>7, <1>8 DEF SlotState
<1>10. Good(o) BY <1>1, <1>9 DEF Good, Untouched
<1>11. IdleListenSlot(o) => ~o.announced BY DEF IdleListenSlot
<1>. QED BY <1>10, <1>11, ListenResetGood DEF EnsureListener, o

\* The invariant holds at the start.
LEMMA ListenerIInvInit == Init => ListenerIInv
<1>1. <<>> \in Seq(Msgs) /\ <<>> \in Seq(Tracked) /\ 0 \in 0 .. TxCap
  BY ListenerAssumption
<1>. QED BY <1>1 DEF Init, ListenerIInv, Good, Untouched, SlotState, Fresh, Unset

\* Every step of the tick and of a client keeps it.
LEMMA ListenerIInvStep == ListenerIInv /\ [Next]_vars => ListenerIInv'
<1>. SUFFICES ASSUME ListenerIInv, [Next]_vars PROVE ListenerIInv' OBVIOUS
<1>0. Good(slot) /\ slot \in SlotState /\ Untouched(slot) BY DEF ListenerIInv, Good
<1>1. ASSUME NEW s, Good(s), HealthTick(s) PROVE Good(slot')
  <2>1. Good(SessionRelisten(s)) BY <1>1, RelistenGood DEF Good
  <2>. QED BY <1>1, <2>1 DEF HealthTick
<1>2. CASE TickStopping BY <1>0, <1>1, <1>2 DEF TickStopping, ListenerIInv
<1>3. CASE TickServing
  <2>1. PICK before : \E r : r = SlotStep(slot, latch \cup before) /\ HealthTick(r.slot)
    BY <1>3 DEF TickServing
  <2>. QED BY <1>0, <1>1, <2>1, SlotStepGood DEF ListenerIInv
<1>4. CASE \E d \in TimeSteps : TickBegin(d)
  BY <1>0, <1>4, BeginGood DEF TickBegin, ListenerIInv
<1>5. CASE Syn
  <2>1. slot' = [slot EXCEPT !.sock = "synrcvd", !.peer = "live"]
    <3>1. slot.own = "none" BY <1>0, <1>5 DEF Syn, IsListening, Untouched
    <3>. QED BY <1>0, <1>5, <3>1 DEF Syn, Net, SlotState
  <2>2. slot.sock = "listen" BY <1>5 DEF Syn, IsListening
  <2>. QED BY <1>0, <2>1, <2>2 DEF ListenerIInv, Good, Untouched, SlotState
<1>6. CASE Established
  BY <1>0, <1>6 DEF Established, Net, ListenerIInv, Good, Untouched, SlotState
<1>7. CASE \E msg \in {Hello, Other} \cup Requests : Send(msg)
  <2>1. PICK msg \in Msgs : Send(msg) BY <1>7 DEF Msgs
  <2>. DEFINE q == Append(slot.rx, msg)
  <2>2. q \in Seq(Msgs) BY <1>0, AppendProperties DEF SlotState
  <2>3. slot' = [slot EXCEPT !.rx = q] /\ slot.sock = "estab" BY <2>1 DEF Send, Net
  <2>. HIDE DEF q
  <2>. QED BY <1>0, <2>2, <2>3 DEF ListenerIInv, Good, Untouched, SlotState
<1>8. CASE Ack
  <2>1. PICK q \in 0 .. slot.txq - 1 : slot' = [slot EXCEPT !.txq = q]
    BY <1>8 DEF Ack, Net
  <2>2. q \in 0 .. TxCap
    <3>1. slot.txq \in 0 .. TxCap BY <1>0 DEF SlotState
    <3>. QED BY <3>1, ListenerAssumption
  <2>. QED BY <1>0, <2>1, <2>2 DEF ListenerIInv, Good, Untouched, SlotState
<1>9. CASE Fin
  <2>1. CASE slot.sock = "estab" /\ slot' = [slot EXCEPT !.sock = "closewait"]
    BY <1>0, <2>1 DEF ListenerIInv, Good, Untouched, SlotState
  <2>2. CASE slot' = [slot EXCEPT !.sock = "closed", !.peer = "none"]
    BY <1>0, <2>2 DEF ListenerIInv, Good, Untouched, SlotState
  <2>. QED BY <1>9, <2>1, <2>2 DEF Fin, Net
<1>10. CASE Rst
  BY <1>0, <1>10 DEF Rst, Net, ListenerIInv, Good, Untouched, SlotState
<1>11. CASE Vanish
  BY <1>0, <1>11 DEF Vanish, Net, ListenerIInv, Good, Untouched, SlotState
<1>12. CASE UNCHANGED vars BY <1>0, <1>12 DEF vars, ListenerIInv
<1>. QED BY <1>2, <1>3, <1>4, <1>5, <1>6, <1>7, <1>8, <1>9, <1>10, <1>11, <1>12 DEF Next

\* A connection never sits on a session that holds the bytes of an earlier client,
\* whatever the requests, the sizes of their replies and the listener's limits:
\* session_relisten, the reset at accept and the reset in the close path are
\* enough, the kept sessions and the half-open connections a client resets
\* included.
THEOREM SessionsAreNotInherited == Spec => []NoInheritedSession
<1>1. ListenerIInv => NoInheritedSession BY DEF ListenerIInv, Good, Untouched, NoInheritedSession
<1>. QED BY <1>1, ListenerIInvInit, ListenerIInvStep, PTL DEF Spec

\* A request is handled a second time only if its reply did not fit the transmit
\* buffer: for every buffer and every reply that fits an empty one.
THEOREM RequestsAreHandledOnce == Spec => []HandledOnceUnlessSplit
<1>1. ListenerIInv => HandledOnceUnlessSplit
  <2>1. SUFFICES ASSUME ListenerIInv, NEW n \in 1 .. Len(slot.http)
                 PROVE  slot.http[n].ran > 1 => slot.http[n].split
    BY DEF HandledOnceUnlessSplit
  <2>2. slot.http \in Seq(Tracked) BY <2>1 DEF ListenerIInv, Good, SlotState
  <2>3. slot.http[n] \in Tracked BY <2>2, ElementOfSeq
  <2>. QED BY <2>3 DEF Tracked
<1>. QED BY <1>1, ListenerIInvInit, ListenerIInvStep, PTL DEF Spec
=============================================================================
