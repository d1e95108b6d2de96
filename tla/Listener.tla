------------------------------ MODULE Listener ------------------------------
(***************************************************************************)
(* The standing management listener (mgmt/host_nic_listen.rs): ten TCP     *)
(* sockets, each with its TLS session and its bookkeeping record, that one *)
(* rate-limited tick serves from the exits of a guest.  A tick makes sure  *)
(* a socket listens, polls the network, and walks the slots; nothing else  *)
(* of the host runs in between, so the network moves only where the code   *)
(* polls.                                                                  *)
(*                                                                         *)
(* The module follows one slot.  The others reach it only through the host *)
(* stops they latch, the exchanges that arm them, the bytes they have      *)
(* queued and the sockets they keep listening; those are chosen freely, so *)
(* what holds of the slot holds in a table of any size.                    *)
(*                                                                         *)
(* smoltcp is external: a socket is its state, its received messages and   *)
(* the bytes in its transmit buffer the peer has not acknowledged.  No     *)
(* socket has a TCP timeout, so a peer that vanishes stays connected until *)
(* the listener reclaims the slot.  Bytes are counted in units, times in   *)
(* units that keep the order of the code's limits, and times are kept as   *)
(* ages, capped at the largest limit they are compared with.               *)
(***************************************************************************)
EXTENDS Integers, Sequences, FiniteSetsExt

CONSTANTS
    TxCap,        \* units of a socket's transmit buffer (TCP_TX_N)
    ReplySize,    \* kind of request -> units of its sealed reply
    Requests,     \* the requests clients make: records [kind, close]
    DrainMs,      \* the 8 ms of an empty queue before FIN or power-off
    ForceMs,      \* COEXIST_CLOSE_FORCE_MS, and the 2000 ms of a power-off
    HttpIdleMs,   \* HOST_NIC_HTTP_IDLE_MS (= HOST_NIC_HTTP_HS_IDLE_MS)
    KeepIdleMs,   \* COEXIST_KEEPALIVE_IDLE_MS
    TimeSteps,    \* what the clock may advance by between two ticks
    MaxPipe       \* bound: messages a client sends ahead of their answers

Unset == -1

ASSUME ListenerAssumption ==
    /\ TxCap \in Nat
    /\ {DrainMs, ForceMs, HttpIdleMs, KeepIdleMs} \subseteq Nat
    /\ \A k \in DOMAIN ReplySize : ReplySize[k] \in 1 .. TxCap
    /\ 0 < DrainMs /\ DrainMs <= ForceMs
    /\ ForceMs <= HttpIdleMs /\ HttpIdleMs <= KeepIdleMs
    /\ \A d \in TimeSteps : d \in Nat
    /\ MaxPipe \in Nat

\* The kinds of request that stop the host, in the order a tick serves them.
Stops == {"panic", "off"}
Kinds == DOMAIN ReplySize

\* A request is its kind and whether it asks for the connection to end.
ASSUME RequestsAssumption ==
    \A r \in Requests : r.kind \in Kinds /\ r.close \in BOOLEAN

\* What else a client sends: its half of the handshake, or a record no session
\* expects (an alert, a record that does not open).
Hello == [kind |-> "hello", close |-> FALSE]
Other == [kind |-> "other", close |-> FALSE]

VARIABLES
    slot,      \* the slot: socket, peer, TLS session (Tls12Listen) and SlotRt
    latch,     \* SPA_POWEROFF and REQUESTED: the stops a request has asked for
    pend,      \* COEXIST_PENDING_*: stop -> [on, armed, empty]
    phase      \* "listen": before ensure_listener; "poll": the poll before the
               \* slots; "tail": the poll after an exchange; "down": host reset

vars == <<slot, latch, pend, phase>>

-----------------------------------------------------------------------------
(* The socket, as smoltcp shows it.                                        *)

IsOpen(s) == s.sock # "closed"
IsListening(s) == s.sock = "listen"
IsActive(s) == s.sock \notin {"closed", "listen"}
MaySend(s) == s.sock \in {"estab", "closewait"}
MayRecv(s) == s.sock = "estab" \/ s.rx # <<>>
CanSend(s) == MaySend(s) /\ s.txq < TxCap
Free(s) == TxCap - s.txq

\* listen() on a closed socket empties both buffers.
Listen(s) == [s EXCEPT !.sock = "listen", !.rx = <<>>, !.txq = 0, !.peer = "none"]

\* close() sends FIN; a socket that is already closed stays so.
CloseSock(s) == IF IsActive(s) THEN [s EXCEPT !.sock = "fin"] ELSE s

-----------------------------------------------------------------------------
(* The TLS session of a slot.                                              *)

\* Tls12Listen::reset: a new handshake, nothing buffered in either direction.
SessionReset(s) ==
    [s EXCEPT !.st = "ch", !.tx = 0, !.http = <<>>, !.own = "none"]

\* feed_tcp of one message: the client's half of the handshake is answered by
\* a flight, a request is buffered behind the ones before it, anything else
\* fails the session.
Feed(s, msg) ==
    IF s.st = "fail" THEN s
    ELSE CASE msg = Hello /\ s.st = "ch" ->
                [s EXCEPT !.st = "app", !.tx = @ + 1, !.own = "current"]
           [] msg \in Requests /\ s.st = "app" ->
                [s EXCEPT !.http = Append(@, [kind |-> msg.kind, close |-> msg.close,
                                              ran |-> 0, split |-> FALSE])]
           [] OTHER -> [s EXCEPT !.st = "fail", !.own = "current"]

\* recv_tls: everything the socket has received goes into the session.
RecvTls(s) ==
    LET fed[n \in 0 .. Len(s.rx)] ==
            IF n = 0 THEN s ELSE Feed(fed[n - 1], s.rx[n])
    IN  [fed[Len(s.rx)] EXCEPT !.rx = <<>>]

\* drain_tls: sealed bytes move to the socket as far as they fit.
DrainTls(s) ==
    LET k == IF CanSend(s) THEN Min({s.tx, Free(s)}) ELSE 0
    IN  [s EXCEPT !.tx = @ - k, !.txq = @ + k]

\* take_http: a whole request is buffered.
HasRequest(s) == s.st = "app" /\ s.http # <<>>

\* Mutant: the request stays in the buffer after its reply was queued.
ClearNothing(s) == s

\* clear_http: the first request goes, the keys and the later requests stay.
ClearHttp(s) == [s EXCEPT !.http = Tail(@)]

\* seal_and_queue with no sealed bytes left over: the reply is sealed, as much
\* as fits goes to the socket, the tail back into the session.
SealAndQueue(s, n) ==
    LET k == Min({n, Free(s)})
    IN  [s EXCEPT !.txq = @ + k, !.tx = n - k]

-----------------------------------------------------------------------------
(* One slot of the tick.                                                   *)

RtEmpty(s) ==
    [s EXCEPT !.announced = FALSE, !.accept = 0, !.kept = FALSE, !.lastHttp = 0,
              !.closing = FALSE, !.drained = Unset, !.closeAt = 0, !.fin = FALSE]

\* Mutant: the socket listens again with the session and the record it had.
RelistenOnly(s) == Listen(s)

\* session_relisten: abort, listen, a fresh session, an empty record.
SessionRelisten(s) == RtEmpty(SessionReset(Listen(s)))

\* A slot whose close is pending: drain, FIN, wait for the peer, or force.
ClosingStep(s) ==
    IF s.fin
    THEN IF ~IsOpen(s) \/ s.closeAt >= ForceMs THEN SessionRelisten(s) ELSE s
    ELSE IF s.txq = 0
         THEN LET since == IF s.drained = Unset THEN 0 ELSE s.drained
              IN  IF since >= DrainMs
                  THEN SessionReset([CloseSock(s) EXCEPT
                            !.fin = TRUE, !.closeAt = 0, !.drained = since])
                  ELSE [s EXCEPT !.drained = since]
         ELSE IF s.closeAt >= ForceMs THEN SessionRelisten(s)
              ELSE [s EXCEPT !.drained = Unset]

\* First sight of a connection: the budget starts, and the session is fresh
\* unless the slot kept one.
Announce(s) ==
    IF IsActive(s) /\ ~s.announced
    THEN LET a == [s EXCEPT !.announced = TRUE, !.accept = 0]
         IN  IF s.kept THEN a ELSE SessionReset(a)
    ELSE s

\* wrap_session_try_exchange on a slot with a whole request and room to send:
\* "none" while the reply is not wholly queued, else whether the client asked
\* for the connection to end.
TryExchange(s) ==
    LET r == Head(s.http)
        again == DrainTls(s)
        handled == [r EXCEPT !.ran = Min({2, @ + 1}),
                             !.split = @ \/ ReplySize[r.kind] > Free(s)]
        ran == [SealAndQueue(s, ReplySize[r.kind]) EXCEPT !.http[1] = handled]
        answer(t) == IF t.tx > 0 THEN [s |-> t, res |-> "none"]
                     ELSE [s |-> ClearHttp(t), res |-> IF r.close THEN "close" ELSE "keep"]
    IN  IF s.tx > 0 THEN answer(again) ELSE answer(ran)

\* What the request at the head of the buffer latches when it is handled.
Latches(s) == IF s.tx = 0 THEN {Head(s.http).kind} \cap Stops ELSE {}

\* http_accept_should_idle_abort: no whole request within the budget.
AcceptIdleAbort(s, headers) == s.announced /\ ~headers /\ s.accept >= HttpIdleMs

\* Mutant: a reply that never queues holds its slot until the next boot.
NeverGiveUp(s, headers) == FALSE

\* http_reply_should_give_up: a whole request, and still no kept session.
ReplyGiveUp(s, headers) ==
    ~s.kept /\ s.announced /\ headers /\ s.accept >= HttpIdleMs

\* coexist_keepalive_idle.
KeepaliveIdle(s) == s.lastHttp >= KeepIdleMs

\* A slot with no close pending, after the socket was seen open: receive,
\* drain, serve one request, and decide what becomes of the connection.
ServeStep(s, stops) ==
    LET a == DrainTls(RecvTls(Announce(s)))
        headers == HasRequest(a)
        peerFin == (a.announced \/ a.kept) /\ IsActive(a) /\ ~MayRecv(a) /\ MaySend(a)
        trying == headers /\ CanSend(a)
        x == IF trying THEN TryExchange(a) ELSE [s |-> a, res |-> "none"]
        asked == stops \cup (IF trying THEN Latches(a) ELSE {})
        keepNow == x.res = "keep" /\ ~peerFin
        b == IF keepNow THEN [x.s EXCEPT !.kept = TRUE, !.lastHttp = 0] ELSE x.s
        idle == ~a.kept /\ AcceptIdleAbort(a, headers)
        drop == \/ ~trying /\ (peerFin \/ a.st = "fail" \/ idle)
                \/ ReplyGiveUp(b, headers)
        close == \/ x.res = "close"
                 \/ x.res = "keep" /\ peerFin
                 \/ b.kept /\ ~keepNow /\ KeepaliveIdle(b)
    IN  [slot |-> IF drop THEN SessionRelisten(b)
                  ELSE IF close /\ asked = {}
                       THEN [b EXCEPT !.closing = TRUE, !.closeAt = 0,
                                      !.drained = Unset, !.kept = FALSE]
                       ELSE b,
         asked |-> asked,
         exchanged |-> x.res # "none"]

\* The body of the loop over the slots.
SlotStep(s, stops) ==
    LET quiet(t) == [slot |-> t, asked |-> stops, exchanged |-> FALSE]
    IN  IF s.closing THEN quiet(ClosingStep(s))
        ELSE IF IsOpen(s) THEN ServeStep(s, stops)
        ELSE IF s.announced \/ s.kept THEN quiet(SessionRelisten(s))
        ELSE ServeStep([SessionReset(Listen(s)) EXCEPT !.accept = 0], stops)

-----------------------------------------------------------------------------
(* The tick.                                                               *)

Idle == [on |-> FALSE, armed |-> 0, empty |-> Unset]
Pending == {k \in Stops : pend[k].on}

\* A pending stop: how long the queues have been empty, and whether that is
\* long enough or the stop is forced.
EmptyFor(k, queued) == IF queued THEN Unset
                       ELSE IF pend[k].empty = Unset THEN 0 ELSE pend[k].empty
Due(k, queued) == EmptyFor(k, queued) >= DrainMs \/ pend[k].armed >= ForceMs

\* listener_health_tick ends a tick: with no stop pending, a port found stalled
\* is rebuilt and every slot listens again.  The cap of four rebuilds and the
\* pause after one are left out: fewer of them are behaviours of this too.
HealthTick(s) ==
    \/ slot' = s
    \/ /\ \A k \in Stops : ~pend'[k].on
       /\ slot' = SessionRelisten(s)

\* A tick with a stop pending accepts nothing.  The one that is due resets the
\* host, the panic before the power-off; where VMXOFF fails it is dropped and
\* the page stays up.
TickStopping ==
    /\ phase = "poll"
    /\ Pending # {}
    /\ \E others \in BOOLEAN :
       LET queued == others \/ slot.txq > 0
           due == {k \in Pending : Due(k, queued)}
       IN  \E failed \in SUBSET due :
            /\ "off" \in failed => "panic" \notin due \ failed
            /\ phase' = IF failed = due THEN "listen" ELSE "down"
            /\ pend' = [k \in Stops |->
                           IF k \in failed THEN Idle
                           ELSE IF k \in Pending
                                THEN [pend[k] EXCEPT !.empty = EmptyFor(k, queued)]
                                ELSE pend[k]]
            /\ latch' = latch \ failed
    /\ HealthTick(slot)

\* A tick with none pending walks the slots, a stop latched by one being seen
\* by the next; an exchange on any of them arms what is latched.  The slots
\* before and after this one may latch stops and may exchange.
TickServing ==
    /\ phase = "poll"
    /\ Pending = {}
    /\ \E before, after \in SUBSET (Stops \cap Kinds), others \in BOOLEAN :
       LET r == SlotStep(slot, latch \cup before)
           asked == r.asked \cup after
           exchanged == r.exchanged \/ others
       IN  /\ latch' = asked
           /\ pend' = [k \in Stops |-> IF exchanged /\ k \in asked
                                        THEN [Idle EXCEPT !.on = TRUE] ELSE pend[k]]
           /\ phase' = IF exchanged THEN "tail" ELSE "listen"
           /\ HealthTick(r.slot)

\* ensure_listener and idle_listen_slot: an idle socket listens when fewer than
\* the reserve do, which is for the other slots to say.
IdleListenSlot(s) == ~IsListening(s) /\ ~IsActive(s) /\ ~s.kept /\ ~s.announced

EnsureListener(s, needed) == IF needed /\ IdleListenSlot(s) THEN Listen(s) ELSE s

\* The clock, as every age the code computes from it and still reads.
Later(age, d, cap) == IF age = Unset THEN Unset ELSE Min({age + d, cap})
Older(s, d) ==
    [s EXCEPT !.accept = IF s.announced /\ ~s.kept /\ ~s.closing
                         THEN Later(@, d, HttpIdleMs) ELSE 0,
              !.lastHttp = IF s.kept THEN Later(@, d, KeepIdleMs) ELSE 0,
              !.closeAt = IF s.closing THEN Later(@, d, ForceMs) ELSE 0,
              !.drained = Later(@, d, DrainMs)]

\* The start of the next tick: the time, then ensure_listener, then the poll.
TickBegin(d) ==
    /\ phase \in {"listen", "tail"}
    /\ phase' = "poll"
    /\ \E needed \in BOOLEAN : slot' = EnsureListener(Older(slot, d), needed)
    /\ pend' = [k \in Stops |-> IF pend[k].on
                   THEN [pend[k] EXCEPT !.armed = Later(@, d, ForceMs),
                                        !.empty = Later(@, d, DrainMs)]
                   ELSE pend[k]]
    /\ UNCHANGED latch

-----------------------------------------------------------------------------
(* The client, seen through iface.poll (smoltcp, external).                *)

Net(s) == /\ phase \in {"poll", "tail"}
          /\ slot' = s
          /\ UNCHANGED <<latch, pend, phase>>

\* A SYN reaches the slot while it listens.
Syn ==
    /\ IsListening(slot)
    /\ Net([slot EXCEPT !.sock = "synrcvd", !.peer = "live",
                        !.own = IF @ = "none" THEN "none" ELSE "old"])

Established ==
    /\ slot.sock = "synrcvd" /\ slot.peer = "live"
    /\ Net([slot EXCEPT !.sock = "estab"])

\* A message arrives.
Send(msg) ==
    /\ slot.sock = "estab" /\ slot.peer = "live"
    /\ Len(slot.rx) + Len(slot.http) < MaxPipe
    /\ Net([slot EXCEPT !.rx = Append(@, msg)])

\* The client acknowledges what it received, all of it or some.
Ack ==
    /\ slot.peer = "live" /\ IsActive(slot)
    /\ \E q \in 0 .. slot.txq - 1 : Net([slot EXCEPT !.txq = q])

\* FIN: a half-closed connection, or the end of one that is closing.
Fin ==
    /\ slot.peer = "live"
    /\ \/ slot.sock = "estab" /\ Net([slot EXCEPT !.sock = "closewait"])
       \/ slot.sock = "fin" /\ Net([slot EXCEPT !.sock = "closed", !.peer = "none"])

\* RST: a half-open connection goes back to LISTEN, another is closed with its
\* buffers as they are.
Rst ==
    /\ slot.peer = "live"
    /\ Net([slot EXCEPT !.sock = IF @ = "synrcvd" THEN "listen" ELSE "closed",
                        !.peer = "none"])

\* The client disappears: nothing more is heard of it.
Vanish ==
    /\ slot.peer = "live"
    /\ Net([slot EXCEPT !.peer = "gone"])

-----------------------------------------------------------------------------
(* arm_bcm5720_coexist: the slot listens and its session is new.           *)
Fresh ==
    [sock |-> "listen", peer |-> "none", rx |-> <<>>, txq |-> 0,
     st |-> "ch", tx |-> 0, http |-> <<>>, own |-> "none",
     announced |-> FALSE, accept |-> 0, kept |-> FALSE, lastHttp |-> 0,
     closing |-> FALSE, drained |-> Unset, closeAt |-> 0, fin |-> FALSE]

Init ==
    /\ slot = Fresh
    /\ latch = {}
    /\ pend = [k \in Stops |-> Idle]
    /\ phase = "listen"

Next ==
    \/ TickStopping
    \/ TickServing
    \/ \E d \in TimeSteps : TickBegin(d)
    \/ Syn
    \/ Established
    \/ \E msg \in {Hello, Other} \cup Requests : Send(msg)
    \/ Ack
    \/ Fin
    \/ Rst
    \/ Vanish

(* Unless the host is reset the tick recurs (every exit, USB wait and idle *)
(* loop calls it) and the clock it reads advances.  It begins again only   *)
(* after it has walked the slots, so this is fairness for both halves.     *)
Fairness ==
    \/ <>[](phase = "down")
    \/ []<><<\E d \in TimeSteps \ {0} : TickBegin(d)>>_vars

Spec == Init /\ [][Next]_vars /\ Fairness
-----------------------------------------------------------------------------
(* What the listener promises.                                             *)

\* A TLS session is never used by a connection it was not negotiated on: after
\* the slots have been walked, no connection sits on a session that holds the
\* bytes of an earlier client (the resets in session_relisten, at accept and
\* in the close path, against kept sessions, half-open resets and rebuilds).
NoInheritedSession ==
    phase \in {"listen", "tail"} =>
        (IsActive(slot) => slot.own # "old")

\* A request is handled at most once (a second start, key or power command is
\* not harmless), except that a reply which did not fit the transmit buffer
\* loses track of its request: seal_and_queue leaves the tail in the session,
\* the next tick's drain_tls sends it before wrap_session_try_exchange looks,
\* and the request is handled again.
HandledOnceUnlessSplit ==
    \A n \in 1 .. Len(slot.http) : slot.http[n].ran > 1 => slot.http[n].split

\* Stops end: those that were asked for have been dropped, and no more are.
StopsCease == <>[](latch = {})

\* A slot held by a client that has vanished listens again: through the idle
\* budget, the stalled reply, the kept session's limit or the forced close
\* ("used to hold that socket until the next hypervisor boot").  A latched stop
\* suspends that: while it lasts no kept session is closed, and a vanished
\* client can leave one that only another client's exchange will act on.
SlotComesBack == StopsCease => (slot.peer = "gone" ~> IsListening(slot))
=============================================================================
