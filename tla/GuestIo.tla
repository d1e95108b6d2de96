------------------------------- MODULE GuestIo -------------------------------
(***************************************************************************)
(* A Linux guest, its virtio functions and the injection of their          *)
(* interrupts: devices/guest_virtio_blk.rs (install disk and product ISO), *)
(* devices/guest_virtio_net.rs, the exit loop of vmx/guest_uefi.rs and the *)
(* chips of GuestIrq.                                                      *)
(*                                                                         *)
(* One VM exit is one step: guest_uefi_vmexit handles it, drains every     *)
(* queue and injects at most one vector before the guest runs again.  The  *)
(* guest steps between exits are those of a Linux driver: publish, kick,   *)
(* and an interrupt handler that acknowledges the chip and calls the       *)
(* handlers sharing the line one after the other.                          *)
(*                                                                         *)
(* Ring indices are kept as distances, which never exceed the ring size:   *)
(* pend = avail.idx - last_avail, done = used.idx - the driver's index.    *)
(* RAM of a running guest is mapped, so the rings always translate.        *)
(***************************************************************************)
EXTENDS GuestIrq, Sequences

CONSTANTS
    Configs,    \* the guests: see GuestConfig
    RingSize    \* bound: requests in flight per queue

VirtioFn == {"disk", "iso", "spare", "net"}

Queues == {"disk", "iso", "spare", "tx", "rx"}

\* order: in which Linux registered the functions' handlers; phase: how far the console
\* answers got; apic: does it use the IOAPIC?  lapic: the local timer and self-IPIs?
GuestConfig == [order : Seq(VirtioFn), phase : {"login", "mounted", "packages", "done"},
                apic : BOOLEAN, lapic : BOOLEAN]

ASSUME ConstantsAssumption ==
    /\ \A k \in Configs : k \in GuestConfig
    /\ RingSize \in Nat \ {0}

VARIABLES
    h,      \* the host's state: chips, device registers, rings, timer
    g,      \* the guest: where its CPU is
    cfg     \* order, phase and interrupt mode, chosen once

vars == <<h, g, cfg>>

Present == {cfg.order[i] : i \in 1 .. Len(cfg.order)}

QueuesOf(f) == IF f = "net" THEN {"tx", "rx"} ELSE {f}

Live == UNION {QueuesOf(f) : f \in Present}

Blk == {"disk", "iso", "spare"}

\* apk_overlay_needs_pit, apk_media_mounted, apk_packages_overlay_active and
\* virtio_both_driver_ok.
Overlay == cfg.phase # "done"

Mounted == cfg.phase # "login"

Packages == cfg.phase \in {"packages", "done"}

BothOk == {"disk", "iso"} \subseteq Present

Init ==
    /\ cfg \in Configs
    /\ h = [c |-> ChipAtBoot(cfg.apic),
            isr |-> {},                             \* functions whose ISR is not zero
            notify |-> {},                          \* functions with notify_pending
            arm |-> FALSE,                          \* TX_IRQ_ARM of virtio-net
            pend |-> [q \in Queues |-> IF q = "rx" THEN RingSize ELSE 0],
            done |-> [q \in Queues |-> 0],
            count |-> FALSE, running |-> FALSE,     \* APIC_INIT_COUNT # 0, TIMER_RUNNING
            host |-> FALSE,                         \* HOST_TIMER_FOR_GUEST
            dumped |-> FALSE,                       \* VIRTIO_STALL_DUMPED
            inject |-> None,                        \* VM_ENTRY_INTERRUPTION_INFO
            reinject |-> None,                      \* REINJECT_INFO
            window |-> FALSE]                       \* interrupt-window exiting
    /\ g = [pc |-> "run", vec |-> None, todo |-> <<>>]

-----------------------------------------------------------------------------
\* The virtio functions.

\* raise_deferred_tx_irq.
RaiseDeferred(x) == IF x.arm THEN [x EXCEPT !.arm = FALSE, !.c = RaiseVirtio(@)] ELSE x

PollRxQuiet(x, n) == [x EXCEPT !.pend["rx"] = @ - n, !.done["rx"] = @ + n,
                               !.isr = IF n = 0 THEN @ ELSE @ \cup {"net"}]

\* poll_rx: n frames of the NIC fit in published buffers; the rest are dropped.
PollRx(x, n) ==
    IF n = 0 THEN x
    ELSE [x EXCEPT !.pend["rx"] = @ - n, !.done["rx"] = @ + n, !.isr = @ \cup {"net"}, !.arm = TRUE]

\* process_blk_queue: every published chain is completed, with an error status when
\* the request is bad; the used index moves once per chain.
Complete(x, q) == [x EXCEPT !.pend[q] = 0, !.done[q] = @ + x.pend[q]]

DrainBlkOnKick(x, f) ==
    IF f \notin x.notify THEN Complete(x, f)
    ELSE [Complete(x, f) EXCEPT !.notify = @ \ {f}, !.isr = @ \cup {f}, !.c = RaiseVirtio(@)]

\* drain_disk and drain_iso: a kick or a completed request latches ISR and raises.
DrainBlk(x, f) ==
    IF f \notin x.notify /\ x.pend[f] = 0 THEN x
    ELSE [Complete(x, f) EXCEPT !.notify = @ \ {f}, !.isr = @ \cup {f}, !.c = RaiseVirtio(@)]

\* drain of virtio-net: transmissions end here, their interrupt waits for the next exit.
DrainNet(x) ==
    IF x.pend["tx"] = 0 THEN [x EXCEPT !.notify = @ \ {"net"}]
    ELSE [Complete(x, "tx") EXCEPT !.notify = @ \ {"net"}, !.isr = @ \cup {"net"}, !.arm = TRUE]

\* drain_queue.
Drain(x) == DrainNet(DrainBlk(DrainBlk(DrainBlk(x, "disk"), "iso"), "spare"))

\* linux_raise_overlay_pit_paced when its pace allows, linux_prefer_pit_during_apk.
PitDuringApk(x, paced) ==
    [x EXCEPT !.c = [(IF paced THEN RaisePit(@) ELSE @)
                       EXCEPT !.hold = Overlay /\ BothOk, !.once = TRUE]]

\* maybe_virtio_stall_dump, when the BARs have been quiet for long: a PIT, and with
\* empty rings ISR and the line of all three block functions, present or not.  After
\* the dump: maybe_virtio_stall_dump_pit_hold.
StallDump(x, quiet, paced) ==
    CASE Mounted /\ x.dumped /\ Packages -> PitDuringApk(x, paced)
      [] Mounted /\ ~x.dumped /\ quiet ->
           LET y == [PitDuringApk(x, TRUE) EXCEPT !.dumped = TRUE]
           IN  IF Packages THEN [y EXCEPT !.isr = @ \cup Blk, !.c = RaiseVirtio(@)] ELSE y
      [] OTHER -> x

\* reassert_virtio_shared_intx, asked only while virtio_isr_latched.
Reassert(x) == IF x.isr \cap Blk # {} THEN [x EXCEPT !.c = RaiseVirtio(@)] ELSE x

\* mmio_read_dev of the ISR register, after the drain of the exit.
ReadIsrBlk(x, f) ==
    LET y == [x EXCEPT !.isr = @ \ {f}]
    IN  IF y.isr \cap Blk # {} THEN Reassert(y) ELSE [y EXCEPT !.c = LowerVirtio(@)]

ReadIsrNet(x) ==
    IF "net" \in x.isr THEN [x EXCEPT !.isr = @ \ {"net"}, !.c = LowerVirtio(@)] ELSE x

ReadIsr(x, f) == IF f = "net" THEN ReadIsrNet(Drain(x)) ELSE ReadIsrBlk(Drain(x), f)

-----------------------------------------------------------------------------
\* The local timer.

\* start_countdown of a one-shot timer.
StartCountdown(x) == [x EXCEPT !.count = TRUE, !.running = TRUE, !.host = TRUE]

\* poll_timer_expiry, when the count has elapsed, and on_host_timer_fire.
Expire(x, elapsed) ==
    IF x.host /\ x.running /\ x.count /\ elapsed
    THEN [x EXCEPT !.host = FALSE, !.running = FALSE, !.c.irr = @ \cup {TimerVector}]
    ELSE x

\* relatch_if_idle, when its pacing allows.
Relatch(x, paced) ==
    IF x.count /\ ~(x.running /\ x.host) /\ TimerVector \notin x.c.irr /\ paced
    THEN [x EXCEPT !.c.irr = @ \cup {TimerVector}] ELSE x

-----------------------------------------------------------------------------
\* try_inject_guest_irq, on the way back to a Linux guest whose IF is iflag.

Idle(x) == [x EXCEPT !.window = FALSE]

Window(x) == [x EXCEPT !.window = TRUE]

\* VM_ENTRY_INTERRUPTION_INFO; the window request ends.
Enter(x, v) == [x EXCEPT !.inject = v, !.window = FALSE]

\* The jiffies of the overlay: raise_pit at most once per pace, prefer_pit_hold.
OverlayPit(x, paced) ==
    [x EXCEPT !.c = [(IF Overlay /\ BothOk /\ paced THEN RaisePit(@) ELSE @)
                       EXCEPT !.hold = Overlay /\ BothOk]]

\* The vector, once it is known that there is one to take and that IF is set.
TakeOne(x, timerFirst, usePic) ==
    LET own    == SelfPending(x.c)
        top    == Highest(x.c.irr)
        take(v, c) == Enter([x EXCEPT !.c = c], v)
    IN  CASE timerFirst /\ Deliverable(x.c, TimerVector) -> take(TimerVector, TakeVector(x.c, TimerVector))
          [] timerFirst /\ ~Deliverable(x.c, TimerVector) -> Idle(x)
          [] ~timerFirst /\ own # {} ->
               take(Highest(own), TakeVector([x.c EXCEPT !.self = @ \ own], Highest(own)))
          [] ~timerFirst /\ own = {} /\ usePic -> take(PicVector(PicPending(x.c)), PicTake(x.c, Mounted))
          [] OTHER -> take(top, TakeVector(x.c, top))

\* What the resume of a Linux guest does to the lines before it looks at them.
BeforeInject(x, paced) == OverlayPit(IF Overlay /\ BothOk THEN Reassert(x) ELSE x, paced)

TryInject(x0, iflag) ==
    \/ /\ x0.reinject # None
       /\ h' = Enter([x0 EXCEPT !.reinject = None], x0.reinject)
    \/ /\ x0.reinject = None
       /\ \E paced \in BOOLEAN : \E x1 \in {BeforeInject(x0, paced)} :
            LET picReady   == PicPending(x1.c) # None
                timerFirst == TimerVector \in x1.c.irr
                picFirst   == picReady /\ ~cfg.apic /\ ~timerFirst
            IN  \E x \in {IF picFirst \/ timerFirst THEN x1 ELSE [x1 EXCEPT !.c = TakeIoapic(@, cfg.apic)]} :
                  LET lapic == HasDeliverable(x.c)
                  IN  h' = IF ~(lapic \/ timerFirst \/ picReady) THEN Idle(x)
                           ELSE IF ~iflag THEN Window(x)
                           ELSE TakeOne(x, timerFirst, picFirst \/ (picReady /\ ~lapic))

\* The end of every exit.  Four billion cycles pass without a BAR access only where
\* no handler runs, and not at one.
Resume(x, iflag) ==
    \E quiet \in {FALSE, g.pc = "run"}, paced \in {FALSE, h.dumped} : \E y \in {x} :
        \E z \in {StallDump(Drain(y), quiet, paced)} : TryInject(z, iflag)

EntryForgets(n, again) == [PollRx(RaiseDeferred(h), n) EXCEPT !.inject = None]

\* The start of every exit: deferred interrupt, frames from the NIC, and the vector
\* whose delivery the exit interrupted (IDT_VECTORING_INFO).
EntryWith(n, again) ==
    [PollRx(RaiseDeferred(h), n) EXCEPT !.inject = None, !.reinject = again]

Frames == 0 .. (IF "net" \in Present THEN h.pend["rx"] ELSE 0)

\* An exit whose handler does Op, taken where IF is iflag.
Exit(Op(_), iflag) ==
    \E n \in Frames : \E x \in {EntryWith(n, None)} : Resume(Op(x), iflag)

-----------------------------------------------------------------------------
\* Exits of the running guest.  With a window requested and IF set the next thing
\* that happens is the window exit; with a vector queued, its delivery.

Running == g.pc = "run" /\ h.inject = None /\ ~h.window

InHandler == g.pc # "run" /\ h.inject = None

\* The driver makes a request available: memory only.
Publish(q) ==
    /\ Running /\ q \in Live \ {"rx"} /\ h.pend[q] + h.done[q] < RingSize
    /\ h' = [h EXCEPT !.pend[q] = @ + 1]
    /\ UNCHANGED <<g, cfg>>

\* handle_virtio_bar_ept, a notify write: polls the timer, drains at once.
Kick(f) ==
    /\ Running /\ f \in Present
    /\ \E elapsed \in BOOLEAN :
          Exit(LAMBDA x : Drain([Expire(x, elapsed) EXCEPT !.notify = @ \cup {f}, !.dumped = FALSE]), TRUE)
    /\ UNCHANGED <<g, cfg>>

\* The VMX preemption timer or HLT: tick_hpet_on_exit, and for the former
\* raise_deferred_tx_irq once more.
Tick(preempt) ==
    /\ Running \/ (InHandler /\ preempt)
    /\ UNCHANGED <<g, cfg>>
    /\ \E elapsed, due \in BOOLEAN :
          Exit(LAMBDA x :
                 LET y == Relatch(Expire(x, elapsed), due)
                     c == RaisePit(y.c)
                     z == [y EXCEPT !.c = [c EXCEPT !.hold = Overlay /\ BothOk,
                                                    !.once = c.once \/ preempt \/ Overlay]]
                 IN  IF preempt THEN RaiseDeferred(z) ELSE z,
               g.pc = "run")

WindowExit ==
    /\ h.window /\ g.pc = "run" /\ h.inject = None
    /\ UNCHANGED <<g, cfg>>
    /\ Exit(LAMBDA x : x, TRUE)

\* The delivery of a vector touches an unmapped page of the IDT or the stack.
DeliveryExit ==
    /\ h.inject # None
    /\ \E n \in Frames : Resume(EntryWith(n, h.inject), TRUE)
    /\ UNCHANGED <<g, cfg>>

\* xAPIC INIT_COUNT and ICR writes.
ArmTimer ==
    /\ Running /\ cfg.lapic /\ Exit(StartCountdown, TRUE)
    /\ UNCHANGED <<g, cfg>>

SendSelf ==
    /\ Running /\ cfg.lapic
    /\ Exit(LAMBDA x : [x EXCEPT !.c = SelfIpi(@, SelfVector)], TRUE)
    /\ UNCHANGED <<g, cfg>>

-----------------------------------------------------------------------------
\* Linux takes the vector: mask_and_ack_8259A, handle_level_irq, handle_fasteoi_irq,
\* handle_edge_irq and the local vectors.  Interrupts stay off until the return.

IsPic(v) == v \in {PicVector(PIT_IRQ), PicVector(VIRTIO_PIC_IRQ)}

IsVirtio(v) == v \in {PicVector(VIRTIO_PIC_IRQ), PinVector(VIRTIO_PIC_IRQ)}

Deliver ==
    /\ h.inject # None
    /\ h' = [h EXCEPT !.inject = None]
    /\ g' = [vec |-> h.inject, todo |-> IF IsVirtio(h.inject) THEN cfg.order ELSE <<>>,
             pc |-> IF IsPic(h.inject) THEN "mask" ELSE IF IsVirtio(h.inject) THEN "poll" ELSE "eoi"]
    /\ UNCHANGED cfg

Goto(pc) == g' = [g EXCEPT !.pc = pc] /\ UNCHANGED cfg

Return == g' = [pc |-> "run", vec |-> None, todo |-> <<>>] /\ UNCHANGED cfg

\* pic_write: an IMR byte, and OCW2 with a specific EOI.
PicMask ==
    /\ InHandler /\ g.pc = "mask"
    /\ Goto(IF IsVirtio(g.vec) THEN "eoi slave" ELSE "eoi master")
    /\ Exit(LAMBDA x : IF IsVirtio(g.vec) THEN [x EXCEPT !.c.simr = {VIRTIO_PIC_IRQ}]
                                         ELSE [x EXCEPT !.c.mimr = {PIT_IRQ}], FALSE)

PicEoiSlave ==
    /\ InHandler /\ g.pc = "eoi slave"
    /\ Goto("eoi master")
    /\ Exit(LAMBDA x : [x EXCEPT !.c.sisr = @ \ EoiBit(@, VIRTIO_PIC_IRQ)], FALSE)

PicEoiMaster ==
    /\ InHandler /\ g.pc = "eoi master"
    /\ Goto(IF IsVirtio(g.vec) THEN "poll" ELSE "unmask")
    /\ Exit(LAMBDA x : [x EXCEPT !.c.misr = @ \ EoiBit(@, IF IsVirtio(g.vec) THEN PIC_SLAVE_IRQ
                                                                           ELSE PIT_IRQ)], FALSE)

PicUnmask ==
    /\ InHandler /\ g.pc = "unmask"
    /\ Return
    /\ Exit(LAMBDA x : IF IsVirtio(g.vec) THEN [x EXCEPT !.c.simr = {}]
                                         ELSE [x EXCEPT !.c.mimr = {}], FALSE)

\* The next function's handler reads its ISR: handle_virtio_bar_ept polls the timer,
\* drains every queue and reads.
PollIsr ==
    /\ InHandler /\ g.pc = "poll" /\ g.todo # <<>>
    /\ \E n \in Frames, elapsed \in BOOLEAN : \E x \in {Expire(EntryWith(n, None), elapsed)} :
          LET f == Head(g.todo)
          IN  /\ Resume(ReadIsr(x, f), FALSE)
              /\ g' = IF f \in Drain(x).isr THEN [g EXCEPT !.pc = "harvest"]
                                            ELSE [g EXCEPT !.todo = Tail(@)]
    /\ UNCHANGED cfg

\* The driver takes what the used rings hold and gives receive buffers back.
Harvest ==
    /\ InHandler /\ g.pc = "harvest"
    /\ LET Q == QueuesOf(Head(g.todo))
       IN  h' = [h EXCEPT !.done = [q \in Queues |-> IF q \in Q THEN 0 ELSE @[q]],
                          !.pend["rx"] = IF "rx" \in Q THEN RingSize ELSE @]
    /\ g' = [g EXCEPT !.pc = "poll", !.todo = Tail(@)]
    /\ UNCHANGED cfg

PollDone ==
    /\ InHandler /\ g.pc = "poll" /\ g.todo = <<>>
    /\ h' = h
    /\ Goto(IF IsPic(g.vec) THEN "unmask" ELSE "eoi")

\* xAPIC EOI write: handle_eoi.
ApicEoi ==
    /\ InHandler /\ g.pc = "eoi"
    /\ Return
    /\ Exit(LAMBDA x : [x EXCEPT !.c = LapicEoi(@)], FALSE)

Handler ==
    \/ PicMask \/ PicEoiSlave \/ PicEoiMaster \/ PicUnmask
    \/ PollIsr \/ Harvest \/ PollDone \/ ApicEoi

Next ==
    \/ \E q \in Queues : Publish(q)
    \/ \E f \in VirtioFn : Kick(f)
    \/ \E preempt \in BOOLEAN : Tick(preempt)
    \/ WindowExit \/ DeliveryExit \/ ArmTimer \/ SendSelf
    \/ Deliver \/ Handler

\* The CPU goes on: deliveries end, handlers return, and not with a local timer
\* interrupt that became due in every one of them; a window opens, and an idle guest
\* meets the preemption timer (arm_preempt_on_resume).
Fairness ==
    /\ []<>(g.pc = "run" /\ h.inject = None /\ TimerVector \notin h.c.irr)
    /\ WF_vars(WindowExit)
    /\ WF_vars(Running /\ Tick(TRUE))

Spec == Init /\ [][Next]_vars /\ Fairness

-----------------------------------------------------------------------------
\* Properties.

\* Every interrupt a chip holds in service was injected, waits to be injected again
\* after an interrupted delivery, or is in a handler that has yet to end it: no
\* vector taken from a chip is dropped (guest_uefi.rs, IDT vectoring).
InServiceIsHandled ==
    LET v == IF h.inject # None THEN h.inject ELSE g.vec
    IN  /\ h.c.sisr # {} => v = PicVector(VIRTIO_PIC_IRQ) /\ g.pc \in {"run", "mask", "eoi slave"}
        /\ PIC_SLAVE_IRQ \in h.c.misr =>
              v = PicVector(VIRTIO_PIC_IRQ) /\ g.pc \in {"run", "mask", "eoi slave", "eoi master"}
        /\ PIT_IRQ \in h.c.misr => v = PicVector(PIT_IRQ) /\ g.pc \in {"run", "mask", "eoi master"}
        /\ h.c.isr \subseteq {v}
        /\ v = None => h.c.sisr = {} /\ h.c.misr = {} /\ h.c.isr = {}

LineHigh == VIRTIO_PIC_IRQ \in h.c.pins /\ VIRTIO_PIC_IRQ \in h.c.sirr /\ PIC_SLAVE_IRQ \in h.c.mirr

\* A function with ISR set is heard: the shared line is high, or will be at the next
\* exit, or the handler that runs has not come to that function yet.
NoLostInterrupt ==
    \A f \in h.isr \cap Present : LineHigh \/ h.arm \/ \E i \in 1 .. Len(g.todo) : g.todo[i] = f

\* What the driver published is completed and harvested.
RequestsComplete == \A q \in Queues \ {"rx"} : (h.pend[q] # 0) ~> (h.pend[q] + h.done[q] = 0)

\* While the console answers still need jiffies, traffic on the shared line does not
\* starve the 8259's timer however long it lasts: IRQ11_YIELD_PIT.
PitIsServed ==
    (PIT_IRQ \in h.c.mirr /\ ~cfg.apic /\ Overlay /\ BothOk) ~> (PIT_IRQ \in h.c.misr)
=============================================================================
