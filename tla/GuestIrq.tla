------------------------------ MODULE GuestIrq ------------------------------
(***************************************************************************)
(* The interrupt chips a guest sees: the 8259 pair and the IOAPIC of       *)
(* devices/guest_irq.rs and the local APIC of devices/lapic_virt.rs.       *)
(*                                                                         *)
(* One record c holds the three chips and the flags that order them; every *)
(* operation is an operator from such a record to the one it leaves.  The  *)
(* registers are sets of the interrupt numbers whose bit is one.  The      *)
(* 8259s are past their ICWs (ready, ICW2 at 0x30 as Linux writes it); the *)
(* redirection entries are those of the guest: constant once it runs.      *)
(***************************************************************************)
EXTENDS Integers, FiniteSets

PIT_IRQ == 0

PIC_SLAVE_IRQ == 2

VIRTIO_PIC_IRQ == 11

PIT_IOAPIC_GSI == 2

None == -1

PicVector(irq) == 48 + irq      \* ICW2 0x30 and 0x38

\* Redirection entries Linux writes in APIC mode: the timer's pin is edge, the
\* PCI interrupt line (pin 11, without _PRT) is level; all other pins are masked.
Pins(apic) == IF apic THEN {VIRTIO_PIC_IRQ, PIT_IOAPIC_GSI} ELSE {}

Level == {VIRTIO_PIC_IRQ}

PinVector(pin) == 64 + pin

TimerVector == 236

SelfVector == 246

Lowest(S) == CHOOSE x \in S : \A y \in S : x <= y

Highest(S) == CHOOSE x \in S : \A y \in S : x >= y

\* What Linux leaves after init_8259A and, in APIC mode, after masking the 8259.
ChipAtBoot(apic) == [
    mirr |-> {}, mimr |-> IF apic THEN {PIT_IRQ, PIC_SLAVE_IRQ} ELSE {}, misr |-> {},   \* master
    sirr |-> {}, simr |-> IF apic THEN {VIRTIO_PIC_IRQ} ELSE {}, sisr |-> {},           \* slave
    pins |-> {}, remote |-> {},             \* IOAPIC irr; remote IRR of its entries
    hold |-> FALSE, once |-> FALSE,         \* PREFER_PIT_HOLD, PREFER_PIT_ONCE
    yield |-> FALSE, since |-> 0,           \* IRQ11_YIELD_PIT, PIC11_SINCE_PIT
    irr |-> {}, isr |-> {}, self |-> {} ]   \* local APIC, SELF_IPI_MASK

-----------------------------------------------------------------------------
\* Lines.

\* raise_pic_locked: PCI INTx is level and unmasks itself.
RaisePic(c, irq) ==
    LET slave == irq >= 8
        level == irq = VIRTIO_PIC_IRQ
    IN  [c EXCEPT !.mirr = @ \cup {IF slave THEN PIC_SLAVE_IRQ ELSE irq},
                  !.sirr = IF slave THEN @ \cup {irq} ELSE @,
                  !.simr = IF level THEN @ \ {irq} ELSE @,
                  !.mimr = IF level THEN @ \ {PIC_SLAVE_IRQ} ELSE @]

\* The cascade line follows what the slave still requests.
Cascade(c) == IF c.sirr \ c.simr = {} THEN [c EXCEPT !.mirr = @ \ {PIC_SLAVE_IRQ}] ELSE c

LowerPic(c, irq) ==
    IF irq < 8 THEN [c EXCEPT !.mirr = @ \ {irq}]
               ELSE Cascade([c EXCEPT !.sirr = @ \ {irq}])

RaiseVirtio(c) == RaisePic([c EXCEPT !.pins = @ \cup {VIRTIO_PIC_IRQ}], VIRTIO_PIC_IRQ)

LowerVirtio(c) == LowerPic([c EXCEPT !.pins = @ \ {VIRTIO_PIC_IRQ}], VIRTIO_PIC_IRQ)

RaisePit(c) == RaisePic([c EXCEPT !.pins = @ \cup {PIT_IOAPIC_GSI}], PIT_IRQ)

-----------------------------------------------------------------------------
\* The 8259 pair.

PreferPit(c) == c.hold \/ c.once

\* pic_pending_irq: slave devices, then a preferred PIT, then master devices, then
\* the PIT; IRQ 11 gives way once to a preferred PIT after it was taken.
PicPending(c) ==
    LET req  == (c.mirr \ c.mimr) \ c.misr
        sreq == IF PIC_SLAVE_IRQ \in req THEN (c.sirr \ c.simr) \ c.sisr ELSE {}
        pit  == PreferPit(c) /\ PIT_IRQ \in req
        dev  == req \ {PIT_IRQ, PIC_SLAVE_IRQ}
    IN  IF sreq # {} /\ ~(Lowest(sreq) = VIRTIO_PIC_IRQ /\ pit /\ c.yield) THEN Lowest(sreq)
        ELSE IF pit THEN PIT_IRQ
        ELSE IF dev # {} THEN Lowest(dev)
        ELSE IF PIT_IRQ \in req THEN PIT_IRQ ELSE None

NoteNoYield(c, irq, mounted) == IF irq = PIT_IRQ THEN [c EXCEPT !.once = FALSE] ELSE c

\* After IRQ 11 was taken the PIT is next: always until the media is mounted,
\* every third time after.
NoteTaken(c, irq, mounted) ==
    IF irq = PIT_IRQ THEN [c EXCEPT !.once = FALSE, !.yield = FALSE, !.since = 0]
    ELSE IF irq # VIRTIO_PIC_IRQ THEN c
    ELSE IF ~mounted THEN [c EXCEPT !.yield = TRUE]
    ELSE [c EXCEPT !.yield = c.since + 1 >= 3, !.since = IF c.since + 1 >= 3 THEN 0 ELSE @ + 1]

\* pic_take: INTA.  A level request stays until the device lowers it.
PicTake(c0, mounted) ==
    LET irq == PicPending(c0)
        c   == NoteTaken(c0, irq, mounted)
    IN  IF irq < 8
        THEN [c EXCEPT !.mirr = @ \ {irq}, !.misr = @ \cup {irq}]
        ELSE Cascade([c EXCEPT !.sirr = IF irq = VIRTIO_PIC_IRQ THEN @ ELSE @ \ {irq},
                               !.sisr = @ \cup {irq}, !.misr = @ \cup {PIC_SLAVE_IRQ}])

\* pic_ocw2_eoi_bit: a specific EOI names the level, a non-specific one (n = None)
\* ends the highest priority in service, the lowest number.
EoiBit(isr, n) ==
    IF n # None THEN isr \cap {n} ELSE IF isr = {} THEN {} ELSE {Lowest(isr)}

-----------------------------------------------------------------------------
\* The IOAPIC and the local APIC.

PinReady(c, apic, pin) == pin \in c.pins \cap Pins(apic) /\ pin \notin c.remote

\* ioapic_peek_pin: device pins before the PIT's.
PeekPin(c, apic) ==
    IF PinReady(c, apic, VIRTIO_PIC_IRQ) THEN VIRTIO_PIC_IRQ
    ELSE IF PinReady(c, apic, PIT_IOAPIC_GSI) THEN PIT_IOAPIC_GSI ELSE None

\* ioapic_accept, then latch_irr: a level entry waits for the EOI, an edge is over.
TakeIoapic(c, apic) ==
    LET pin == PeekPin(c, apic)
    IN  IF pin = None THEN c
        ELSE IF pin \in Level
        THEN [c EXCEPT !.remote = @ \cup {pin}, !.irr = @ \cup {PinVector(pin)}]
        ELSE [c EXCEPT !.pins = @ \ {pin}, !.irr = @ \cup {PinVector(pin)}]

Class(v) == v \div 16

\* processor_priority with TPR zero, as Linux keeps it.
Deliverable(c, v) == v \in c.irr /\ (c.isr = {} \/ Class(v) > Class(Highest(c.isr)))

HasDeliverable(c) == c.irr # {} /\ Deliverable(c, Highest(c.irr))

\* take_irr_vec: request to in service.
TakeVector(c, v) == [c EXCEPT !.irr = @ \ {v}, !.isr = @ \cup {v}]

\* handle_eoi ends the highest vector in service and lets level pins fire again.
LapicEoi(c) ==
    IF c.isr = {} THEN c
    ELSE LET v == Highest(c.isr)
         IN  [c EXCEPT !.isr = @ \ {v}, !.remote = {p \in @ : PinVector(p) # v}]

\* accept_icr_low: a fixed IPI to this CPU.
SelfIpi(c, v) == [c EXCEPT !.irr = @ \cup {v}, !.self = @ \cup {v}]

SelfPending(c) == {v \in c.self \cap c.irr : Deliverable(c, v) /\ \A w \in c.self \cap c.irr : w <= v}
=============================================================================
