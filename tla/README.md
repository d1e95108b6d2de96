# A TLA+ model of RayNu-V

RayNu-V is a type-1 hypervisor in Rust: one UEFI image that boots a Dell R640
(or QEMU), leaves boot services, runs Linux and small SHELL guests under VT-x,
offers a REST and web control plane on its own NIC stack, and brings its own
guest firmware, RayNu-F. This directory holds TLA+ specifications of the parts
of it that keep state and can go wrong in an order nobody tested, TLC
configurations that check them on small instances, and TLAPS proofs of the
results that matter most for every size.

Paths below are relative to the repository. Every definition is translated from
the source; `PROJECT.json` gives the lines of each one.

Contents: [1 Inventory](#1-inventory) · [2 Modules](#2-modules-and-the-code) ·
[3 Runs](#3-runs) · [4 Fairness](#4-fairness) · [5 Proofs](#5-proofs) ·
[6 Findings](#6-where-the-code-and-its-documents-disagree) ·
[7 Abstractions](#7-abstractions-and-what-they-hide) ·
[8 Not modelled](#8-what-is-not-modelled) · [9 Plan](#9-plan)

## 1 Inventory

**How it runs.** There is one processor in VMX root and no preemption: host code
is sequential, a VM exit is handled to the next VM entry, and the host services
(NIC, REST, flush to the RAID volume) are polled from exit handlers and idle
loops. Concurrency therefore comes from the *boundaries*: VM exits in any order,
interrupts and completions between two exits, requests that arrive between two
ticks, hardware that completes late, fails or loses a transfer, power loss
between two sector writes.

| Component | State | Operations | Interacts with | Hard behaviour | What makes it correct |
|---|---|---|---|---|---|
| Frame allocator (`memory/frame_allocator.rs`) | bitmap, count, scan hint | allocate, allocate aligned run, free, self-test | every owner of memory | unaligned pool base, wrap of the scan, redundant count | never hands out a frame twice; refuses only when it must |
| EPT registry (`memory/ept.rs`, `EptMap`) | slot array, length | map, unmap, owner queries, violation, transfer | guests, allocator | full registry, failure in mid-transfer, byte addresses | one owner per frame, one frame per page, hand-over atomic |
| Precise window (`memory/ept.rs`, `EptRangeMap`) | ranges, ownership latch | claim with shell holes | boot, EPT tables | adjacent holes, failure half-way, slot limit | the latch means an exact partition |
| Audit chain (`audit/`, `mgmt/megaraid.rs`) | ring, staged image, generation, disk sectors | record, stage, load, adopt, flush, verify, ack | boot wait, guests, RAID driver | torn writes, lost writes, several boots, full ring | what was acknowledged survives, what is loaded is a chain that was written |
| Credit and guest scheduler (`sched/scheduler.rs`, `vmx/launch.rs`) | credits, current slot, VMCS states, register banks, shadows, parking flags, ladder progress | pick, consume, shell entry, preempt, probes, finish, SPA start and stop, fail-soft paths | REST mailbox, audit | VMCS protocol, stale registers, second failure inside a failure handler | every entry continues the right guest; the host stays up |
| Guest table and REST (`mgmt/mod.rs`, `api.rs`, `spa_launch.rs`) | 16 slots with tombstones, count, start and stop mailbox | create, start, stop, destroy, list, tick | guest scheduler | many requests between two ticks, slot reuse | table sound, an accepted request is served |
| HA pair and import (`mgmt/ha.rs`, `migrate/mod.rs`) | two tables, active role, batch in progress | failover, parse, import | guest table | error between destroy and create, partial import | no guest lost or doubled |
| RayNu-F page pool (`raynu_f/memory.rs`) | three bitmaps with types, tail spans | AllocatePages (any, max, address), FreePages, memory map | firmware services, loaded OS | runs across bitmap and tail, span limit, partial free | only asked-for pages change; what is advertised can be had |
| RayNu-F services (`raynu_f/services.rs`, `protocol.rs`, the StartImage frames of `vmx/guest_uefi.rs`) | pool buffers, handles and protocols, the image on record, the saved caller | AllocatePool, FreePool, protocol install and uninstall, Load-, Start-, UnloadImage, Exit | page pool, guest exit loop | nested images, a failed load, a full protocol table | pages have one holder; Exit returns to the caller |
| Guest interrupts and I/O (`devices/`, the injection path of `vmx/guest_uefi.rs`) | 8259 pair, IO-APIC, local APIC, PIT, virtio functions with ISR latches and rings, event to inject | guest accesses, kicks, exits, injection window, EOI, HLT | disks, NIC | four functions on one level line, exit in mid-delivery, deferred completion, timer starvation | no interrupt lost or left in service; requests complete; the timer is served |
| USB disk (`mgmt/xhci.rs`, `usb_bot.rs`, `durable_lun.rs`, `disk_persist.rs`) | transfer rings, event counts, bounce page, sector cache, GPT pin | queue, poll, time out, recover, sense, retry, read-modify-write | virtio block, RayNu-F BlockIo | time-outs racing late answers, STALL, retries | a read is true, an acknowledged write stays |
| Management listener (`mgmt/host_nic_listen.rs`, `host_nic_http.rs`, `tls_coexist.rs`, `host_power.rs`) | connection slots, TLS session, queued reply, power latches | tick, accept, exchange, drain, close, give up, rebuild | every REST handler | slow or vanished clients, replies that fit in part, stop while replying | no session inherited, a request handled once, a slot comes back |
| Product guest (`mgmt/perc_boot_choice.rs`, `guest_catalog.rs`, `guest_power.rs`, `guest_autostart.rs`, `iso_library.rs`) | choice, Stop latches, power request, boot list, library file, layout of the spare volume | start, stop, install, power, boot-next, upload, clear, autostart, relaunch | listener, exit loop, RAID driver | requests in every loop of the host, failing disk commands, host reset, placement from both ends | nothing overlaps, a Stop lands, the list is kept, an upload is whole |
| RAID and NVMe drivers | command rings, staged records | submit, poll, flush | audit, guest disks | time-outs | audit and autostart flush modelled |
| Boot (`boot/`, `src/main.rs`) | heap, memory hand-over, flags | straight-line sequence | all | the switch at ExitBootServices | not modelled |

`PROJECT.json` lists every component, also the ones without a module, and under
`hazards` the places in this code that are hard to test, with the properties
that would notice.

## 2 Modules and the code

| Module | Models | Notes |
|---|---|---|
| `FrameAllocator` | `memory/frame_allocator.rs` | a pool is `[bits, count, hint]`; methods are operators from a pool to a pool and a result, so the self-test is the chain of calls it is in the code |
| `FrameOwnership` | ADR-004's promise | abstract: frames, places, `Claim`, `Release`, `HandOver` |
| `EptMap` | `EptMap` of `memory/ept.rs` | refines `FrameOwnership` through `OwnerOf` |
| `EptRanges` | `EptRangeMap`, `claim_precise_with_shell_holes` | one action per hole, so that a failure half-way is a state |
| `AuditLog` | `audit/integrity.rs`, `audit/persist.rs`, load and flush in `mgmt/megaraid.rs` | several boots of one machine; flush sector by sector |
| `CreditScheduler` | `sched/scheduler.rs` | operators on the sequence of credits, used by the next one |
| `GuestSched` | the scheduler of `vmx/launch.rs` | one action per VM exit, up to the next VM entry; fail-soft functions that never return are operators on the host state |
| `VmTable` | `mgmt/mod.rs` | operators on a table, shared by the next two |
| `RestVms` | `mgmt/api.rs`, `mgmt/spa_launch.rs` | one action per REST arm and one for the scheduler's tick |
| `HaPair` | `mgmt/ha.rs`, `migrate/mod.rs` | one action per loop iteration, with its error return |
| `FwPool` | `raynu_f/memory.rs` and two arms of `raynu_f/services.rs` | bitmap regions, tail spans and the boundary between them |
| `FwServices` | `raynu_f/services.rs`, `protocol.rs`; staging of the boot loader, StartImage and Exit in `vmx/guest_uefi.rs` | extends `FwPool`: pool buffers, images and protocols live in its pages; it starts in the boot loader that the launcher staged (`StageBootloader`) or in the test app |
| `GuestIrq` | `devices/guest_irq.rs`, `lapic_virt.rs` | operators on the interrupt chips |
| `GuestIo` | virtio functions, timers and the exit path around `GuestIrq` | one action per exit, with pumps, injection ladder and window request in the code's order |
| `UsbBot` | `mgmt/xhci.rs`, `mgmt/usb_bot.rs` | driver, controller and disk take steps of their own |
| `DurableLun` | `mgmt/durable_lun.rs`, `disk_persist.rs` | extends `UsbBot`: requests in native blocks or by read-modify-write, cache and pin |
| `Listener` | `mgmt/host_nic_listen.rs`, `host_nic_http.rs`, `tls_coexist.rs`, `host_power.rs` | one connection slot in full, the others chosen freely; a tick is its sequence of phases |
| `SpareLayout` | the placement functions of `iso_library.rs`, `guest_catalog.rs`, `megaraid.rs` | operators on extents of the spare volume |
| `ProductGuest` | the control plane of the product guest | extends `SpareLayout`; one action per request, per loop of the host and per end of a guest |
| `*Proofs` | | theorems and their lemmas, section 5 |
| `MC*` | | constants of the runs; `MCMemory` and `MCGuestTables` put modules that share no state side by side |

Actions are whole handlers. Where the code calls several things before it
returns, the action contains all of them; where it returns early, the action
has that outcome; where a loop can fail half-way, an iteration is an action and
nothing else can run between two iterations.

Compositions: `DurableLun` over `UsbBot` (a virtio or firmware request down to
the transfer rings), `GuestIo` over `GuestIrq`, `GuestSched` over
`CreditScheduler`, `FwServices` over `FwPool`, `HaPair` and `RestVms` over
`VmTable`, `ProductGuest` over `SpareLayout`. In `MCMemory` and `MCGuestTables`
modules stand side by side only to share a run: a part moves while the others
are at rest.

Definitions introduced by a comment "Mutant" (`FirstClearNoWrap`, `AtWithin`,
`AckStale`, …) are a definition with a plausible bug, kept before the original
and used by nothing. With the mutant in place of the original the property named
in `PROJECT.json` fails.

## 3 Runs

`tlc -config <cfg> <module>` for each.

| Run | Module, cfg | Bounds | Shows |
|---|---|---|---|
| `memory` | `MCMemory`, `Memory.cfg` | pool of five frames, odd base, runs 0..6, alignments that include 0 and a non-power of two; window of nine pages, up to two arbitrary or three aligned holes, six ranges; two slots, guests 0..2, three addresses on two pages, three frames | the count never drifts; a returned run was entirely free and is aligned by frame number; `None` only when no fitting run exists; the latch implies that every byte of the window has exactly the owner intended, and no well-formed list is refused; the registry is exclusive and implements `FrameOwnership` |
| `audit_chain` | `MCAuditLog`, `AuditLog.cfg` | ring of three, two kinds, three boots, one faulty transfer, checksum of one bit | torn images are refused; an acknowledged image is on disk; a loaded history continues one that was written; a staged image gets to the disk |
| `audit_stale_flush` | `MCAuditLog`, `AuditReboot.cfg` | the same | violation, section 6 |
| `guest_sched` | `MCGuestSched`, `GuestSched.cfg` | the real four slots; sound regions with three requests, every fault the code names with two | every VM entry continues the guest whose VMCS is current, where it left off; the ladder ends; G0 and the SPA guest both keep running; the host stops only after a fault; a parked guest does not run |
| `guest_tables` | `MCGuestTables`, `GuestTables.cfg` | two slots a table, ids 0..3, the specifications `validate` tells apart, batches up to and over the cap | the table stays sound under slot reuse; no guest is lost or on two tables, and a failover that begins completes |
| `start_overwritten` | `MCGuestTables`, `StartOverwritten.cfg` | the same | violation, section 6 |
| `fw_services` | `MCFwServices`, `FwServices.cfg` | one page below 1 MiB, one in the low pool, two with bitmap, up to five mapped, two tail spans, runs up to three; a staged boot loader of one or two pages or the test app, two loads, three nested frames, three protocol rows | calls change only the pages asked for; an allocation can be given back whole; a page advertised as free can be allocated at its address while tail spans last; pages have one holder; Exit returns to the caller; what was installed can be uninstalled |
| `guest_io` | `MCGuestIo`, `GuestIo.cfg` | the function orders and interrupt modes of the product guests, rings of one | nothing stays in service without a handler; a raised line or latched ISR leads to an interrupt; requests complete; the timer is served although level lines outrank it |
| `usb_disk` | `MCDurableLun`, `DurableLun.cfg` | two sectors as two blocks or one, two values, two rounds of one try, three faults | a read that succeeds returns what is on the disk; an acknowledged write stays (one exception, section 6); rings are clean or the endpoint is halted when a command starts |
| `listener` | `MCListener`, `Listener.cfg` | buffer of two units, three kinds of requests, two pipelined, limits of 1 to 3 in the code's order | a client never sees another's session; a request is handled once unless its reply was split (section 6); a slot comes back |
| `product_guest` | `MCProductGuest`, `ProductGuest.cfg` | 28 units, disks of 4, 8, 16, files of 9 and 18, one entry, which for the large disk may be in the list from the start, two boots, one fault, three kinds of operators | nothing the host knows of overlaps; a complete upload stays whole; the list on disk is the one shown; a running guest keeps its disk; a Stop lands |
| `partial_iso_adopted` | `MCProductGuest`, `PartialIso.cfg` | files of 9 | violation, section 6 |

**Why the bounds are enough.** The sizes that enter a comparison each have a
value below, at and above it: runs longer than the pool, a full registry with
frames left, more ids than slots, a batch over the cap, a ring that fills within
three boots, tail spans and protocol rows used up, holes that touch and holes at
the window's ends, a reply that fits in part. Pages are scaled to two bytes so
that every byte of a page is an argument, native blocks to two sectors so that a
request can cover half of one. Three boots are the least in which a history is
written, joined and lost. On the spare volume the file of the adopted size meets
the second disk and the larger one reaches into the records and over the first
disk. `Requests`, `MaxBoots`, `MaxFaults`, `MaxMapped`, `MaxRun`, `MaxLoads`,
`MaxDepth`, `MaxMint`, `MaxPipe` and `MaxEntries` bound otherwise endless
behaviour. The driver's three tries are scaled to one (`Tries`), so that three
faults suffice to have a request given up and to disturb the next one; the
rounds, `ResetMax` and the order of the listener's limits are the code's. The listener's ages are capped above the largest limit.
`product_guest` splits its operators into three subjects (power, boot list,
library), since their requests share only the starting and stopping of guests; a
list that holds an entry from an earlier life of the machine is given to the
library's operator, where a stale entry and an upload meet. `fw_services` leaves
out the test app entered before the loader's image was allocated, which only has
more pages.

**Stopping.** `audit_chain` ends when the last boot has nothing left to do,
`memory` when the claim of a window with holes has returned, `fw_services` when
no call can succeed, `listener` when the host was reset: these say
`CHECK_DEADLOCK FALSE`. In `GuestSched` a stopped host is the explicit action
`Stopped`. The others never stop, and deadlock is checked.

Type invariants are kept in the modules (and proved where section 5 says "types");
the runs spend their properties on behaviour.

## 4 Fairness

* `AuditLog`: weak fairness of starting a flush, writing a sector, reading back
  and acknowledging. The host's idle and poll loops call the flush for ever and
  the transfer loop always ends, in a completion or a time-out. Nothing is
  assumed of events, guests or power; `EventuallyDurable` allows for power loss
  and for a guest that owns the controller.
* `GuestSched`: weak fairness of a guest's next exit that matters (`G0Shell`,
  `AfterShellCpuid`, `SchedulePreempt`) and of the host's own continuation
  (`Probes`, `FinishBoot`). The shells execute CPUID unconditionally, the VMX
  preemption timer is armed at each entry of the scheduler, and handlers have no
  wait loops. Nothing is assumed of requests or faults.
* `GuestIo`: infinitely often the guest runs its own code with nothing to inject
  and no timer vector pending (a kernel that leaves its handlers), weak fairness
  of the interrupt-window exit (the processor takes it as soon as the guest can
  be interrupted) and of a timer tick while the guest runs (the host's
  preemption timer). Nothing is assumed of the disk or the network.
* `Listener`: the loop of the host ticks for ever with time passing, unless the
  host goes down. Nothing is assumed of clients; `SlotComesBack` is stated for
  behaviours in which stop requests cease.
* `ProductGuest`: weak fairness of `Launch`, `Relaunch` and `TakeStop`. The wait
  and the idle loop look at the choice and the relaunch flag in every round, and
  a guest that runs exits (the host timer is armed at every entry) with the Stop
  looked at first. Nothing is assumed of requests, of the guest's end, or of the
  host's operator; a guest in the hold is outside `StopLands`.

The other modules state safety only.


## 5 Proofs

Checked by `tlapm`, for every value of the constants that satisfies the named
assumptions. The assumptions say that sizes are natural numbers (non-zero where
the code's array is), that arguments come from the types the code gives them,
and, where a proof needs more, what is listed below. Every safety theorem rests
on an inductive invariant of its specification: initial states satisfy it, every
action keeps it, it implies the property.

| Module | Theorem | Property |
|---|---|---|
| `MemoryProofs` | `PoolTypeCorrect`, `CountCorrect`, `NoDoubleAllocation`, `NoFalseExhaustion`, `FreedFrameReused` | types, `CountIsCardinality`, `ReturnedRunIsFresh`, `NoneMeansNoRun`, `FreedFrameIsReused` |
| | `TypeCorrect`, `ExclusiveFrameOwnership`, `ExclusivePageOwnership`, `LenCorrect`, `CallsFailClosed`, `RegistryRefinesOwnership` | types, `FrameExclusive`, `PageExclusive`, `LenIsUsed`, `FailClosed`, `ImplementsOwnership` |
| | `WindowIsOwnedExactly`, `WellFormedIsAccepted` | `WindowOwnedExactly`, `WellFormedAccepted` |
| `AuditLogProofs` | `TypeCorrect`, `TornImagesAreRefused`, `AcknowledgedIsOnDisk`, `HistoryIsContinued` | types, `TornImageRefused`, `AckedIsDurable`, `HistoryContinues` |
| `GuestSchedProofs` | `SchedTypeCorrect`, `GuestsAreContinued`, `SchedulingStopsOnlyOnFault`, `ParkedStaysParked` | types, `GuestContinues`, `StopsOnlyOnFault`, `ParkedDoesNotRun` |
| `GuestTablesProofs` | `TableIsSound`, `GuestsAreConserved`, `FailoverAlwaysCompletes` | `TableSound`, `GuestsConserved`, `FailoverCompletes` |
| `ListenerProofs` | `SessionsAreNotInherited`, `RequestsAreHandledOnce` | `NoInheritedSession`, `HandledOnceUnlessSplit` |
| `FwServicesProofs` | `FreeRunsCanBeTaken`, `GrantsCanBeFreed`, `OnlyTheseChange`, `PagesHaveOneHolder`, `ExitGoesBack`, `PublishedCanBeTakenBack`, `ServInvariant` | `HonestWhileSpansLast`, `GivenBackWhole`, `OnlyAskedPages`, `OneHolder`, `ExitReturnsToCaller`, `InstalledCanBeUninstalled`, the invariant itself |
| `ProductGuestProofs` | `DisksAndFileStayApart`, `CompleteUploadIsWhole`, `AcknowledgedListIsKept`, `RunningDiskStaysPut` | `KnownApart`, `CompleteIsWhole`, `ListIsKept`, `DiskStaysPut` |
| `DeviceProofs` | `UsbCleanOrHalted`, `UsbReadIsTrue`, `UsbAckedUnlessSenseLost` | `CleanOrHalted`, `ReadIsTrue`, `AckedUnlessSenseLost` |
| | `IoInServiceIsHandled`, `IoNoLostInterrupt` | `InServiceIsHandled`, `NoLostInterrupt` |

**Frame allocator** (`PoolAssumption`).
`PoolIInv == PoolTypeOK /\ CountIsCardinality /\ HintAtFreedFrame`. The count needs
that a run is taken only where it was free, and that a free clears a bit that was
set: a double free is refused before the decrement. `NoDoubleAllocation` and
`NoFalseExhaustion` come from what the two scans compute, the wrap from the hint
and the alignment by frame number included. `FreedFrameReused` needs the third
conjunct: after a free the hint points at the freed, clear frame.

**EPT registry** (`RegistryAssumption`). `IInv == Good(reg) /\ res \in Results`,
where `Good` is: typed, exclusive frames, exclusive pages, `len` equal to the
number of used slots.

* `ExclusiveFrameOwnership` and `ExclusivePageOwnership` are ADR-004's headline
  for the executable registry: any number of slots, guests, pages and frames.
* `CallsFailClosed`: an error leaves the registry as it was. The interesting
  case is `transfer_page`. Lemma `TransferDoes` shows that once the source slot
  is removed there is an empty slot and nothing conflicts, so the second map
  cannot fail and the re-install path is dead code.
* `RegistryRefinesOwnership`: every call is a `Claim`, a `Release`, a `HandOver`
  or a stutter of `FrameOwnership`; a transfer is one `HandOver`, so no observer
  sees the frame without an owner or with two.

**Precise window** (`WindowAssumption`: guest RAM and window are whole pages).
`ClaimIInv` says that the ranges claimed so far partition the addresses below
the cursor, and that every hole given to the call has its range or is still to
come. Without the second half the latch could be set over a window whose bytes
all have an owner, but not the one intended. `AcceptIInv` adds, for a
well-formed list, that the holes to come lie ahead of the cursor in order and
that every range starts at an address of its own: so no hole is misplaced, no
claim overlaps, and the number of ranges is bounded by `Spans`.

**Audit chain** (`AuditAssumption`). Four conjuncts beside the types:
`HeaderWasWritten` (the header on disk belongs to a chain in `written`),
`FlushKnows` (which sectors hold the staged image at each point of a flush),
`RingIsStaged` and `PromiseIsOnDisk`. `TornImagesAreRefused` does not use the
checksum at all: the tip in the header fixes every record, because the chain
hash is injective. `MaxBoots` and `MaxFaults` are arbitrary.

**Guest scheduler** (`ConstantsAssumption`). `SchedIInv` has an unconditional
part, `Sane` (types, and that a slot that is parked is not entered), and, as long
as the run is `Clean`, `Healthy`: the host is on the ladder (`Ladder`) or in
coexist (`Coexist`), the running guest is `Live` (its VMCS is current, its
registers are loaded, its fields its own) and every other guest that can be
picked is `Fit` (its registers are saved, and its VMCS is launched, or clear with
a usable shadow). `Fit` is what makes it inductive: that an entry is right is
decided at the exit of that guest, any number of switches earlier. Lemmas follow
the code: one per helper (`LeaveSlot`, `Vmptrld`, `RestoreShadow`, the fail-soft
functions), then one per exit handler. The real four slots are kept; requests and
fault sets are arbitrary.

**Guest tables** (`VmTableAssumption`, `HaAssumption`, `RestAssumption`). Lemmas
show that each of `create`, `start`, `stop`, `destroy` keeps a table sound and
say what it returns. `HaIInv` adds, in the middle of a failover, `Moving`: the
guests to move are on the source as in the snapshot, the moved ones, and only
they, on the destination. `FailoverAlwaysCompletes` needs a counting argument
(`RoomAtDestination`): a guest that is left to move means that the destination
has a slot to reuse.

**Management listener** (`ListenerAssumption`: every reply fits an empty
transmit buffer, the order of the limits). `ListenerIInv` types the slot, its
record of requests included, and says when a session is untouched: while the
socket listens or is half-open, and until a connection was announced. The latter
is why the three resets in the code are enough.

**RayNu-F pool and services** (`SizesAreNat`, `ServicesAssumption`: sizes are
natural numbers, there is a memory type, and the refused types are others). The
first half is about the pool alone. `Granted` is what `allocate_pages` may
answer: a run inside a region, inside the tail, or from the end of the bitmap
into the tail, none of it in use. `Holds(pool, a, n)` is the strengthening that
makes `GivenBackWhole` inductive: the bitmap pages of the run are in use and its
tail pages are *exactly one span*. "All its pages are allocated" is not enough,
since a run over two spans cannot be freed in one call. `TakenGood` and
`FreeAtGood` say what `mark`, `tail_insert` and `free_pages_at` leave;
`BackKeeps` that a free which meets none of the pages of a run leaves it held
whole, although it may have cut the span next to it; `TakenBack` that pages given
back at once leave the pool as it was.

`FwIInv` is the pool's shape, `Holds` for every live allocation, `Sound` (every
holder holds its run whole, no two share a page), and `StackGood`: load numbers
only grow, an image on the stack that is also on record was started last, so that
the saved context lies below it, and the context is the caller's unless an image
has returned; the one other image that can be on the stack and on record is the
boot loader that the launcher entered, at the bottom, until a load replaces its
record. `StackGood` is why UnloadImage takes no pages from a running image in any
other case: with `image_started` clear, an image on record that was loaded is not
on the stack. `Sound` is claimed until that boot loader unloads itself or the
record of a failed load is used (section 6). At the start the staged loader holds
its image, and the pages of its file and path are nobody's. The numbers of
loads, nested images, spans, pages and protocol rows are arbitrary.

`PublishedCanBeTakenBack` has an invariant of its own, `PubInv`: every pair of an
install that stands is in its row, and of an adopted initrd the LoadFile2 row holds
the shim and `initrd_lf2_this` the caller's struct. The second half is what the
property needs and does not say: a plain install of the same struct may stand beside
an adopted one, and another adoption moves `initrd_lf2_this`. The hypothesis
`NoGuidTwice` (no list names a protocol twice) is necessary: `install` replaces the
row, so of two interfaces only the last can be named again. `InstallFirst` and
`UninstallFirst` say what the loops of `install_multiple` leave as a function of the
table, which is what makes them open to a proof.

**Product guest** (`LayoutAssumption`: the window, the audit image and the
reserve fit the volume; `ProductAssumption`: sizes are natural numbers, those of
disks and files not zero). `ProductIInv`: the disks of the probe lie one behind
the other between the window and the reserve (`TailsGood`); the library file lies
at its floor, behind all of them (`LibGood`); a new disk lies behind the probed
ones and before the file (`ChoiceGood`); which latches can be set in which loop
(`PhaseGood`); every chunk counted as received is on the volume (`Whole`).
`KnownApart` is not inductive alone: whether two extents are apart is decided by
placement functions that look at one end of the free space each, so the invariant
orders them. `PhaseGood` is what `DiskStaysPut` needs: a choice is replaced only
while it is pending or after a Stop has landed, and neither is so of a guest that
runs. `Whole` speaks of files no guest has written over: a guest started from a
stale autostart entry may (`overrun`, section 6), a guest of any other choice
cannot, since its disk ends below the file. `AcknowledgedListIsKept` is `ListIsKept`
under the hypothesis `[]RecordApart`: the sector of the list is neither inside a
disk that the running guest writes, installed or started, nor the first sector of
the stored file. Without it the statement is false for some layouts, as the
placement functions do not look at the records (section 6, small records); it holds
in every state of the run. The other files over the sector are seen by the property
itself: such a chunk leaves a sector that is no list.

**USB disk** (`DiskAssumption`, `CacheAssumption`: sectors and values are numbers, a
native block has at least one sector, there is at least one try and one cache line).
`LunInv` holds in each state of `LunSpec`, for any disk, block size, number of tries
and number of faults.

* `UsbCleanOrHalted` rests on `PipePart` and `CountPart`: while a command waits,
  either completions counted, events queued and TRBs left add up to what it needs on
  each endpoint (`Balanced`), or a halted endpoint has less than it needs
  (`Blocked`), so the command cannot end well and its leftovers stay behind a halt.
  The sum, and not the emptiness of the rings, is what every step keeps.
* `UsbReadIsTrue` needs `ShapePart`, the order of what may be left in the rings: a
  status that carries the command's tag means that its data TRB was the first of the
  IN ring when the data came, and not one of an earlier, given-up command.
  `TruthPart` then follows the data from the page through the driver into the cache
  and the pin.
* `UsbAckedUnlessSenseLost` needs `StorePart`: a block in which the disk may still
  store the bounce page (`Exposed`) is one nobody relies on (`Lost`), or the one being
  written, with the page holding the request's data (`Ours`), or the target of a call
  just given up, with a page that agrees with what is relied on (`Fresh`).

**Guest interrupts** (`ConstantsAssumption`: the orders, phases and modes are ones a
guest can have, and a ring has a place). `IoInv` says that every exit leaves the
queues drained, so that no function has work waiting while an interrupt is under way
(`Still`), that an exit leaves nothing to re-inject behind it, and which vector
goes with which step of Linux's handler. `InServiceIsHandled` is inductive with it:
a vector is taken from a chip only by the injection ladder, which runs when the entry
field is empty, and an exit in the middle of a delivery puts it back first.
`IoNoLostInterrupt` adds `HearPart`. The property alone is not inductive: the ISR
read of the network function lowers the shared line whatever the disks have latched
(`ReadIsrNet`). It is harmless because, while handlers run, a disk's latch is set
only if its handler is still to come; so the theorem needs `ProbedInOrder`, that
the network card is the last function on the line. The guest's bus has the disks at
devices 2 to 4 and the card at 5, and Linux chains handlers in probe order.

**Only model-checked.** Liveness under fairness and `ENABLED`: `EventuallyDurable`,
`LadderEnds`, `BothRun`, `RequestsComplete`, `PitIsServed`, `SlotComesBack`,
`StopLands`. Every safety invariant and action property of a passing run is a
theorem, three of them under a named hypothesis (`NoGuidTwice`, `RecordApart`,
`ProbedInOrder`). The three refuted properties are violated, and not theorems.

## 6 Where the code and its documents disagree

Three have a run of their own whose property TLC refutes.

1. **The first flush after a load overwrites the joined history**
   (`audit_stale_flush`, `SurvivesReboot`; `mgmt/megaraid.rs:2349`).
   `adopt_boot_image` joins the loaded history into the ring but does not stage
   it, and the image staged by `BootStarted` is still pending. The boot menu
   flushes before any further event: the disk then holds this boot's events
   only, and power loss before the next event loses the history.
   `docs/adr/ADR-021.md:229`: "Audit survives host reboot (persisted, chained
   across boots)".
2. **An accepted start can be overwritten** (`start_overwritten`,
   `AcceptedStartIsServed`; `mgmt/spa_launch.rs:52`). `mgmt/api.rs:374` says an
   accepted start is queued and launched at the next quantum; the queue has one
   place, and a second accepted start replaces the first. The first guest is
   recorded Running, is never launched, and its start cannot be repeated.
3. **A partial upload becomes the boot CD after a restart**
   (`partial_iso_adopted`, `PartialIsNoBootCd`; `adopt_stored_ubuntu` of
   `mgmt/iso_library.rs`). The file is recognised by its first sectors, which an
   interrupted upload has written, and is adopted as complete.
   `mgmt/iso_library.rs:251`: "The stored file is complete. A partial upload is
   not a boot CD."

The others came up while modelling and are part of the behaviour the modules
describe, unless a line says otherwise; the passing properties are stated so
that they say what holds nevertheless.

*Audit, scheduling, tables*

* **Audit overflow** (`audit/integrity.rs:544`). When the stored chain and this
  boot's events do not fit the ring together, the image is refused, the boot goes
  on with its own chain, and its next flush replaces the older one. Same sentence
  of ADR-021.
* **A slot that cannot be loaded starves the ladder** (`vmx/launch.rs:3545`).
  Its credit is never consumed, so `pick_next_fair` keeps choosing it; the other
  slots never run and the M4.2 gate is never latched. `LadderEnds` is checked
  with slots that can be loaded.
* **Fail-soft entry of another guest's VMCS** (`vmx/launch.rs:2983`; the comment
  at 2923 says "resume the live slot"). Coexist sets the current slot to 0 before
  the switch. If G0's VMPTRLD fails, the fail-soft path ignores the second
  failure and resumes the VMCS that is still current with G0's registers.
  `GuestContinues` is checked without these two faults together.
* **Stop lost against start** (`vmx/launch.rs:3088`, `mgmt/spa_launch.rs:72`). A
  start and a stop that are pending together are applied stop first, whatever the
  order of the requests: after start, stop the guest runs and its record says
  Stopped.
* **A skipped shell stays registered** (`vmx/launch.rs:3718`). The scheduler
  switches to a slot that was never set up, which ends in VMXOFF or in the failed
  boot gate. `StopsOnlyOnFault` counts the skip as the fault it starts from.
* **A sticky failure flag** (`vmx/launch.rs:2918`, comment at 1433). A failed
  load of slot 1 during the ladder sets `SPA_VMPTRLD_FAILED`, which parks every
  SPA guest started later.
* **Failover forgets the specification** (`mgmt/ha.rs:133`; the comment at 78 and
  `docs/runbooks/ha.md:22` speak of the guests themselves). The destination
  record is created with `VmSpec::defaults()`. `GuestsConserved` therefore speaks
  of ids and states.
* **A start queued before coexist is armed** (`mgmt/host_nic_listen.rs:495`).
  Arming resets the table, not the mailbox, so the start is served for a record
  that is gone.
* **A pool with one frame** (`memory/frame_allocator.rs:282`). The self-test
  returns early and leaves its first frame allocated; no platform has such a pool.

*RayNu-F*

* **Memory that is advertised but cannot be had** (`raynu_f/memory.rs:542`; the
  rule at 26–28 and `docs/adr/ADR-016.md:115`). Once all tail spans are in use,
  free tail memory is still reported as conventional and AllocateAddress fails
  there. `HonestWhileSpansLast` states the exception exactly.
* **InstallMultiple's rollback loses a replaced interface**
  (`raynu_f/services.rs`, about 962: "All-or-nothing"). The rollback uninstalls
  what was installed; it does not put back what an install overwrote.
  InstallProtocolInterface does not roll back at all when the new handle cannot be
  written.
* **The boot loader can unload itself** (`raynu_f/services.rs:2278`: "only a
  loaded-and-not-running image can go"). `raynu_f_stage_bootloader_from_volume`
  records the loader as HANDLE_IMAGE (`vmx/guest_uefi.rs:8795`), and the launcher
  enters it with `image_started` clear, which only StartImage sets. Until a
  LoadImage replaces the record, UnloadImage of the own handle succeeds and frees
  the pages the loader runs in. First exception of `OneHolder`; the guest is not
  followed after it. The pages of the loader's file are never freed.
* **A failed LoadImage leaves its record.** If the handle or the LoadedImage
  structure cannot be written, the pages are freed and `image_base` and the entry
  stay set: a later UnloadImage or StartImage touches pages that are others' by
  then. Second exception of `OneHolder`. The page of the file path leaks.
* **One started image, one saved caller** (`vmx/guest_uefi.rs`, about 13201). An
  image that returns with `ret` leaves `image_started` set, so that UnloadImage is
  refused and a later Exit unwinds to a stale frame; after a nested image's Exit
  the outer image's Exit is refused.
* A second adopted initrd makes the first one impossible to uninstall.
* **The map key** (`raynu_f/memory.rs:851`) changes with GetMemoryMap and not with
  allocations. Not modelled.

*Guest interrupts and I/O*

* **The ISR of the network function is forgotten** (`devices/guest_virtio_blk.rs`
  959, contrary to the comment at 1113). A read of a block function's ISR lowers
  the shared line by looking at the block latches only; with the network function
  registered first the line drops while its ISR is set.
* The pulse against stalls (1090) sets the ISR of the hidden spare function too,
  and nothing clears it.
* A frame that was taken off the NIC is lost when `post_rx` finds no buffer.

*USB disk*

* **A sense request that times out** (`mgmt/usb_bot.rs`, about 351; the comment
  says recovery "stops the EP so the retry has a clean OUT ring"). Its result is
  dropped and the pipes are not recovered, so its IN transfer stays queued on the
  bounce page. The retried write puts its data there, the late sense data
  overwrite it, and they are stored and acknowledged. This is the exception of
  `AckedUnlessSenseLost`.
* An error completion leaves the stage at CBW, so that no recovery runs although
  a comment says that it does after a failed DATA or CSW. It is safe because such
  an endpoint is halted: `CleanOrHalted`.
* **A failed write may reach into its neighbours** (`mgmt/usb_bot.rs:295`). When
  the last try of a write ends in an error of the IN endpoint, its data transfer
  stays on the OUT ring. The disk that waits for it takes the page later, with the
  data of the next command in it, and stores that in the native block of the failed
  write: on a 4Kn disk also in the sectors the guest did not write. The proof of
  `AckedUnlessSenseLost` met this; `want` forgets that block.
* `recover_pipes` performs no Bulk-Only reset: after a lost CSW driver and disk
  can stay one command apart, which the tag check turns into failed commands.

*Management listener*

* **A request handled twice when its reply is split**
  (`wrap_session_try_exchange`). The branch for a pending reply is never reached,
  since `drain_tls` runs first; contrary to "Queue `plain` once. A short enqueue
  stays sealed and is drained later." It takes a client that pipelines while its
  earlier replies are unacknowledged. `HandledOnceUnlessSplit` states the
  exception.
* **A latched stop without a client.** If the reply of a stop request was not
  queued and the client is gone, the power-off waits for a later exchange of any
  slot, and kept sessions are not reclaimed meanwhile ("A stuck TX queue must not
  leave the page up with the latch set."). `SlotComesBack` is stated for
  behaviours in which stops cease.
* Another slot's exchange can arm the power-off while the tail of the reply is
  still unsent ("200 is already queued").
* `http_reply_should_give_up` looks at flags from before the exchange: a final
  reply queued 15 s or more after the accept is reset instead of closed.
* A reset in SYN-RECEIVED returns the socket to LISTEN with the accept time kept:
  the next client inherits a used-up idle budget.

*Product guest*

* **A refused Start re-arms** (`mgmt/perc_boot_choice.rs`). The Stop and the
  choice are cleared before the disk is looked up. After an install in this boot
  and a Stop, Start is refused, since the disks at the volume's end were probed
  before the install; a later accepted Start then sets no relaunch flag. The guest
  is reported running, is never launched, and Stop does not land until the host is
  reset ("The next Start may boot again"). This is the exception `dropped` of
  `StopLands`.
* **Disks are probed once per boot.** A disk that was installed in this boot and
  is no longer armed is unknown to `occupied_guest_end`, and a large file can be
  placed over it; a probe read that fails counts as free space. `KnownApart`
  speaks of the disks the host knows.
* **Autostart entries** (`try_autostart`). An entry whose disk the probe of this
  boot did not find, since it could not be read or the volume was changed, is
  started all the same at the place the entry names, without a look at the disks,
  and at the boundary of the window (`place_in_free_tail`) not at the library
  either (`mgmt/perc_boot_choice.rs:315`, 359). The guest then writes its disk
  through `guest_io_span` like any other: over a disk, over the sectors of the
  records, or over a complete file that was not adopted. These are the exceptions
  `StaleEntry` of `KnownApart` and `overrun` of `CompleteIsWhole`, and the reason for
  the hypothesis `RecordApart` of `AcknowledgedListIsKept`.
* **Small records** (`library_floor`, `place_guest_after_occupied`). The room kept
  is the probe's and the NIC's sector: a library file whose size leaves less than
  17.5 KiB of its last 64 KiB lies over the certificate, operator, address and
  autostart sectors and over the audit image.
* **The hold.** After an ACPI power-off, the guest's death or its second reset,
  `guest_stopped` stays false: Start answers "running", and an accepted Stop is
  never taken.
* A power request between the guest's write of S5 and its service puts the phase
  back to open and loses the S5. A reset after an install boots the installer
  again.
* Changes of the boot list made while a guest runs are staged only, and lost at a
  host reset although they were answered with 200.
* An upload that starts with another size gives up the held file first, also when
  its own placement then fails, and also a running guest's CD; files of equal size
  count as the same file.
* `DISK_LEN` of the virtio function stays that of the first disk when another is
  started after a Stop. Not modelled.

## 7 Abstractions and what they hide

* **Audit.** The chain hash is injective: the hash of a record is the sequence of
  kinds up to it. Record payloads are not hashed by the code and not modelled. The
  checksum is a sum that different contents share often (two values in the run).
  A sector holds one record: a flush of the model has as many power-loss points
  as records, where the code has sixteen sectors with several records each.
* **Processor.** One processor in VMX root. Registers and VMCS fields are kept as
  whether they are those of the guest's last exit. VMX instructions act on the
  current, launched and loaded state; a region Linux may write over (`Scribble`)
  or that the CPU flushes late (`Flush`) is nondeterministic. Exits that
  `handle_sched_vmexit` (`vmx/launch.rs:3571`) does not expect of a guest, an MSR
  access or XSETBV of a shell or an unknown reason, end in `finish_boot(false)` and
  are left out, as is the RayNu-F kind of `try_spa_vmlaunch`; exits that resume the
  same guest at once are stutters.
* **Tables.** Specifications of guests are what `validate` and `kind_for_record`
  tell apart; names, sizes, texts and status codes are gone.
* **Memory.** Pages are two bytes in the EPT modules and page numbers elsewhere.
  Addresses that overflow 64 bits take the code's refusal path, as those beyond
  the window.
* **RayNu-F.** `MAX_DESCRIPTORS` is not reached; the slots of the tail spans are a
  set, since the code never tells their order apart. Buffers and images have one
  or two pages. Refused calls are stutters. A guest is one of three programs
  (memory, images, protocols), chosen at the start: their calls share only the
  page pool. `last`, which records the call for the action properties, is left
  out of the fingerprint (`VIEW`), as no action reads it.
* **Guest interrupts.** A timer is not due in every handler, and a tick does not
  come while a window was requested; the disk's quiet interval passes outside
  handlers; the driver publishes in process context and harvests received frames
  in its handler; the task priority is 0. `try_inject_guest_irq` injects nothing at
  an entry that carries an exception for Linux (`vmx/guest_uefi.rs:14933`): such
  entries are left out, so that injection is never put off for this reason. PIIX and ATA are hidden, as in the
  product guests, and the UART is left out.
* **USB.** Rings are sequences, queueing a command's transfers is one step,
  endpoint commands succeed, tags do not wrap, `LIVE_LOCK` is never contended.
  Refused commands, endpoint errors and early time-outs count towards the fault
  bound; a time-out with nothing under way is free. Bring-up, enumeration, the
  edited Linux view of the GPT and the splitting of large firmware writes are left
  out.
* **Listener.** A handshake is one message and one flight, buffers are units, a
  receive takes all there is. One slot is modelled in full, what the others do to
  shared state is chosen freely. The cap and the pause of `listener_health` are
  left out, which allows more rebuilds than the code. Replies fit their buffers, so
  that an exchange never ends with an empty or unsealable record
  (`mgmt/host_nic_listen.rs:228`, 250). smoltcp is external and has
  no time-out of its own.
* **Product guest.** Extents are units; what is inside the window is not modelled;
  refused requests and chunk writes that fail are stutters; the delay of an
  autostart is any time in the wait, so that a refused entry, which still changes
  the delay shown (`mgmt/guest_autostart.rs:256`), changes nothing; a guest's writes
  fill its disk in one step, the first sector kept apart; the SCI and PM1 enable bits are left out; of
  the single-sector records only the autostart list is modelled.
* Iterations of a loop are not interleaved with other calls because nothing
  preempts host code.

## 8 What is not modelled

Listed with reasons in `PROJECT.json`. In short: boot orchestration is a
straight line of calls; parsers and fixed-layout writers (ACPI, FAT, ISO 9660,
page-table builders) are byte-level code that unit tests reach; cryptography and
the TLS handshake are taken as given; the `*_gate.rs` and `*_test.rs` files and
the Verus and Kani harnesses are statements about the code. RayNu-F's events,
timers and file systems, the NIC and NVMe rings, the other single-sector records
of `megaraid.rs`, the blocking `listen_loop` of the boot path and the bring-up of
the USB controller hold state worth modelling and are left to section 9.

The map covers less than a tenth of the implementation's lines. The repository
is large, and much of it is device bring-up, encoding and board-specific
diagnosis with no state that outlives a call; the parts were chosen by what
carries ownership, durability, delivery and scheduling.

## 9 Plan

What is left, in this order; each step keeps to the shape above (operators on a
component's value, one action per handler, constants with named assumptions, no
recursive operator in a module that is proved about).

**Theorems.** A bound on the spans of the pool (the cardinality conjunct of
`FwPool`'s `TypeOK`). That the layouts of product hosts satisfy `RecordApart`, once
the sizes of volumes and disks that are offered are modelled.

**Models.** RayNu-F events, timers, task priority and the key of
ExitBootServices; the single-sector records beside the audit image; NIC and NVMe
rings; memory at boot (heap switch, `BootLayout`, the EPT slabs of two guests).

**Abstract specifications.** A guest directory (ids to states) that `VmTable`
implements and whose hand-over `HaPair` implements; a durable log that `AuditLog`
implements up to finding 1; a disk of sectors that `DurableLun` implements up to
the lost sense; a set of free pages that `FwPool` implements up to its span
limit.
