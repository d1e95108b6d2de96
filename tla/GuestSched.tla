----------------------------- MODULE GuestSched -----------------------------
(***************************************************************************)
(* The multi-guest scheduler of vmx/launch.rs: G0 (Linux, slot 0) and the  *)
(* SHELL guests G1-G3, from the moment G0 reached its shell.               *)
(*                                                                         *)
(*   g0 -> shell(1..3) -> sched (the M4.2 ladder) -> probe -> finish       *)
(*      -> sched with M4_LADDER_DONE (coexist: G0, and slot 1 once the SPA *)
(*         asked for it)                                                   *)
(*                                                                         *)
(* Everything runs on one CPU in VMX root, and no handler returns: a VM    *)
(* exit is handled up to the next VM entry, so one action is one exit and  *)
(* everything its handler does until a guest runs again or the host stops. *)
(* The host's statics and the VMX state of the CPU are one record h; the   *)
(* functions that never return are operators from such a record to the one *)
(* they leave.                                                             *)
(*                                                                         *)
(* Registers and VMCS fields are kept as what matters of them: whether they*)
(* are those the guest had when it last exited.                            *)
(***************************************************************************)
EXTENDS CreditScheduler, TLC

CONSTANTS
    FaultSets,  \* the sets of faults that may happen together: subsets of FaultKinds
    Requests    \* bound, per fault set: SPA start and stop requests served in one behaviour

\* "clone": the VMREAD/VMWRITE clone of G0's VMCS fails; "shell": a shell guest
\* cannot be entered or leaves unexpectedly; "scribble": Linux writes over a VMCS
\* region that its EPT maps; "flush": the CPU flushes an active VMCS that is not
\* current with a revision it will not load again; "entry": the VM entry of
\* slot 1 is refused; "nic": the native NIC does not arm.
FaultKinds == {"clone", "shell", "scribble", "flush", "entry", "nic"}

ASSUME ConstantsAssumption == FaultSets \subseteq SUBSET FaultKinds /\ Requests \in [FaultSets -> Nat]

M4_NVM_GUEST_SLOTS == 4

SHELL_SLOT_MAX == M4_NVM_GUEST_SLOTS - 1

Slots == 0 .. M4_NVM_GUEST_SLOTS - 1

Shells == 1 .. SHELL_SLOT_MAX

Probe == M4_NVM_GUEST_SLOTS     \* the VMCS of the last M4.3-M4.5 probe

NoVmcs == -1                    \* no current VMCS

\* A handler that never returns is the set of states it may leave the host in;
\* Then runs one after another.
Then(S, Handler(_)) == UNION {Handler(s) : s \in S}

VARIABLES
    h,          \* the host's statics and the CPU's VMX state
    start,      \* PENDING_START
    stop,       \* PENDING_STOP
    vm,         \* run state of the SPA's record in the VM table
    served,     \* requests served so far
    faults      \* the faults of this behaviour, chosen once

vars == <<h, start, stop, vm, served, faults>>

\* The choice a fault leaves open: both outcomes if it may happen.
May(fault) == IF fault \in faults THEN BOOLEAN ELSE {FALSE}

Phases == {"g0", "shell", "sched", "probe", "finish", "idle", "off", "failed"}

CreditStates == UNION {[1 .. n -> {0, DEFAULT_CREDIT}] : n \in 0 .. M4_NVM_GUEST_SLOTS}

HostState == [
    phase       : Phases,
    armed       : BOOLEAN,               \* COEXIST_ARMED
    cur         : Slots,                 \* SCHED_SLOT_CUR
    credits     : CreditStates,          \* SCHED
    ladder      : BOOLEAN,               \* M4_LADDER_DONE
    slice       : SUBSET Slots,          \* SCHED_SLICE
    schedOk     : BOOLEAN,               \* SCHED_OK_LATCHED
    twoVm       : BOOLEAN,               \* TWO_VM_LATCHED
    spaLaunched : BOOLEAN,
    spaRunnable : BOOLEAN,
    reloc       : BOOLEAN,               \* G0_VMCS_RELOCATED
    needsLaunch : SUBSET {0, 1},         \* {G0, SPA}_NEEDS_VMLAUNCH
    failed      : SUBSET {0, 1},         \* {G0, SPA}_VMPTRLD_FAILED
    ptr         : Slots \cup {Probe, NoVmcs},
    launched    : SUBSET (Slots \cup {Probe}),
    fields      : [Slots -> {"own", "old", "lost"}],
    shadow      : [{0, 1} -> {"own", "old", "none"}],
    bank        : SUBSET Slots,          \* GUEST_GPRS[s] are guest s's last registers
    loaded      : Slots,                 \* SAVED_GUEST_* were loaded for this slot
    exact       : BOOLEAN,               \* and are its last registers
    bad         : SUBSET Slots,          \* VMCS regions VMPTRLD refuses
    skipped     : SUBSET Shells,         \* shells skipped fail-soft (history)
    faulty      : BOOLEAN ]              \* a region went bad or slot 1 was refused

TypeOK ==
    /\ h \in HostState
    /\ start \in BOOLEAN /\ stop \in BOOLEAN
    /\ vm \in {"none", "running", "stopped"}
    /\ served \in 0 .. Requests[faults]
    /\ faults \in FaultSets

-----------------------------------------------------------------------------
\* VMX instructions and the VMCS shadow.

\* A VM exit: the registers in SAVED_GUEST_* and the fields of the current VMCS
\* are those the guest has now.
Exit(s) == [s EXCEPT !.loaded = IF s.ptr \in Slots THEN s.ptr ELSE @,
                     !.exact = s.ptr \in Slots,
                     !.fields = [i \in Slots |-> IF i = s.ptr THEN "own" ELSE @[i]]]

\* VMPTRLD: on failure the current VMCS stays what it was.
Vmptrld(s, slot) == IF slot \in s.bad THEN s ELSE [s EXCEPT !.ptr = slot]

\* VMCLEAR, then rewrite_vmcs_revision.  The data of a cleared VMCS is not relied
\* upon; clearing the current VMCS leaves none current.
VmclearRewrite(s, slot) ==
    [s EXCEPT !.launched = @ \ {slot}, !.fields[slot] = "lost", !.bad = @ \ {slot},
              !.ptr = IF @ = slot THEN NoVmcs ELSE @]

SaveGprs(s, slot) ==
    [s EXCEPT !.bank = IF s.loaded = slot /\ s.exact THEN @ \cup {slot} ELSE @ \ {slot}]

LoadGprs(s, slot) == [s EXCEPT !.loaded = slot, !.exact = slot \in s.bank]

CaptureShadow(s, slot) ==
    IF slot > 1 THEN s
    ELSE [s EXCEPT !.shadow[slot] = IF s.ptr = NoVmcs THEN "none"
                                    ELSE IF s.ptr = slot /\ s.fields[slot] = "own" THEN "own"
                                    ELSE "old"]

ShadowUsable(s, slot) == slot \in {0, 1} /\ s.shadow[slot] # "none"

\* VMWRITE of a slot's shadow into the current VMCS, whichever that is.
RestoreShadow(s, slot) ==
    IF ShadowUsable(s, slot) /\ s.ptr \in Slots
    THEN [s EXCEPT !.fields[s.ptr] = IF s.ptr = slot THEN s.shadow[slot] ELSE "old"]
    ELSE s

\* A guest runs: what was saved of it before is out of date from here on.
Entered(s) ==
    [s EXCEPT !.launched = @ \cup {s.ptr},
              !.bank = @ \ {s.ptr},
              !.shadow = [i \in {0, 1} |-> IF i = s.ptr /\ @[i] = "own" THEN "old" ELSE @[i]]]

-----------------------------------------------------------------------------
\* VM entry and the fail-soft paths.

\* coexist_failsoft_idle
FailsoftIdle(s) == {[s EXCEPT !.phase = IF s.ladder THEN "idle" ELSE "failed"]}

\* vmresume_with_gprs, vmresume_gprs_failed
Vmresume(s) == IF s.ptr \in s.launched THEN {Entered(s)} ELSE FailsoftIdle(s)

CanLaunch(s) == s.ptr \in Slots \ s.launched /\ s.fields[s.ptr] # "lost"

\* failsoft_resume_g0_after_spa_vmlaunch_fail
ResumeG0AfterSpaFail(s) ==
    LET Parked == VmclearRewrite([s EXCEPT !.spaRunnable = FALSE,
                                           !.needsLaunch = @ \ {1},
                                           !.failed = @ \cup {1}], 1)
        G0(p) == RestoreShadow(LoadGprs([p EXCEPT !.ptr = 0, !.cur = 0,
                                                  !.needsLaunch = @ \ {0}], 0), 0)
        Launch(g) == IF ShadowUsable(g, 0) /\ CanLaunch(g) THEN {Entered(g)}
                     ELSE FailsoftIdle(g)
        Resume(p) == IF 0 \in p.bad THEN FailsoftIdle([p EXCEPT !.failed = @ \cup {0}])
                     ELSE Then({G0(p)}, Launch)
    IN  Then({Parked}, Resume)

\* vmlaunch_with_gprs, vmlaunch_gprs_failed
Vmlaunch(s) ==
    LET Refused(r) == IF r.ladder /\ r.cur = 1 THEN ResumeG0AfterSpaFail(r)
                      ELSE FailsoftIdle(r)
    IN  IF ~CanLaunch(s) THEN Refused(s)
        ELSE {Entered(s)} \cup
             (IF s.ptr = 1 /\ "entry" \in faults
              THEN Then({[s EXCEPT !.faulty = TRUE]}, Refused) ELSE {})

\* failsoft_sched_or_finish
FailsoftSchedOrFinish(s) ==
    LET Live == LoadGprs(Vmptrld(s, s.cur), s.cur)
        Relaunch(r) == RestoreShadow([r EXCEPT !.needsLaunch = @ \ {r.cur}], r.cur)
    IN  IF s.ladder
        THEN IF s.cur \in s.needsLaunch THEN Then({Relaunch(Live)}, Vmlaunch)
             ELSE Then({Live}, Vmresume)
        ELSE IF s.cur # 0 /\ s.cur \notin s.bad THEN Then({Live}, Vmresume)
        ELSE {[s EXCEPT !.phase = IF s.twoVm THEN "finish" ELSE "failed"]}

\* A bug: the cleared VMCS is not marked for VMLAUNCH.
LeaveSlotUnmarked(s) ==
    IF ~(s.ladder /\ s.spaLaunched) THEN s
    ELSE VmclearRewrite(CaptureShadow(s, s.cur), s.cur)

\* switch_to_sched_slot, before VMPTRLD: once the SPA guest exists, the outgoing
\* VMCS is captured, cleared and marked for VMLAUNCH.
LeaveSlot(s) ==
    IF ~(s.ladder /\ s.spaLaunched) THEN s
    ELSE [VmclearRewrite(CaptureShadow(s, s.cur), s.cur) EXCEPT
            !.needsLaunch = @ \cup ({s.cur} \cap {0, 1})]

\* switch_to_sched_slot
SwitchToSchedSlot(s, slot) ==
    LET In(out) == LoadGprs([out EXCEPT !.ptr = slot, !.cur = slot,
                                        !.needsLaunch = @ \ {slot}], slot)
        Refused(out) == [out EXCEPT !.failed = @ \cup ({slot} \cap {0, 1}),
                                    !.spaRunnable = @ /\ slot # 1]
        Relaunch(in) == IF ShadowUsable(in, slot)
                        THEN Then({RestoreShadow(in, slot)}, Vmlaunch)
                        ELSE FailsoftSchedOrFinish(in)
        Load(out) == IF slot \in out.bad THEN Then({Refused(out)}, FailsoftSchedOrFinish)
                     ELSE IF slot \in out.needsLaunch THEN Then({In(out)}, Relaunch)
                     ELSE Then({In(out)}, Vmresume)
    IN  Then({IF s.cur # slot THEN LeaveSlot(s) ELSE s}, Load)

-----------------------------------------------------------------------------
\* The M4.2 ladder.

\* relocate_g0_vmcs_to_host_slab: read G0's fields, keep the snapshot as slot 0's
\* shadow and clone it to a region its EPT does not map, which is left clear.  It may
\* fail before the fields are read, or after, with G0's own VMCS current again.
RelocateG0Vmcs(s) ==
    LET Read   == CaptureShadow([s EXCEPT !.ptr = 0], 0)
        Cloned == [VmclearRewrite(Read, 0) EXCEPT
                    !.reloc = TRUE, !.needsLaunch = @ \cup {0}]
    IN  IF s.reloc \/ (s.ptr # 0 /\ 0 \in s.bad) THEN {s}
        ELSE {Cloned} \cup (IF "clone" \in faults THEN {s, Read} ELSE {})

\* prepare_vmcs_region and setup_vmcs: a clear VMCS with fresh fields, current.
SetupVmcs(s, slot) ==
    [s EXCEPT !.launched = @ \ {slot}, !.bad = @ \ {slot}, !.fields[slot] = "own",
              !.ptr = slot]

\* launch_shell_guest and skip_shell_failsoft: the first shell from this slot on
\* that can be entered; those before it are skipped; past the last, the probes.
LaunchShellGuest(s, slot) ==
    LET Past(first) == [s EXCEPT !.skipped = @ \cup (slot .. first - 1),
                                 !.launched = @ \ (slot .. first - 1)]
        Shell(first) == Entered([SetupVmcs(Past(first), first) EXCEPT
                                    !.phase = "shell", !.loaded = first, !.exact = TRUE])
        Reached == IF "shell" \in faults THEN slot .. SHELL_SLOT_MAX ELSE {slot} \cap Shells
        Skipped == IF "shell" \in faults \/ slot > SHELL_SLOT_MAX
                   THEN {[Past(SHELL_SLOT_MAX + 1) EXCEPT !.phase = "probe"]} ELSE {}
    IN  {Shell(first) : first \in Reached} \cup Skipped

\* enter_sched_mode_from_shell
EnterSchedModeFromShell(s, slot) ==
    LET Full == [i \in 1 .. SHELL_SLOT_MAX + 1 |-> DEFAULT_CREDIT]
        Armed == SaveGprs([s EXCEPT !.phase = "sched", !.cur = slot,
                                    !.credits = ConsumeQuantum(Full, slot)], slot)
        First(r) == LET next == PickNextFair(r.credits, slot) IN
                    SwitchToSchedSlot(r, IF next = 0 /\ 0 \in r.failed THEN slot ELSE next)
    IN  Then({Armed}, First)

-----------------------------------------------------------------------------
\* Preemption.

\* note_sched_slice
NoteSchedSlice(s) ==
    LET slice == s.slice \cup {s.cur} IN
    [s EXCEPT !.slice = slice,
              !.schedOk = @ \/ {0, 1} \subseteq slice,
              !.phase = IF slice = Slots /\ ~s.ladder THEN "probe" ELSE @]

\* launch_spa_private_ept: a new SHELL guest in slot 1.  A failure after
\* SPA_LAUNCHED was set takes it back and switches to G0.
LaunchSpaPrivateEpt(s) ==
    LET Ready(r) == [SetupVmcs(r, 1) EXCEPT
                        !.credits = IF Len(@) < 2 THEN RegisterVcpu(@, DEFAULT_CREDIT) ELSE @,
                        !.spaLaunched = TRUE, !.spaRunnable = TRUE, !.cur = 1,
                        !.loaded = 1, !.exact = TRUE, !.bank = @ \cup {1},
                        !.shadow[1] = "own"]
        Refused(q) == SwitchToSchedSlot([q EXCEPT !.spaLaunched = FALSE,
                                                  !.spaRunnable = FALSE, !.faulty = TRUE], 0)
        Launch(q) == {Entered(q)} \cup (IF "entry" \in faults THEN Refused(q) ELSE {})
    IN  Then({Ready(r) : r \in RelocateG0Vmcs(s)}, Launch)

\* A bug: a parked slot 1 is picked like any other.
NextSlotIgnoresPark(s, next) ==
    IF s.ladder /\ next >= 2 THEN 0 ELSE next

\* A bug: slot 1 is remapped to G0 even when it is runnable.
NextSlotParksSpa(s, next) == IF s.ladder /\ next >= 1 THEN 0 ELSE next

\* schedule_preempt, the remaps of the slot that was picked.
NextSlot(s, next) ==
    LET parked == ~s.spaRunnable \/ 1 \in s.failed
        a == IF s.ladder /\ (next >= 2 \/ (next = 1 /\ parked)) THEN 0 ELSE next
        b == IF a = 0 /\ 0 \in s.failed THEN (IF s.cur = 0 THEN 1 ELSE s.cur) ELSE a
    IN  IF s.ladder /\ b = 0 /\ s.spaLaunched /\ (~s.reloc \/ 0 \in s.failed) /\ ~parked
        THEN 1 ELSE b

\* schedule_preempt, after the requests were taken.
SliceAndSwitch(s) ==
    LET Charged(n) == [SaveGprs(n, n.cur) EXCEPT !.credits = ConsumeQuantum(@, n.cur)]
        Go(r) == LET next == NextSlot(r, PickNextFair(r.credits, r.cur)) IN
                 IF next = r.cur THEN Vmresume(r) ELSE SwitchToSchedSlot(r, next)
        Noted(n) == IF n.phase = "probe" THEN {n} ELSE Then({Charged(n)}, Go)
    IN  Then({NoteSchedSlice(s)}, Noted)

\* A bug: the registers of the guest that was preempted are not saved before the
\* SPA guest is launched over them.
TrySpaVmlaunchUnsaved(s, pending) ==
    IF ~(s.ladder /\ pending) THEN SliceAndSwitch(s)
    ELSE IF ~s.spaLaunched THEN LaunchSpaPrivateEpt(s)
    ELSE SliceAndSwitch([s EXCEPT !.spaRunnable = @ \/ 1 \notin s.failed])

\* try_spa_vmlaunch: a start is taken once the ladder is done; it launches slot 1,
\* or makes a parked one runnable again.
TrySpaVmlaunch(s, pending) ==
    IF ~(s.ladder /\ pending) THEN SliceAndSwitch(s)
    ELSE IF ~s.spaLaunched THEN Then({SaveGprs(s, s.cur)}, LaunchSpaPrivateEpt)
    ELSE SliceAndSwitch([s EXCEPT !.spaRunnable = @ \/ 1 \notin s.failed])

-----------------------------------------------------------------------------
\* A guest of slot 0 .. 3, or a probe, is running.
GuestRuns == h.phase \in {"g0", "shell", "sched"}

Init ==
    /\ \E armed \in BOOLEAN :
         h = [phase |-> "g0", armed |-> armed, cur |-> 0, credits |-> <<>>,
              ladder |-> FALSE, slice |-> {}, schedOk |-> FALSE, twoVm |-> FALSE,
              spaLaunched |-> FALSE, spaRunnable |-> FALSE, reloc |-> FALSE,
              needsLaunch |-> {}, failed |-> {}, ptr |-> 0, launched |-> {0},
              fields |-> [i \in Slots |-> IF i = 0 THEN "own" ELSE "lost"],
              shadow |-> [i \in {0, 1} |-> "none"], bank |-> {},
              loaded |-> 0, exact |-> TRUE, bad |-> {}, skipped |-> {},
              faulty |-> FALSE]
    /\ start = FALSE
    /\ stop = FALSE
    /\ vm = "none"
    /\ served = 0
    /\ faults \in FaultSets

\* POST /vms/{id}/start (of a record that is created first if need be) and /stop:
\* the record moves, a flag is set.
SpaStart ==
    /\ served < Requests[faults] /\ vm # "running"
    /\ vm' = "running" /\ start' = TRUE /\ served' = served + 1
    /\ UNCHANGED <<h, stop, faults>>

SpaStop ==
    /\ served < Requests[faults] /\ vm = "running"
    /\ vm' = "stopped" /\ stop' = TRUE /\ served' = served + 1
    /\ UNCHANGED <<h, start, faults>>

\* maybe_finish_m312: G0 reached its shell.
G0Shell ==
    /\ h.phase = "g0"
    /\ UNCHANGED <<start, stop, vm, served, faults>>
    /\ \E r \in RelocateG0Vmcs(SaveGprs(Exit(h), 0)) : h' \in LaunchShellGuest(r, 1)

\* handle_cpuid_and_resume, after_shell_cpuid: a shell guest reached its shell.
AfterShellCpuid ==
    /\ h.phase = "shell"
    /\ UNCHANGED <<start, stop, vm, served, faults>>
    /\ \E r \in {SaveGprs([Exit(h) EXCEPT !.twoVm = @ \/ h.ptr = 1], h.ptr)} :
         h' \in IF h.ptr < SHELL_SLOT_MAX THEN LaunchShellGuest(r, h.ptr + 1)
                ELSE EnterSchedModeFromShell(r, h.ptr)

\* handle_shell_vmexit: a shell halts or leaves unexpectedly before its shell.
ShellFails ==
    /\ h.phase = "shell" /\ "shell" \in faults
    /\ h' \in LaunchShellGuest([Exit(h) EXCEPT !.skipped = @ \cup {h.ptr}], h.ptr + 1)
    /\ UNCHANGED <<start, stop, vm, served, faults>>

\* schedule_preempt: the host timer, then the SPA's requests, then the next slot.
SchedulePreempt ==
    /\ h.phase = "sched"
    /\ stop' = FALSE
    /\ start' = (start /\ ~h.ladder)
    /\ UNCHANGED <<vm, served, faults>>
    /\ \E s \in {[Exit(h) EXCEPT !.spaRunnable = @ /\ ~stop]} : h' \in TrySpaVmlaunch(s, start)

\* The M4.3-M4.5 probes ran, or were skipped before their VMCS was current.
Probes ==
    /\ h.phase = "probe"
    /\ UNCHANGED <<start, stop, vm, served, faults>>
    /\ \E p \in {h.ptr, Probe} :
         h' = [h EXCEPT !.phase = "finish", !.ptr = p, !.exact = FALSE,
                        !.launched = @ \cup ({p} \cap {Probe})]

\* finish_boot(true) and enter_sched_coexist.  Arming the NIC for the first time
\* resets the VM table.
FinishBoot ==
    /\ h.phase = "finish"
    /\ UNCHANGED <<start, stop, served, faults>>
    /\ \E missing \in May("nic") :
         LET Coexist == [h EXCEPT !.armed = TRUE, !.ladder = TRUE, !.cur = 0,
                                  !.credits = RegisterVcpu(<<>>, DEFAULT_CREDIT),
                                  !.phase = "sched"]
         IN  h' \in IF missing /\ ~h.armed THEN {[h EXCEPT !.phase = "off"]}
                    ELSE IF ~h.schedOk
                    THEN {[h EXCEPT !.armed = TRUE, !.ladder = TRUE, !.phase = "off"]}
                    ELSE SwitchToSchedSlot(Coexist, 0)
    /\ vm' = IF h'.armed # h.armed THEN "none" ELSE vm

\* Linux writes over a VMCS region its EPT maps: its own before it was relocated,
\* a shell's until slot 1's slab is punched out.
Scribble ==
    /\ "scribble" \in faults /\ GuestRuns /\ h.ptr = 0
    /\ \E i \in (Slots \ h.bad) \ ((IF h.reloc THEN {0} ELSE {}) \cup
                                   (IF h.spaLaunched THEN {1} ELSE {})) :
         h' = [h EXCEPT !.bad = @ \cup {i}, !.faulty = TRUE]
    /\ UNCHANGED <<start, stop, vm, served, faults>>

\* An active VMCS that is not current is flushed with a revision VMPTRLD refuses.
Flush ==
    /\ "flush" \in faults /\ GuestRuns
    /\ \E i \in (h.launched \cap Slots) \ (h.bad \cup {h.ptr}) :
         h' = [h EXCEPT !.bad = @ \cup {i}, !.faulty = TRUE]
    /\ UNCHANGED <<start, stop, vm, served, faults>>

\* The host stopped scheduling: idle with HTTP, or after VMXOFF.
Stopped ==
    /\ h.phase \in {"idle", "off", "failed"}
    /\ UNCHANGED vars

Next ==
    \/ SpaStart \/ SpaStop \/ G0Shell \/ AfterShellCpuid \/ ShellFails
    \/ SchedulePreempt \/ Probes \/ FinishBoot \/ Scribble \/ Flush \/ Stopped

\* Guests run until they exit, the armed timer always fires, and a handler always
\* ends: the boot's own steps and the preemptions go on.
Fairness ==
    /\ WF_vars(G0Shell) /\ WF_vars(AfterShellCpuid) /\ WF_vars(SchedulePreempt)
    /\ WF_vars(Probes) /\ WF_vars(FinishBoot)

Spec == Init /\ [][Next]_vars /\ Fairness

-----------------------------------------------------------------------------
\* No VMCS region goes bad and no shell is skipped.
Sound == faults \subseteq {"clone", "entry", "nic"}

\* With sound regions, every VM entry continues the guest the scheduler means, where it left off: the
\* VMCS that is current is that of SCHED_SLOT_CUR, the registers loaded are the
\* ones that guest had when it last exited, and so are its fields - across the
\* VMCLEAR, shadow and VMLAUNCH round trip that every switch of G0 and the SPA
\* guest makes.
GuestContinues ==
    Sound /\ GuestRuns =>
        /\ h.loaded = h.ptr /\ h.exact
        /\ h.fields[h.ptr] = "own"
        /\ h.phase = "sched" => h.cur = h.ptr

\* The launch state VMLAUNCH and VMRESUME need is never got wrong: scheduling
\* stops, with or without VMX, only after a fault of the hardware or of a guest,
\* or because there is no NIC.
StopsOnlyOnFault ==
    h.phase \in {"idle", "failed", "off"} =>
        h.faulty \/ h.skipped # {} \/ (h.phase = "off" /\ ~h.armed)

\* A slot that failed to load, or that was stopped, does not run: slot 1 runs
\* under coexist only while it is runnable, unless G0 itself is lost and there
\* is nothing else to run.
ParkedDoesNotRun ==
    GuestRuns /\ h.ladder /\ h.ptr = 1 /\ ~h.spaRunnable => 0 \in h.failed

\* With sound regions the ladder comes to its end: coexist, or the host stops.
LadderEnds == <>(~Sound \/ h.ladder \/ h.phase \in {"idle", "off", "failed"})

\* A runnable SPA guest and G0 share the CPU for ever, if nothing fails.  (When
\* the clone of G0's VMCS failed the scheduler parks G0 on purpose.)
BothRun ==
    \A slot \in {0, 1} :
        (Sound /\ h.ladder /\ h.spaRunnable /\ h.reloc /\ ~h.faulty)
            ~> (h.ptr = slot \/ ~h.spaRunnable \/ h.faulty)

=============================================================================
