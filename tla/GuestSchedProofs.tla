-------------------------- MODULE GuestSchedProofs --------------------------
(***************************************************************************)
(* Proofs about the guest scheduler, for every set of faults that may      *)
(* happen together and every number of requests.                           *)
(***************************************************************************)
EXTENDS GuestSched, NaturalsInduction, WellFoundedInduction, SequenceTheorems, TLAPS

\* A non-empty set of naturals has a least element: a loop over an array that
\* stops at the first match stops whenever a match exists.
LEMMA LeastNatural ==
    ASSUME NEW S \in SUBSET Nat, S # {}
    PROVE  \E x \in S : \A y \in S : x <= y
<1>. DEFINE R == OpToRel(<, Nat)
<1>1. IsWellFoundedOn(R, Nat) BY NatLessThanWellFounded
<1>. HIDE DEF R
<1>2. \E x \in S : \A y \in S : ~ (<<y, x>> \in R) BY <1>1, WFMin
<1>3. \A x, y \in Nat : (y < x) => <<y, x>> \in R BY DEF R, OpToRel
<1>4. PICK x \in S : \A y \in S : ~ (<<y, x>> \in R) BY <1>2
<1>5. \A y \in S : ~ (y < x) BY <1>3, <1>4
<1>6. \A y \in S : x <= y BY <1>5
<1>. QED BY <1>6

-----------------------------------------------------------------------------
(* The VMX instructions *)

\* What no VMX instruction and no VM entry changes.
Frame(s, t) ==
    /\ t.phase = s.phase /\ t.armed = s.armed /\ t.credits = s.credits
    /\ t.ladder = s.ladder /\ t.slice = s.slice /\ t.schedOk = s.schedOk
    /\ t.twoVm = s.twoVm /\ t.spaLaunched = s.spaLaunched
    /\ t.reloc = s.reloc /\ t.skipped = s.skipped

\* What only a launch decision changes.
Marks(s, t) ==
    /\ t.cur = s.cur /\ t.spaRunnable = s.spaRunnable
    /\ t.needsLaunch = s.needsLaunch /\ t.failed = s.failed /\ t.faulty = s.faulty

\* The registers the host keeps.
Regs(s, t) == t.bank = s.bank /\ t.loaded = s.loaded /\ t.exact = s.exact

\* The VMCS regions and their state.
Vmcs(s, t) ==
    /\ t.ptr = s.ptr /\ t.launched = s.launched /\ t.fields = s.fields
    /\ t.bad = s.bad

\* A VM exit: the current guest's registers and fields are its own again.
LEMMA ExitDoes ==
    ASSUME NEW s \in HostState
    PROVE  LET t == Exit(s)
           IN  /\ t \in HostState /\ Frame(s, t) /\ Marks(s, t)
               /\ t.bank = s.bank /\ t.shadow = s.shadow
               /\ t.ptr = s.ptr /\ t.launched = s.launched /\ t.bad = s.bad
               /\ s.ptr \in Slots => t.loaded = s.ptr /\ t.exact /\ t.fields[s.ptr] = "own"
               /\ \A i \in Slots : i # s.ptr => t.fields[i] = s.fields[i]
<1>. DEFINE e == s.ptr \in Slots
            f == [i \in Slots |-> IF i = s.ptr THEN "own" ELSE s.fields[i]]
            l == IF s.ptr \in Slots THEN s.ptr ELSE s.loaded
            t == [s EXCEPT !.loaded = l, !.exact = e, !.fields = f]
<1>1. e \in BOOLEAN /\ (s.ptr \in Slots => e) OBVIOUS
<1>2. /\ f \in [Slots -> {"own", "old", "lost"}]
      /\ s.ptr \in Slots => f[s.ptr] = "own"
      /\ \A i \in Slots : i # s.ptr => f[i] = s.fields[i]
  BY DEF HostState
<1>3. l \in Slots /\ (s.ptr \in Slots => l = s.ptr) BY DEF HostState
<1>4. Exit(s) = t BY DEF Exit
<1>. HIDE DEF e, f, l
<1>5. t \in HostState BY <1>1, <1>2, <1>3 DEF HostState
<1>6. /\ Frame(s, t) /\ Marks(s, t) /\ t.bank = s.bank /\ t.shadow = s.shadow
      /\ t.ptr = s.ptr /\ t.launched = s.launched /\ t.bad = s.bad
      /\ t.loaded = l /\ t.exact = e /\ t.fields = f
  BY DEF HostState, Frame, Marks
<1>. HIDE DEF t
<1>. QED BY <1>1, <1>2, <1>3, <1>4, <1>5, <1>6

\* VMPTRLD moves the current VMCS, unless the region is bad.
LEMMA VmptrldDoes ==
    ASSUME NEW s \in HostState, NEW slot \in Slots
    PROVE  LET t == Vmptrld(s, slot)
           IN  /\ t \in HostState /\ Frame(s, t) /\ Marks(s, t) /\ Regs(s, t)
               /\ t.shadow = s.shadow /\ t.launched = s.launched
               /\ t.fields = s.fields /\ t.bad = s.bad
               /\ t.ptr = IF slot \in s.bad THEN s.ptr ELSE slot
BY DEF Vmptrld, HostState, Frame, Marks, Regs

\* VMCLEAR and the revision rewrite touch one region only.
LEMMA ClearDoes ==
    ASSUME NEW s \in HostState, NEW slot \in Slots
    PROVE  LET t == VmclearRewrite(s, slot)
           IN  /\ t \in HostState /\ Frame(s, t) /\ Marks(s, t) /\ Regs(s, t)
               /\ t.shadow = s.shadow /\ t.launched = s.launched \ {slot}
               /\ t.bad = s.bad \ {slot}
               /\ \A i \in Slots : i # slot => t.fields[i] = s.fields[i]
               /\ t.ptr = IF s.ptr = slot THEN NoVmcs ELSE s.ptr
BY DEF VmclearRewrite, HostState, Frame, Marks, Regs

\* Saving the registers of a slot banks what was loaded for it.
LEMMA SaveDoes ==
    ASSUME NEW s \in HostState, NEW slot \in Slots
    PROVE  LET t == SaveGprs(s, slot)
           IN  /\ t \in HostState /\ Frame(s, t) /\ Marks(s, t) /\ Vmcs(s, t)
               /\ t.shadow = s.shadow /\ t.loaded = s.loaded /\ t.exact = s.exact
               /\ s.loaded = slot /\ s.exact => slot \in t.bank
               /\ t.bank \cup {slot} = s.bank \cup {slot}
BY DEF SaveGprs, HostState, Frame, Marks, Vmcs

\* Loading the registers of a slot whose bank is current gets its last ones.
LEMMA LoadDoes ==
    ASSUME NEW s \in HostState, NEW slot \in Slots
    PROVE  LET t == LoadGprs(s, slot)
           IN  /\ t \in HostState /\ Frame(s, t) /\ Marks(s, t) /\ Vmcs(s, t)
               /\ t.shadow = s.shadow /\ t.bank = s.bank
               /\ t.loaded = slot /\ (slot \in s.bank => t.exact)
<1>. DEFINE e == slot \in s.bank
            t == [s EXCEPT !.loaded = slot, !.exact = e]
<1>1. e \in BOOLEAN /\ (slot \in s.bank => e) OBVIOUS
<1>2. LoadGprs(s, slot) = t BY DEF LoadGprs
<1>. HIDE DEF e
<1>. QED BY <1>1, <1>2, ZenonT(60) DEF HostState, Frame, Marks, Vmcs

\* A shadow captured from its own, current VMCS is current.
LEMMA CaptureDoes ==
    ASSUME NEW s \in HostState, NEW slot \in Slots
    PROVE  LET t == CaptureShadow(s, slot)
           IN  /\ t \in HostState /\ Frame(s, t) /\ Marks(s, t) /\ Vmcs(s, t) /\ Regs(s, t)
               /\ \A i \in {0, 1} : i # slot => t.shadow[i] = s.shadow[i]
               /\ slot \in {0, 1} /\ s.ptr = slot /\ s.fields[slot] = "own"
                    => t.shadow[slot] = "own"
BY DEF CaptureShadow, HostState, Frame, Marks, Vmcs, Regs, Slots, M4_NVM_GUEST_SLOTS, NoVmcs

\* A current shadow restored into its own VMCS makes its fields current.
LEMMA RestoreDoes ==
    ASSUME NEW s \in HostState, NEW slot \in Slots
    PROVE  LET t == RestoreShadow(s, slot)
           IN  /\ t \in HostState /\ Frame(s, t) /\ Marks(s, t) /\ Regs(s, t)
               /\ t.shadow = s.shadow /\ t.ptr = s.ptr
               /\ t.launched = s.launched /\ t.bad = s.bad
               /\ \A i \in Slots : i # s.ptr => t.fields[i] = s.fields[i]
               /\ s.ptr = slot /\ slot \in {0, 1} /\ s.shadow[slot] = "own"
                    => t.fields[slot] = "own"
BY DEF RestoreShadow, ShadowUsable, HostState, Frame, Marks, Regs

\* A VM entry marks the VMCS launched and what was saved of the guest stale.
LEMMA EnteredDoes ==
    ASSUME NEW s \in HostState, s.ptr \in Slots \cup {Probe}
    PROVE  LET t == Entered(s)
           IN  /\ t \in HostState /\ Frame(s, t) /\ Marks(s, t)
               /\ t.ptr = s.ptr /\ t.fields = s.fields /\ t.bad = s.bad
               /\ t.loaded = s.loaded /\ t.exact = s.exact
               /\ t.launched = s.launched \cup {s.ptr} /\ t.bank = s.bank \ {s.ptr}
               /\ \A i \in {0, 1} : i # s.ptr => t.shadow[i] = s.shadow[i]
BY DEF Entered, HostState, Frame, Marks

-----------------------------------------------------------------------------
(* VM entry and the fail-soft paths, from any state *)

\* What every path to a VM entry keeps: history only grows, and the host either
\* goes on scheduling or stops.
Keeps(s, t) ==
    /\ t \in HostState
    /\ t.armed = s.armed /\ t.credits = s.credits /\ t.ladder = s.ladder
    /\ t.slice = s.slice /\ t.schedOk = s.schedOk /\ t.spaLaunched = s.spaLaunched
    /\ t.reloc = s.reloc /\ t.skipped = s.skipped
    /\ s.faulty => t.faulty
    /\ s.failed \subseteq t.failed
    /\ t.spaRunnable => s.spaRunnable
    /\ t.phase \in {s.phase, "idle", "failed", "finish"}
    /\ s.ladder => t.phase \in {s.phase, "idle"}

\* Handlers run one after another.
LEMMA KeepsIsTransitive ==
    ASSUME NEW s, NEW t, NEW u, Keeps(s, t), t.phase = s.phase, Keeps(t, u)
    PROVE  Keeps(s, u)
BY DEF Keeps

\* A VMX instruction is such a path.
LEMMA FrameKeeps ==
    ASSUME NEW s \in HostState, NEW t \in HostState, Frame(s, t), Marks(s, t)
    PROVE  Keeps(s, t) /\ t.phase = s.phase
BY DEF Keeps, Frame, Marks

\* coexist_failsoft_idle stops the host.
LEMMA FailsoftIdleDoes ==
    ASSUME NEW s \in HostState, NEW t \in FailsoftIdle(s), s.phase = "sched"
    PROVE  Keeps(s, t) /\ t.phase # "sched" /\ t.cur = s.cur /\ (s.ladder => t.phase = "idle")
BY DEF FailsoftIdle, Keeps, HostState, Phases

\* VMRESUME enters the current guest or stops the host.
LEMMA VmresumeDoes ==
    ASSUME NEW s \in HostState, NEW t \in Vmresume(s), s.phase = "sched"
    PROVE  /\ Keeps(s, t) /\ t.cur = s.cur
           /\ t.phase = "sched" => t.ptr = s.ptr /\ t.spaRunnable = s.spaRunnable
<1>1. CASE s.ptr \in s.launched
  <2>1. t = Entered(s) BY <1>1 DEF Vmresume
  <2>2. s.ptr \in Slots \cup {Probe} BY <1>1 DEF HostState
  <2>. QED BY <2>1, <2>2, EnteredDoes, FrameKeeps DEF Marks
<1>2. CASE s.ptr \notin s.launched BY <1>2, FailsoftIdleDoes DEF Vmresume
<1>. QED BY <1>1, <1>2

\* The fallback from a refused slot 1 enters G0 or stops the host.
LEMMA ResumeG0Does ==
    ASSUME NEW s \in HostState, NEW t \in ResumeG0AfterSpaFail(s), s.phase = "sched"
    PROVE  /\ Keeps(s, t) /\ t.cur \in {0, s.cur}
           /\ t.phase = "sched" => t.ptr = 0 /\ t.cur = 0
<1>. DEFINE a == [s EXCEPT !.spaRunnable = FALSE, !.needsLaunch = @ \ {1},
                           !.failed = @ \cup {1}]
            p == VmclearRewrite(a, 1)
            b == [p EXCEPT !.failed = @ \cup {0}]
            c == [p EXCEPT !.ptr = 0, !.cur = 0, !.needsLaunch = @ \ {0}]
            l == LoadGprs(c, 0)
            g == RestoreShadow(l, 0)
<1>0. 0 \in Slots /\ 1 \in Slots BY DEF Slots, M4_NVM_GUEST_SLOTS
<1>1. t \in IF 0 \in p.bad THEN FailsoftIdle(b)
            ELSE IF ShadowUsable(g, 0) /\ CanLaunch(g) THEN {Entered(g)} ELSE FailsoftIdle(g)
  BY DEF ResumeG0AfterSpaFail, Then
<1>2. a \in HostState /\ Keeps(s, a) /\ a.phase = s.phase /\ a.cur = s.cur
  BY <1>0 DEF HostState, Keeps
<1>. HIDE DEF a
<1>3. p \in HostState /\ Frame(a, p) /\ Marks(a, p) BY <1>0, <1>2, ClearDoes
<1>4. Keeps(s, p) /\ p.phase = s.phase /\ p.cur = s.cur
  <2>1. Keeps(a, p) BY <1>2, <1>3, FrameKeeps
  <2>. QED BY <1>2, <1>3, <2>1, KeepsIsTransitive DEF Frame, Marks
<1>. HIDE DEF p
<1>5. b \in HostState /\ Keeps(s, b) /\ b.phase = "sched" /\ b.cur = s.cur
  BY <1>3, <1>4 DEF HostState, Keeps
<1>. HIDE DEF b
<1>6. c \in HostState /\ Keeps(s, c) /\ c.phase = "sched" /\ c.cur = 0 /\ c.ptr = 0
  BY <1>0, <1>3, <1>4 DEF HostState, Keeps
<1>. HIDE DEF c
<1>7. l \in HostState /\ Frame(c, l) /\ Marks(c, l) /\ l.ptr = 0
  BY <1>0, <1>6, LoadDoes DEF Vmcs
<1>. HIDE DEF l
<1>8. g \in HostState /\ Frame(l, g) /\ Marks(l, g) /\ g.ptr = 0
  BY <1>0, <1>7, RestoreDoes
<1>. HIDE DEF g
<1>9. Keeps(s, g) /\ g.phase = "sched" /\ g.cur = 0
  <2>1. Keeps(c, l) /\ l.phase = c.phase BY <1>6, <1>7, FrameKeeps
  <2>2. Keeps(l, g) /\ g.phase = l.phase BY <1>7, <1>8, FrameKeeps
  <2>3. Keeps(s, l) BY <1>6, <2>1, KeepsIsTransitive
  <2>. QED BY <1>6, <1>7, <1>8, <2>1, <2>2, <2>3, KeepsIsTransitive DEF Marks
<1>10. CASE t \in FailsoftIdle(b)
  BY <1>5, <1>10, FailsoftIdleDoes, KeepsIsTransitive
<1>11. CASE t \in FailsoftIdle(g)
  BY <1>8, <1>9, <1>11, FailsoftIdleDoes, KeepsIsTransitive
<1>12. CASE t = Entered(g)
  <2>1. t \in HostState /\ Frame(g, t) /\ Marks(g, t) /\ t.ptr = 0
    BY <1>0, <1>8, <1>12, EnteredDoes
  <2>2. Keeps(g, t) BY <1>8, <2>1, FrameKeeps
  <2>. QED BY <1>9, <2>1, <2>2, KeepsIsTransitive DEF Marks
<1>. QED BY <1>1, <1>10, <1>11, <1>12

\* What a VM entry may leave: the slot that was asked for, or G0, or a stopped host.
AsAsked(s, t) ==
    /\ Keeps(s, t) /\ t.cur \in {0, s.cur}
    /\ t.phase = "sched" =>
          \/ t.ptr = 0 /\ t.cur = 0
          \/ t.ptr = s.ptr /\ t.cur = s.cur /\ t.spaRunnable = s.spaRunnable

\* VMLAUNCH enters the guest that was asked for, or falls back to G0, or stops.
LEMMA VmlaunchDoes ==
    ASSUME NEW s \in HostState, NEW t \in Vmlaunch(s), s.phase = "sched"
    PROVE  AsAsked(s, t)
<1>. DEFINE f == [s EXCEPT !.faulty = TRUE]
<1>1. \/ t \in ResumeG0AfterSpaFail(s) \/ t \in FailsoftIdle(s)
      \/ t \in ResumeG0AfterSpaFail(f) \/ t \in FailsoftIdle(f)
      \/ CanLaunch(s) /\ t = Entered(s)
  BY DEF Vmlaunch, Then
<1>2. f \in HostState /\ Keeps(s, f) /\ f.phase = "sched" /\ f.cur = s.cur
  BY DEF HostState, Keeps
<1>. HIDE DEF f
<1>3. CASE t \in ResumeG0AfterSpaFail(s) BY <1>3, ResumeG0Does DEF AsAsked
<1>4. CASE t \in FailsoftIdle(s) BY <1>4, FailsoftIdleDoes DEF AsAsked
<1>5. CASE t \in ResumeG0AfterSpaFail(f)
  BY <1>2, <1>5, ResumeG0Does, KeepsIsTransitive DEF AsAsked
<1>6. CASE t \in FailsoftIdle(f)
  BY <1>2, <1>6, FailsoftIdleDoes, KeepsIsTransitive DEF AsAsked
<1>7. CASE CanLaunch(s) /\ t = Entered(s)
  <2>1. s.ptr \in Slots BY <1>7 DEF CanLaunch
  <2>. QED BY <1>7, <2>1, EnteredDoes, FrameKeeps DEF AsAsked, Marks
<1>. QED BY <1>1, <1>3, <1>4, <1>5, <1>6, <1>7

\* failsoft_sched_or_finish resumes the slot of SCHED_SLOT_CUR, G0, or nobody.
LEMMA FailsoftSchedDoes ==
    ASSUME NEW s \in HostState, NEW t \in FailsoftSchedOrFinish(s), s.phase = "sched"
    PROVE  /\ Keeps(s, t) /\ t.cur \in {0, s.cur}
           /\ t.phase = "sched" =>
                 \/ t.ptr = 0 /\ t.cur = 0
                 \/ /\ t.cur = s.cur /\ t.spaRunnable = s.spaRunnable
                    /\ t.ptr = IF s.cur \in s.bad THEN s.ptr ELSE s.cur
<1>. DEFINE v == Vmptrld(s, s.cur)
            l == LoadGprs(v, s.cur)
            m == [l EXCEPT !.needsLaunch = @ \ {l.cur}]
            r == RestoreShadow(m, l.cur)
            e == [s EXCEPT !.phase = IF s.twoVm THEN "finish" ELSE "failed"]
<1>0. s.cur \in Slots BY DEF HostState
<1>1. \/ t \in Vmlaunch(r) \/ t \in Vmresume(l)
      \/ ~s.ladder /\ t = e
  BY DEF FailsoftSchedOrFinish, Then
<1>2. /\ v \in HostState /\ Frame(s, v) /\ Marks(s, v)
      /\ v.ptr = IF s.cur \in s.bad THEN s.ptr ELSE s.cur
  BY <1>0, VmptrldDoes
<1>. HIDE DEF v
<1>3. l \in HostState /\ Frame(v, l) /\ Marks(v, l) /\ l.ptr = v.ptr
  BY <1>0, <1>2, LoadDoes DEF Vmcs
<1>. HIDE DEF l
<1>4. /\ Keeps(s, l) /\ l.phase = "sched" /\ l.cur = s.cur
      /\ l.spaRunnable = s.spaRunnable
  <2>1. Keeps(s, v) /\ v.phase = s.phase BY <1>2, FrameKeeps
  <2>2. Keeps(v, l) /\ l.phase = v.phase BY <1>2, <1>3, FrameKeeps
  <2>. QED BY <1>2, <1>3, <2>1, <2>2, KeepsIsTransitive DEF Marks
<1>5. /\ m \in HostState /\ Keeps(s, m) /\ m.phase = "sched" /\ m.cur = s.cur
      /\ m.spaRunnable = s.spaRunnable /\ m.ptr = l.ptr
  BY <1>3, <1>4 DEF HostState, Keeps
<1>. HIDE DEF m
<1>6. /\ r \in HostState /\ Frame(m, r) /\ Marks(m, r) /\ r.ptr = m.ptr
  BY <1>0, <1>4, <1>5, RestoreDoes
<1>. HIDE DEF r
<1>7. /\ Keeps(s, r) /\ r.phase = "sched" /\ r.cur = s.cur
      /\ r.spaRunnable = s.spaRunnable
  BY <1>5, <1>6, FrameKeeps, KeepsIsTransitive DEF Marks
<1>8. CASE t \in Vmlaunch(r)
  BY <1>2, <1>3, <1>5, <1>6, <1>7, <1>8, VmlaunchDoes, KeepsIsTransitive DEF AsAsked
<1>9. CASE t \in Vmresume(l)
  BY <1>2, <1>3, <1>4, <1>9, VmresumeDoes, KeepsIsTransitive
<1>10. CASE ~s.ladder /\ t = e BY <1>10 DEF HostState, Keeps, Phases
<1>. QED BY <1>1, <1>8, <1>9, <1>10

\* Leaving a slot keeps what the scheduler knows of it.
LEMMA LeaveDoes ==
    ASSUME NEW s \in HostState, s.phase = "sched"
    PROVE  LET t == LeaveSlot(s)
           IN  /\ Keeps(s, t) /\ t.phase = "sched" /\ t.cur = s.cur
               /\ t.spaRunnable = s.spaRunnable /\ t.failed = s.failed
               /\ t.faulty = s.faulty /\ t.bad \subseteq s.bad
               /\ t.ptr = s.ptr \/ t.ptr = NoVmcs
<1>. DEFINE c == CaptureShadow(s, s.cur)
            v == VmclearRewrite(c, s.cur)
            t == [v EXCEPT !.needsLaunch = @ \cup ({s.cur} \cap {0, 1})]
<1>0. s.cur \in Slots BY DEF HostState
<1>1. LeaveSlot(s) = IF ~(s.ladder /\ s.spaLaunched) THEN s ELSE t BY DEF LeaveSlot
<1>2. /\ c \in HostState /\ Frame(s, c) /\ Marks(s, c) /\ c.ptr = s.ptr /\ c.bad = s.bad
  BY <1>0, CaptureDoes DEF Vmcs
<1>. HIDE DEF c
<1>3. /\ v \in HostState /\ Frame(c, v) /\ Marks(c, v)
      /\ v.bad \subseteq c.bad /\ (v.ptr = c.ptr \/ v.ptr = NoVmcs)
  BY <1>0, <1>2, ClearDoes
<1>. HIDE DEF v
<1>4. Keeps(s, v) /\ v.phase = "sched"
  BY <1>2, <1>3, FrameKeeps, KeepsIsTransitive
<1>5. /\ Keeps(s, t) /\ t.phase = "sched" /\ t.cur = v.cur /\ t.spaRunnable = v.spaRunnable
      /\ t.failed = v.failed /\ t.faulty = v.faulty /\ t.bad = v.bad /\ t.ptr = v.ptr
  BY <1>0, <1>3, <1>4 DEF HostState, Keeps
<1>. HIDE DEF t
<1>6. Keeps(s, s) BY DEF Keeps
<1>. QED BY <1>1, <1>2, <1>3, <1>5, <1>6 DEF Marks

\* The state a switch leaves its slot in, and enters the next one from.
Out(s, slot) == IF s.cur # slot THEN LeaveSlot(s) ELSE s
In(o, slot) ==
    LoadGprs([o EXCEPT !.ptr = slot, !.cur = slot, !.needsLaunch = @ \ {slot}], slot)
Refused(o, slot) ==
    [o EXCEPT !.failed = @ \cup ({slot} \cap {0, 1}), !.spaRunnable = @ /\ slot # 1]

\* The paths through switch_to_sched_slot.
LEMMA SwitchCases ==
    ASSUME NEW s, NEW slot, NEW t \in SwitchToSchedSlot(s, slot)
    PROVE  LET o == Out(s, slot)
           IN  t \in IF slot \in o.bad THEN FailsoftSchedOrFinish(Refused(o, slot))
                     ELSE IF slot \notin o.needsLaunch THEN Vmresume(In(o, slot))
                     ELSE IF ShadowUsable(In(o, slot), slot)
                     THEN Vmlaunch(RestoreShadow(In(o, slot), slot))
                     ELSE FailsoftSchedOrFinish(In(o, slot))
<1>. DEFINE o == Out(s, slot)
            Rel(w) == IF ShadowUsable(w, slot) THEN Then({RestoreShadow(w, slot)}, Vmlaunch)
                      ELSE FailsoftSchedOrFinish(w)
            Ld(w) == IF slot \in w.bad THEN Then({Refused(w, slot)}, FailsoftSchedOrFinish)
                     ELSE IF slot \in w.needsLaunch THEN Then({In(w, slot)}, Rel)
                     ELSE Then({In(w, slot)}, Vmresume)
<1>1. SwitchToSchedSlot(s, slot) = Then({o}, Ld) BY DEF SwitchToSchedSlot, Out, In, Refused
<1>. HIDE DEF o
<1>2. t \in Ld(o)
  <2>. HIDE DEF Ld
  <2>. QED BY <1>1 DEF Then
<1>3. CASE slot \in o.bad BY <1>2, <1>3 DEF Then, o
<1>4. CASE slot \notin o.bad /\ slot \notin o.needsLaunch BY <1>2, <1>4 DEF Then, o
<1>5. CASE slot \notin o.bad /\ slot \in o.needsLaunch
  <2>. DEFINE i == In(o, slot)
  <2>1. t \in Rel(i) BY <1>2, <1>5 DEF Then
  <2>. HIDE DEF i
  <2>2. t \in IF ShadowUsable(i, slot) THEN Vmlaunch(RestoreShadow(i, slot))
              ELSE FailsoftSchedOrFinish(i)
    BY <2>1 DEF Then
  <2>. QED BY <1>5, <2>2 DEF o, i
<1>. QED BY <1>3, <1>4, <1>5

\* switch_to_sched_slot from any state.  Slot 1 is left current only if it was asked
\* for, or if it was current before.
LEMMA SwitchDoes ==
    ASSUME NEW s \in HostState, s.phase = "sched", NEW slot \in Slots,
           NEW t \in SwitchToSchedSlot(s, slot)
    PROVE  /\ Keeps(s, t) /\ t.cur \in {0, slot, s.cur}
           /\ t.phase = "sched" /\ 0 \notin t.failed =>
                 \/ t.ptr = 0 /\ t.cur = 0
                 \/ t.ptr = slot /\ t.cur = slot /\ t.spaRunnable = s.spaRunnable
                 \/ slot # 0 /\ t.cur = s.cur /\ t.ptr \in {s.ptr, s.cur, NoVmcs}
                      /\ (t.spaRunnable = s.spaRunnable \/ slot = 1)
<1>. DEFINE o == Out(s, slot)
            n == [o EXCEPT !.ptr = slot, !.cur = slot, !.needsLaunch = @ \ {slot}]
            i == LoadGprs(n, slot)
            r == RestoreShadow(i, slot)
            x == Refused(o, slot)
<1>1. \/ t \in FailsoftSchedOrFinish(x) /\ slot \in o.bad
      \/ slot \notin o.bad /\ (t \in Vmlaunch(r) \/ t \in FailsoftSchedOrFinish(i) \/ t \in Vmresume(i))
  <2>1. i = In(o, slot) BY DEF In
  <2>. HIDE DEF i, x, o
  <2>. QED BY <2>1, SwitchCases DEF o, x
<1>2. /\ o \in HostState /\ Keeps(s, o) /\ o.phase = "sched" /\ o.cur = s.cur
      /\ o.spaRunnable = s.spaRunnable /\ (o.ptr = s.ptr \/ o.ptr = NoVmcs)
  BY LeaveDoes DEF Keeps, Out
<1>. HIDE DEF o
<1>3. /\ n \in HostState /\ Keeps(s, n) /\ n.phase = "sched" /\ n.cur = slot /\ n.ptr = slot
      /\ n.spaRunnable = s.spaRunnable /\ n.bad = o.bad
  BY <1>2 DEF HostState, Keeps
<1>. HIDE DEF n
<1>4. /\ i \in HostState /\ Frame(n, i) /\ Marks(n, i) /\ i.ptr = slot /\ i.bad = o.bad
  BY <1>3, LoadDoes DEF Vmcs
<1>. HIDE DEF i
<1>5. Keeps(s, i) /\ i.phase = "sched" /\ i.cur = slot /\ i.spaRunnable = s.spaRunnable
  BY <1>3, <1>4, FrameKeeps, KeepsIsTransitive DEF Marks
<1>6. r \in HostState /\ Frame(i, r) /\ Marks(i, r) /\ r.ptr = slot
  BY <1>4, RestoreDoes
<1>. HIDE DEF r
<1>7. Keeps(s, r) /\ r.phase = "sched" /\ r.cur = slot /\ r.spaRunnable = s.spaRunnable
  BY <1>4, <1>5, <1>6, FrameKeeps, KeepsIsTransitive DEF Marks
<1>8. /\ x \in HostState /\ Keeps(s, x) /\ x.phase = "sched" /\ x.cur = s.cur /\ x.ptr = o.ptr
      /\ (x.spaRunnable = s.spaRunnable \/ slot = 1)
      /\ slot = 0 => 0 \in x.failed
  <2>. DEFINE run == o.spaRunnable /\ slot # 1
              bad == o.failed \cup ({slot} \cap {0, 1})
  <2>1. /\ run \in BOOLEAN /\ (run => o.spaRunnable) /\ (run = s.spaRunnable \/ slot = 1)
        /\ bad \in SUBSET {0, 1} /\ o.failed \subseteq bad /\ (slot = 0 => 0 \in bad)
    BY <1>2 DEF HostState
  <2>2. x = [o EXCEPT !.failed = bad, !.spaRunnable = run] BY DEF Refused
  <2>. HIDE DEF run, bad, x
  <2>3. /\ x \in HostState /\ x.failed = bad /\ x.spaRunnable = run
    BY <1>2, <2>1, <2>2 DEF HostState
  <2>4. /\ x.phase = o.phase /\ x.cur = o.cur /\ x.ptr = o.ptr
        /\ x.armed = o.armed /\ x.credits = o.credits /\ x.ladder = o.ladder
        /\ x.slice = o.slice /\ x.schedOk = o.schedOk /\ x.spaLaunched = o.spaLaunched
        /\ x.reloc = o.reloc /\ x.skipped = o.skipped /\ x.faulty = o.faulty
    BY <1>2, <2>2 DEF HostState
  <2>. QED BY <1>2, <2>1, <2>3, <2>4 DEF Keeps
<1>. HIDE DEF x
<1>9. CASE t \in FailsoftSchedOrFinish(x)
  <2>1. /\ Keeps(x, t) /\ t.cur \in {0, x.cur}
        /\ t.phase = "sched" =>
              \/ t.ptr = 0 /\ t.cur = 0
              \/ t.cur = x.cur /\ t.spaRunnable = x.spaRunnable /\ t.ptr \in {x.ptr, x.cur}
    BY <1>8, <1>9, FailsoftSchedDoes
  <2>2. Keeps(s, t) BY <1>8, <2>1, KeepsIsTransitive
  <2>3. slot = 0 => 0 \in t.failed BY <1>8, <2>1 DEF Keeps
  <2>. QED BY <1>2, <1>8, <2>1, <2>2, <2>3
<1>10. CASE t \in Vmlaunch(r)
  BY <1>6, <1>7, <1>10, VmlaunchDoes, KeepsIsTransitive DEF AsAsked
<1>11. CASE t \in FailsoftSchedOrFinish(i) /\ slot \notin o.bad
  BY <1>4, <1>5, <1>11, FailsoftSchedDoes, KeepsIsTransitive
<1>12. CASE t \in Vmresume(i)
  BY <1>4, <1>5, <1>12, VmresumeDoes, KeepsIsTransitive
<1>. QED BY <1>1, <1>9, <1>10, <1>11, <1>12

-----------------------------------------------------------------------------
(* The credit scheduler *)

Credits == {0, DEFAULT_CREDIT}

\* A state of the credit array, as a sequence.
LEMMA CreditSeq ==
    ASSUME NEW c
    PROVE  c \in CreditStates <=> c \in Seq(Credits) /\ Len(c) \in 0 .. M4_NVM_GUEST_SLOTS
<1>1. ASSUME c \in CreditStates
      PROVE  c \in Seq(Credits) /\ Len(c) \in 0 .. M4_NVM_GUEST_SLOTS
  <2>1. PICK n \in 0 .. M4_NVM_GUEST_SLOTS : c \in [1 .. n -> Credits]
    BY <1>1 DEF CreditStates, Credits
  <2>2. n \in Nat BY DEF M4_NVM_GUEST_SLOTS
  <2>. QED BY <2>1, <2>2
<1>2. ASSUME c \in Seq(Credits), Len(c) \in 0 .. M4_NVM_GUEST_SLOTS
      PROVE  c \in CreditStates
  BY <1>2 DEF CreditStates, Credits
<1>. QED BY <1>1, <1>2

\* The least of a non-empty set of ids.
LEMMA MinIsIn ==
    ASSUME NEW S \in SUBSET Nat, S # {}
    PROVE  Min(S) \in S /\ \A x \in S : Min(S) <= x
BY LeastNatural DEF Min

\* consume_quantum leaves somebody with credit.
LEMMA ConsumeDoes ==
    ASSUME NEW c \in CreditStates, c # <<>>, NEW id \in Slots
    PROVE  LET d == ConsumeQuantum(c, id)
           IN  d \in CreditStates /\ d # <<>> /\ Len(d) = Len(c) /\ Runnable(d) # {}
<1>. DEFINE spent == IF id \in Vcpus(c) THEN [c EXCEPT ![id + 1] = 0] ELSE c
            full == [i \in DOMAIN spent |-> DEFAULT_CREDIT]
            d == IF \A i \in DOMAIN spent : spent[i] <= 0 THEN full ELSE spent
<1>0. c \in Seq(Credits) /\ Len(c) \in 1 .. M4_NVM_GUEST_SLOTS
  BY CreditSeq, EmptySeq DEF M4_NVM_GUEST_SLOTS
<1>1. spent \in Seq(Credits) /\ Len(spent) = Len(c) /\ DOMAIN spent = 1 .. Len(c)
  BY <1>0 DEF Credits, Vcpus
<1>. HIDE DEF spent
<1>2. full \in Seq(Credits) /\ Len(full) = Len(c) /\ \A i \in 1 .. Len(c) : full[i] = DEFAULT_CREDIT
  BY <1>0, <1>1 DEF Credits
<1>. HIDE DEF full
<1>3. d \in Seq(Credits) /\ Len(d) = Len(c) BY <1>1, <1>2
<1>4. \E i \in 1 .. Len(c) : d[i] > 0
  <2>1. CASE \A i \in DOMAIN spent : spent[i] <= 0
    <3>1. d = full BY <2>1
    <3>2. 1 \in 1 .. Len(c) BY <1>0 DEF M4_NVM_GUEST_SLOTS
    <3>. QED BY <1>2, <3>1, <3>2 DEF DEFAULT_CREDIT
  <2>2. CASE ~ \A i \in DOMAIN spent : spent[i] <= 0
    <3>1. d = spent BY <2>2
    <3>2. PICK i \in 1 .. Len(c) : ~(spent[i] <= 0) BY <1>1, <2>2
    <3>3. spent[i] \in Credits BY <1>1, <3>2
    <3>. QED BY <3>1, <3>2, <3>3 DEF Credits, DEFAULT_CREDIT
  <2>. QED BY <2>1, <2>2
<1>5. d = ConsumeQuantum(c, id) BY DEF ConsumeQuantum, spent, full
<1>. HIDE DEF d
<1>6. Runnable(d) # {}
  <2>1. PICK i \in 1 .. Len(c) : d[i] > 0 BY <1>4
  <2>2. i - 1 \in Vcpus(d) /\ (i - 1) + 1 = i BY <1>0, <1>3, <2>1 DEF Vcpus
  <2>. QED BY <2>1, <2>2 DEF Runnable, Credit
<1>7. d \in CreditStates BY <1>0, <1>3, CreditSeq DEF M4_NVM_GUEST_SLOTS
<1>8. d # <<>> BY <1>0, <1>3, EmptySeq
<1>. QED BY <1>3, <1>5, <1>6, <1>7, <1>8

\* pick_next_fair picks a vCPU when one has credit, and the lowest that has when
\* that is not the one to avoid.
LEMMA PickDoes ==
    ASSUME NEW c \in CreditStates, Runnable(c) # {}, NEW avoid \in Slots
    PROVE  /\ PickNextFair(c, avoid) \in Slots
           /\ PickNextFair(c, avoid) \in Vcpus(c)
           /\ avoid # 0 /\ 0 \in Runnable(c) => PickNextFair(c, avoid) = 0
<1>. DEFINE top == Richest(c)
<1>0. c \in Seq(Credits) /\ Len(c) \in 0 .. M4_NVM_GUEST_SLOTS BY CreditSeq
<1>1. top = Runnable(c)
  <2>1. \A i \in Runnable(c) : Credit(c, i) = DEFAULT_CREDIT
    <3>1. SUFFICES ASSUME NEW i \in Runnable(c) PROVE Credit(c, i) = DEFAULT_CREDIT OBVIOUS
    <3>2. i \in 0 .. Len(c) - 1 /\ c[i + 1] > 0 BY DEF Runnable, Vcpus, Credit
    <3>3. i + 1 \in 1 .. Len(c) BY <1>0, <3>2 DEF M4_NVM_GUEST_SLOTS
    <3>4. c[i + 1] \in Credits BY <1>0, <3>3
    <3>. QED BY <3>2, <3>4 DEF Credits, Credit
  <2>. QED BY <2>1 DEF Richest, DEFAULT_CREDIT
<1>2. top \in SUBSET Vcpus(c) /\ Vcpus(c) \subseteq Slots /\ Vcpus(c) \subseteq Nat /\ top # {}
  <2>1. top \in SUBSET Vcpus(c) /\ top # {} BY <1>1 DEF Runnable
  <2>. DEFINE n == Len(c)
  <2>2. n \in 0 .. 4 BY <1>0 DEF M4_NVM_GUEST_SLOTS
  <2>3. Vcpus(c) = 0 .. n - 1 BY DEF Vcpus
  <2>. HIDE DEF n
  <2>. QED BY <2>1, <2>2, <2>3 DEF Slots, M4_NVM_GUEST_SLOTS
<1>. HIDE DEF top
<1>3. Min(top) \in top /\ \A x \in top : Min(top) <= x BY <1>2, MinIsIn
<1>4. CASE Min(top) = avoid /\ top # {avoid}
  <2>1. PickNextFair(c, avoid) = Min(top \ {avoid}) BY <1>2, <1>4 DEF PickNextFair, top
  <2>2. top \ {avoid} # {} /\ top \ {avoid} \in SUBSET Nat BY <1>2, <1>3, <1>4
  <2>. DEFINE rest == top \ {avoid}
  <2>. HIDE DEF rest
  <2>3. Min(rest) \in rest BY <2>2, MinIsIn DEF rest
  <2>4. 0 \in top => avoid = 0
    <3>1. SUFFICES ASSUME 0 \in top PROVE avoid = 0 OBVIOUS
    <3>2. avoid <= 0 /\ avoid \in Nat BY <1>2, <1>3, <1>4, <3>1
    <3>. QED BY <3>2
  <2>. QED BY <1>1, <1>2, <2>1, <2>3, <2>4 DEF rest
<1>5. CASE ~(Min(top) = avoid /\ top # {avoid})
  <2>1. PickNextFair(c, avoid) = Min(top) BY <1>2, <1>5 DEF PickNextFair, top
  <2>2. 0 \in top => Min(top) = 0
    <3>1. SUFFICES ASSUME 0 \in top PROVE Min(top) = 0 OBVIOUS
    <3>2. Min(top) <= 0 /\ Min(top) \in Nat BY <1>2, <1>3, <3>1
    <3>. QED BY <3>2
  <2>. QED BY <1>1, <1>2, <1>3, <2>1, <2>2
<1>. QED BY <1>4, <1>5

-----------------------------------------------------------------------------
(* The invariant *)

\* Holds after every fault: the slot that runs under coexist was asked for.
Sane(s) ==
    /\ s \in HostState
    /\ s.phase = "shell" => s.ptr \in Shells
    /\ s.phase = "sched" => s.credits # <<>>
    /\ s.ladder => s.phase \in {"sched", "idle", "off"}
    /\ s.ladder /\ s.phase = "sched" => s.cur \in {0, 1}
    /\ s.ladder /\ s.phase = "sched" /\ s.ptr = 1 /\ 0 \notin s.failed
         => s.cur = 1 /\ s.spaRunnable

\* Guest j is not current and can be switched to: its registers are banked, and
\* its VMCS is either launched with its own fields, or clear, marked for VMLAUNCH
\* and captured in its shadow.
Fit(s, j) ==
    /\ j \in s.bank
    /\ IF j \in s.needsLaunch THEN j \notin s.launched /\ s.shadow[j] = "own"
       ELSE j \in s.launched /\ s.fields[j] = "own"

\* Guest j runs, where it left off.
Live(s, j) ==
    /\ s.ptr = j /\ s.loaded = j /\ s.exact
    /\ s.fields[j] = "own" /\ j \in s.launched /\ j \notin s.needsLaunch

\* Before coexist: nothing of the SPA guest exists.
Ladder(s) ==
    /\ ~s.ladder /\ ~s.spaLaunched /\ ~s.spaRunnable
    /\ s.failed = {} /\ s.needsLaunch \subseteq {0}
    /\ s.phase \in {"g0", "shell"} => s.slice = {}
    /\ s.phase = "g0" => Live(s, 0)
    /\ s.phase = "shell" => Live(s, s.ptr) /\ \A j \in 0 .. s.ptr - 1 : Fit(s, j)
    /\ s.phase = "sched" =>
          /\ Live(s, s.cur) /\ \A j \in Slots : j # s.cur => Fit(s, j)
          /\ 0 \notin s.slice => s.cur = 0 /\ s.slice = {}
          /\ s.slice # Slots
          /\ {0, 1} \subseteq s.slice => s.schedOk
    /\ s.phase \in {"probe", "finish"} => Fit(s, 0) /\ s.schedOk
    /\ s.phase = "off" => ~s.armed

\* Coexist: G0 and slot 1, each able to take over from the other.
Coexist(s) ==
    /\ s.ladder /\ s.phase = "sched" /\ Live(s, s.cur)
    /\ s.failed \subseteq {1} /\ (1 \in s.failed => ~s.spaRunnable)
    /\ s.spaRunnable => s.spaLaunched
    /\ ~s.spaLaunched => 1 \notin s.failed /\ 1 \notin s.needsLaunch
    /\ s.cur = 1 => s.spaLaunched /\ 1 \notin s.failed /\ Fit(s, 0)
    /\ s.cur = 0 /\ s.spaLaunched /\ 1 \notin s.failed => Fit(s, 1)

\* As long as every VMCS region is sound and no shell was skipped.
Healthy(s) ==
    /\ s.bad = {} /\ s.skipped = {}
    /\ s.phase \notin {"idle", "failed"}
    /\ Ladder(s) \/ Coexist(s)

Clean(s) == Sound \/ (~s.faulty /\ s.skipped = {})

SchedIInv ==
    /\ Sane(h)
    /\ start \in BOOLEAN /\ stop \in BOOLEAN
    /\ vm \in {"none", "running", "stopped"}
    /\ served \in 0 .. Requests[faults] /\ faults \in FaultSets
    /\ Clean(h) => Healthy(h)

-----------------------------------------------------------------------------
(* The ladder's own handlers *)

\* What the relocation of G0 and the setup of a guest leave alone.
Quiet(s, t) ==
    /\ t.armed = s.armed /\ t.credits = s.credits /\ t.ladder = s.ladder
    /\ t.slice = s.slice /\ t.schedOk = s.schedOk /\ t.spaLaunched = s.spaLaunched
    /\ t.cur = s.cur /\ t.spaRunnable = s.spaRunnable
    /\ t.failed = s.failed /\ t.faulty = s.faulty

\* What of the state decides whether guest j can be switched to.
SameGuest(s, t, j) ==
    /\ (j \in t.bank <=> j \in s.bank) /\ (j \in t.launched <=> j \in s.launched)
    /\ (j \in t.needsLaunch <=> j \in s.needsLaunch)
    /\ t.fields[j] = s.fields[j] /\ (j \in {0, 1} => t.shadow[j] = s.shadow[j])

\* A guest nothing was done to can still be switched to.
LEMMA FitStays ==
    ASSUME NEW s \in HostState, NEW t, NEW j, SameGuest(s, t, j), Fit(s, j)
    PROVE  Fit(t, j)
<1>1. s.needsLaunch \subseteq {0, 1} BY DEF HostState
<1>. QED BY <1>1 DEF SameGuest, Fit

\* relocate_g0_vmcs_to_host_slab leaves every guest able to continue: G0 from the
\* snapshot kept as its shadow.
LEMMA RelocateDoes ==
    ASSUME NEW s \in HostState, NEW t \in RelocateG0Vmcs(s)
    PROVE  /\ t \in HostState /\ Quiet(s, t) /\ t.phase = s.phase /\ t.skipped = s.skipped
           /\ t.bank = s.bank /\ t.bad \subseteq s.bad
           /\ t.needsLaunch \subseteq s.needsLaunch \cup {0}
           /\ \A j \in Slots : j # 0 => SameGuest(s, t, j)
           /\ s.ptr = 0 /\ Fit(s, 0) /\ s.fields[0] = "own" => Fit(t, 0)
<1>. DEFINE a == [s EXCEPT !.ptr = 0]
            c == CaptureShadow(a, 0)
            v == VmclearRewrite(c, 0)
            u == [v EXCEPT !.reloc = TRUE, !.needsLaunch = @ \cup {0}]
<1>0. 0 \in Slots BY DEF Slots, M4_NVM_GUEST_SLOTS
<1>1. t = s \/ t = c \/ t = u BY DEF RelocateG0Vmcs
<1>2. /\ a \in HostState /\ Quiet(s, a) /\ a.phase = s.phase /\ a.skipped = s.skipped
      /\ a.bank = s.bank /\ a.bad = s.bad /\ a.needsLaunch = s.needsLaunch
      /\ a.ptr = 0 /\ a.launched = s.launched /\ a.fields = s.fields /\ a.shadow = s.shadow
  BY <1>0 DEF HostState, Quiet
<1>. HIDE DEF a
<1>3. /\ c \in HostState /\ Frame(a, c) /\ Marks(a, c) /\ Vmcs(a, c) /\ Regs(a, c)
      /\ \A i \in {0, 1} : i # 0 => c.shadow[i] = a.shadow[i]
      /\ 0 \in {0, 1} /\ a.ptr = 0 /\ a.fields[0] = "own" => c.shadow[0] = "own"
  BY <1>0, <1>2, CaptureDoes
<1>. HIDE DEF c
<1>4. CASE t = s BY <1>4 DEF Quiet, SameGuest
<1>5. CASE t = c
  <2>1. /\ Quiet(s, c) /\ c.phase = s.phase /\ c.skipped = s.skipped /\ c.bank = s.bank
        /\ c.bad = s.bad /\ c.needsLaunch = s.needsLaunch
    BY <1>2, <1>3 DEF Quiet, Frame, Marks, Regs, Vmcs
  <2>2. \A j \in Slots : j # 0 => SameGuest(s, c, j)
    BY <1>2, <1>3 DEF SameGuest, Frame, Marks, Regs, Vmcs
  <2>3. s.fields[0] = "own" => c.shadow[0] = "own" BY <1>2, <1>3
  <2>4. c.launched = s.launched /\ c.fields = s.fields BY <1>2, <1>3 DEF Vmcs
  <2>5. Fit(s, 0) /\ s.fields[0] = "own" => Fit(c, 0) BY <2>1, <2>3, <2>4 DEF Fit
  <2>. QED BY <1>3, <1>5, <2>1, <2>2, <2>5
<1>6. CASE t = u
  <2>3. /\ v \in HostState /\ Frame(c, v) /\ Marks(c, v) /\ Regs(c, v)
        /\ v.shadow = c.shadow /\ v.launched = c.launched \ {0}
        /\ v.bad = c.bad \ {0}
        /\ \A i \in Slots : i # 0 => v.fields[i] = c.fields[i]
    BY <1>0, <1>3, ClearDoes
  <2>. HIDE DEF v
  <2>4. /\ u \in HostState /\ Quiet(v, u) /\ u.phase = v.phase /\ u.skipped = v.skipped
        /\ u.bank = v.bank /\ u.bad = v.bad /\ u.needsLaunch = v.needsLaunch \cup {0}
        /\ u.launched = v.launched /\ u.fields = v.fields /\ u.shadow = v.shadow
    BY <2>3 DEF HostState, Quiet
  <2>. HIDE DEF u
  <2>5. /\ Quiet(s, u) /\ u.phase = s.phase /\ u.skipped = s.skipped /\ u.bank = s.bank
        /\ u.bad \subseteq s.bad /\ u.needsLaunch = s.needsLaunch \cup {0}
    BY <1>2, <1>3, <2>3, <2>4 DEF Quiet, Frame, Marks, Regs, Vmcs
  <2>6. \A j \in Slots : j # 0 => SameGuest(s, u, j)
    BY <1>2, <1>3, <2>3, <2>4 DEF SameGuest, Frame, Marks, Regs, Vmcs
  <2>7. s.fields[0] = "own" => u.shadow[0] = "own" BY <1>2, <1>3, <2>3, <2>4
  <2>8. 0 \notin u.launched BY <2>3, <2>4
  <2>9. Fit(s, 0) /\ s.fields[0] = "own" => Fit(u, 0) BY <2>5, <2>7, <2>8 DEF Fit
  <2>. QED BY <1>6, <2>4, <2>5, <2>6, <2>9
<1>. QED BY <1>1, <1>4, <1>5, <1>6

\* A fresh VMCS for one slot leaves the others alone.
LEMMA SetupDoes ==
    ASSUME NEW s \in HostState, NEW slot \in Slots
    PROVE  LET t == SetupVmcs(s, slot)
           IN  /\ t \in HostState /\ Quiet(s, t) /\ t.phase = s.phase /\ t.skipped = s.skipped
               /\ t.bank = s.bank /\ t.bad \subseteq s.bad /\ t.needsLaunch = s.needsLaunch
               /\ t.ptr = slot /\ t.fields[slot] = "own" /\ slot \notin t.launched
               /\ t.shadow = s.shadow
               /\ \A j \in Slots : j # slot => SameGuest(s, t, j)
<1>. DEFINE t == SetupVmcs(s, slot)
<1>1. /\ t \in HostState /\ Quiet(s, t) /\ t.phase = s.phase /\ t.skipped = s.skipped
      /\ t.bank = s.bank /\ t.bad = s.bad \ {slot} /\ t.needsLaunch = s.needsLaunch
      /\ t.ptr = slot /\ t.shadow = s.shadow
  BY DEF SetupVmcs, HostState, Quiet
<1>2. t.fields = [s.fields EXCEPT ![slot] = "own"] /\ t.launched = s.launched \ {slot}
  BY DEF SetupVmcs, HostState
<1>3. s.fields \in [Slots -> {"own", "old", "lost"}] BY DEF HostState
<1>. HIDE DEF t
<1>4. \A j \in Slots : j # slot => SameGuest(s, t, j)
  BY <1>1, <1>2, <1>3 DEF SameGuest
<1>5. t.fields[slot] = "own" /\ slot \notin t.launched BY <1>2, <1>3
<1>. QED BY <1>1, <1>4, <1>5 DEF t

\* launch_shell_guest enters a shell or goes on to the probes; without failing
\* shells it enters the one that was asked for.
LEMMA LaunchShellDoes ==
    ASSUME NEW s \in HostState, NEW slot \in 1 .. SHELL_SLOT_MAX + 1,
           NEW t \in LaunchShellGuest(s, slot)
    PROVE  /\ t \in HostState /\ Quiet(s, t) /\ s.skipped \subseteq t.skipped
           /\ t.phase \in {"shell", "probe"}
           /\ t.phase = "shell" => t.ptr \in Shells
           /\ slot \in Shells /\ ("shell" \notin faults \/ t.skipped = {}) =>
                 /\ t.phase = "shell" /\ t.ptr = slot /\ t.skipped = s.skipped
                 /\ t.bad \subseteq s.bad /\ t.needsLaunch = s.needsLaunch
                 /\ slot \notin s.needsLaunch => Live(t, slot)
                 /\ \A j \in Slots : j # slot /\ Fit(s, j) => Fit(t, j)
<1>. DEFINE Past(first) == [s EXCEPT !.skipped = @ \cup (slot .. first - 1),
                                     !.launched = @ \ (slot .. first - 1)]
            Entry(first) == [SetupVmcs(Past(first), first) EXCEPT
                                !.phase = "shell", !.loaded = first, !.exact = TRUE]
<1>0. SHELL_SLOT_MAX = 3 /\ Shells = 1 .. 3 /\ Slots = 0 .. 3 /\ slot \in 1 .. 4
  BY DEF SHELL_SLOT_MAX, Shells, Slots, M4_NVM_GUEST_SLOTS
<1>1. \/ \E first \in slot .. 3 :
             t = Entered(Entry(first)) /\ (first = slot \/ "shell" \in faults)
      \/ /\ t = [Past(4) EXCEPT !.phase = "probe"]
         /\ "shell" \in faults \/ slot > 3
  <2>. DEFINE Reached == IF "shell" \in faults THEN slot .. SHELL_SLOT_MAX ELSE {slot} \cap Shells
              Skipped == IF "shell" \in faults \/ slot > SHELL_SLOT_MAX
                         THEN {[Past(SHELL_SLOT_MAX + 1) EXCEPT !.phase = "probe"]} ELSE {}
  <2>1. LaunchShellGuest(s, slot) = {Entered(Entry(first)) : first \in Reached} \cup Skipped
    BY DEF LaunchShellGuest
  <2>. HIDE DEF Past, Entry
  <2>2. CASE t \in Skipped
    <3>1. SHELL_SLOT_MAX + 1 = 4 BY <1>0
    <3>. QED BY <1>0, <2>2, <3>1
  <2>3. CASE t \in {Entered(Entry(first)) : first \in Reached}
    <3>1. PICK first \in Reached : t = Entered(Entry(first)) BY <2>3
    <3>2. first \in slot .. 3 /\ (first = slot \/ "shell" \in faults) BY <1>0, <3>1
    <3>. QED BY <3>1, <3>2
  <2>. QED BY <2>1, <2>2, <2>3
<1>2. ASSUME NEW first \in slot .. 4
      PROVE  /\ Past(first) \in HostState /\ Quiet(s, Past(first))
             /\ s.skipped \subseteq Past(first).skipped
             /\ Past(first).phase = s.phase
             /\ first # slot => slot \in Past(first).skipped
             /\ Past(slot) = s
  <2>1. slot .. first - 1 \subseteq Shells /\ (first # slot => slot \in slot .. first - 1)
    BY <1>0
  <2>2. slot .. slot - 1 = {} BY <1>0
  <2>. DEFINE gone == slot .. first - 1
  <2>3. gone \subseteq Shells /\ (first # slot => slot \in gone) BY <2>1
  <2>4. Past(slot) = s
    <3>1. s.skipped \cup {} = s.skipped /\ s.launched \ {} = s.launched OBVIOUS
    <3>2. Past(slot) = [s EXCEPT !.skipped = s.skipped, !.launched = s.launched]
      BY <2>2, <3>1, Zenon
    <3>. QED BY <3>2 DEF HostState
  <2>. DEFINE p == [s EXCEPT !.skipped = @ \cup gone, !.launched = @ \ gone]
  <2>. HIDE DEF gone
  <2>5. /\ p \in HostState /\ Quiet(s, p) /\ p.skipped = s.skipped \cup gone
        /\ p.phase = s.phase
    BY <2>3 DEF HostState, Quiet
  <2>6. Past(first) = p BY DEF gone
  <2>. HIDE DEF p, Past
  <2>. QED BY <2>3, <2>4, <2>5, <2>6
<1>3. ASSUME NEW first \in slot .. 3, t = Entered(Entry(first)),
             first = slot \/ "shell" \in faults
      PROVE  /\ t \in HostState /\ Quiet(s, t) /\ s.skipped \subseteq t.skipped
             /\ t.phase = "shell" /\ t.ptr \in Shells
             /\ ("shell" \notin faults \/ t.skipped = {}) =>
                   /\ t.ptr = slot /\ t.skipped = s.skipped
                   /\ t.bad \subseteq s.bad /\ t.needsLaunch = s.needsLaunch
                   /\ slot \notin s.needsLaunch => Live(t, slot)
                   /\ \A j \in Slots : j # slot /\ Fit(s, j) => Fit(t, j)
  <2>. DEFINE p == Past(first)
              v == SetupVmcs(p, first)
              e == [v EXCEPT !.phase = "shell", !.loaded = first, !.exact = TRUE]
  <2>0. first \in slot .. 4 /\ first \in Slots /\ first \in Shells BY <1>0, <1>3
  <2>1. /\ p \in HostState /\ Quiet(s, p) /\ s.skipped \subseteq p.skipped
        /\ first # slot => slot \in p.skipped
        /\ first = slot => p = s
    BY <1>2, <2>0
  <2>. HIDE DEF p, Past
  <2>2. /\ v \in HostState /\ Quiet(p, v) /\ v.skipped = p.skipped
        /\ v.bank = p.bank /\ v.bad \subseteq p.bad /\ v.needsLaunch = p.needsLaunch
        /\ v.ptr = first /\ v.fields[first] = "own"
        /\ \A j \in Slots : j # first => SameGuest(p, v, j)
    BY <2>0, <2>1, SetupDoes
  <2>. HIDE DEF v
  <2>3. /\ e \in HostState /\ Quiet(v, e) /\ e.skipped = v.skipped /\ e.phase = "shell"
        /\ e.bank = v.bank /\ e.bad = v.bad /\ e.needsLaunch = v.needsLaunch
        /\ e.ptr = first /\ e.fields = v.fields /\ e.launched = v.launched
        /\ e.shadow = v.shadow /\ e.loaded = first /\ e.exact
    BY <2>0, <2>2 DEF HostState, Quiet, Phases
  <2>4. t = Entered(e) BY <1>3 DEF p, v
  <2>. HIDE DEF e
  <2>5. /\ t \in HostState /\ Frame(e, t) /\ Marks(e, t)
        /\ t.ptr = first /\ t.fields = e.fields /\ t.bad = e.bad
        /\ t.loaded = first /\ t.exact
        /\ t.launched = e.launched \cup {first} /\ t.bank = e.bank \ {first}
        /\ \A i \in {0, 1} : i # first => t.shadow[i] = e.shadow[i]
    BY <2>0, <2>3, <2>4, EnteredDoes
  <2>6. /\ Quiet(s, t) /\ t.skipped = p.skipped /\ t.phase = "shell"
        /\ t.bad \subseteq p.bad /\ t.needsLaunch = p.needsLaunch
    BY <2>1, <2>2, <2>3, <2>5 DEF Quiet, Frame, Marks
  <2>7. first \notin p.needsLaunch => Live(t, first) BY <2>2, <2>3, <2>5, <2>6 DEF Live
  <2>8. ASSUME NEW j \in Slots, j # first, Fit(p, j) PROVE Fit(t, j)
    <3>1. SameGuest(p, v, j) BY <2>2, <2>8
    <3>2. SameGuest(v, t, j) BY <2>2, <2>3, <2>5, <2>6, <2>8 DEF SameGuest
    <3>. QED BY <2>1, <2>2, <2>8, <3>1, <3>2, FitStays
  <2>9. ("shell" \notin faults \/ t.skipped = {}) => first = slot BY <1>3, <2>1, <2>6
  <2>10. CASE first = slot
    <3>1. p = s BY <2>1, <2>10
    <3>2. \A j \in Slots : j # slot /\ Fit(s, j) => Fit(t, j) BY <2>8, <2>10, <3>1
    <3>. QED BY <2>0, <2>1, <2>5, <2>6, <2>7, <2>10, <3>1, <3>2
  <2>11. CASE first # slot BY <2>0, <2>1, <2>5, <2>6, <2>9, <2>11
  <2>. QED BY <2>10, <2>11
<1>4. ASSUME t = [Past(4) EXCEPT !.phase = "probe"], "shell" \in faults \/ slot > 3
      PROVE  /\ t \in HostState /\ Quiet(s, t) /\ s.skipped \subseteq t.skipped
             /\ t.phase = "probe"
             /\ slot \in Shells => "shell" \in faults /\ t.skipped # {}
  <2>. DEFINE p == Past(4)
  <2>1. 4 \in slot .. 4 BY <1>0
  <2>2. /\ p \in HostState /\ Quiet(s, p) /\ s.skipped \subseteq p.skipped
        /\ 4 # slot => slot \in p.skipped
    BY <1>2, <2>1
  <2>. HIDE DEF p, Past
  <2>3. t = [p EXCEPT !.phase = "probe"] BY <1>4 DEF p
  <2>4. t \in HostState /\ Quiet(p, t) /\ t.skipped = p.skipped /\ t.phase = "probe"
    BY <2>2, <2>3 DEF HostState, Quiet, Phases
  <2>5. Quiet(s, t) BY <2>2, <2>4 DEF Quiet
  <2>. QED BY <1>0, <1>4, <2>2, <2>4, <2>5
<1>. HIDE DEF Past, Entry
<1>. QED BY <1>0, <1>1, <1>3, <1>4

-----------------------------------------------------------------------------
(* Switching between guests that can be switched to *)

\* The round trip of the guest that is left: capture, VMCLEAR, the mark.
LEMMA OutFits ==
    ASSUME NEW s \in HostState, s.phase = "sched", s.bad = {}, NEW slot \in Slots,
           s.ladder /\ s.spaLaunched /\ s.cur # slot =>
               s.cur \in {0, 1} /\ s.ptr = s.cur /\ s.fields[s.cur] = "own"
    PROVE  LET o == Out(s, slot)
           IN  /\ o \in HostState /\ o.phase = "sched" /\ o.bad = {}
               /\ o.cur = s.cur /\ o.failed = s.failed /\ o.faulty = s.faulty
               /\ o.ladder = s.ladder
               /\ o.spaRunnable = s.spaRunnable
               /\ o.needsLaunch = IF s.ladder /\ s.spaLaunched /\ s.cur # slot
                                  THEN s.needsLaunch \cup {s.cur} ELSE s.needsLaunch
               /\ \A j \in Slots : j # s.cur \/ j = slot => SameGuest(s, o, j)
               /\ \A j \in Slots : Fit(s, j) => Fit(o, j)
<1>. DEFINE c == CaptureShadow(s, s.cur)
            v == VmclearRewrite(c, s.cur)
            t == [v EXCEPT !.needsLaunch = @ \cup ({s.cur} \cap {0, 1})]
<1>0. s.cur \in Slots BY DEF HostState
<1>1. CASE ~(s.ladder /\ s.spaLaunched /\ s.cur # slot)
  <2>1. Out(s, slot) = s BY <1>1 DEF Out, LeaveSlot
  <2>2. \A j \in Slots : SameGuest(s, s, j) BY DEF SameGuest
  <2>. QED BY <1>1, <2>1, <2>2
<1>2. CASE s.ladder /\ s.spaLaunched /\ s.cur # slot
  <2>1. Out(s, slot) = t BY <1>2 DEF Out, LeaveSlot
  <2>2. /\ c \in HostState /\ Frame(s, c) /\ Marks(s, c) /\ Vmcs(s, c) /\ Regs(s, c)
        /\ \A i \in {0, 1} : i # s.cur => c.shadow[i] = s.shadow[i]
        /\ c.shadow[s.cur] = "own"
    BY <1>0, <1>2, CaptureDoes
  <2>. HIDE DEF c
  <2>3. /\ v \in HostState /\ Frame(c, v) /\ Marks(c, v) /\ Regs(c, v)
        /\ v.shadow = c.shadow /\ v.launched = c.launched \ {s.cur}
        /\ v.bad = c.bad \ {s.cur}
        /\ \A i \in Slots : i # s.cur => v.fields[i] = c.fields[i]
    BY <1>0, <2>2, ClearDoes
  <2>. HIDE DEF v
  <2>4. /\ t \in HostState /\ Quiet(v, t) /\ t.phase = v.phase
        /\ t.needsLaunch = v.needsLaunch \cup {s.cur}
        /\ t.bank = v.bank /\ t.bad = v.bad /\ t.shadow = v.shadow
        /\ t.launched = v.launched /\ t.fields = v.fields
    <3>1. s.cur \in {0, 1} /\ {s.cur} \cap {0, 1} = {s.cur} BY <1>2
    <3>2. t = [v EXCEPT !.needsLaunch = @ \cup {s.cur}] BY <3>1
    <3>. HIDE DEF t
    <3>. QED BY <2>3, <3>1, <3>2 DEF HostState, Quiet
  <2>. HIDE DEF t
  <2>5. /\ t.phase = "sched" /\ t.bad = {} /\ t.cur = s.cur /\ t.failed = s.failed
        /\ t.faulty = s.faulty /\ t.spaRunnable = s.spaRunnable /\ t.ladder = s.ladder
        /\ t.needsLaunch = s.needsLaunch \cup {s.cur} /\ t.bank = s.bank
    BY <2>2, <2>3, <2>4 DEF Frame, Marks, Regs, Vmcs, Quiet
  <2>6. \A j \in Slots : j # s.cur => SameGuest(s, t, j)
    BY <2>2, <2>3, <2>4, <2>5 DEF SameGuest, Vmcs
  <2>7. t.shadow[s.cur] = "own" /\ s.cur \notin t.launched BY <2>2, <2>3, <2>4
  <2>8. Fit(s, s.cur) => Fit(t, s.cur) BY <2>5, <2>7 DEF Fit
  <2>9. \A j \in Slots : Fit(s, j) => Fit(t, j) BY <2>6, <2>8, FitStays
  <2>. QED BY <1>2, <2>1, <2>4, <2>5, <2>6, <2>9
<1>. QED BY <1>1, <1>2

\* VMPTRLD and the registers of the guest that is entered.
LEMMA InFits ==
    ASSUME NEW o \in HostState, NEW slot \in Slots
    PROVE  LET i == In(o, slot)
           IN  /\ i \in HostState /\ i.phase = o.phase /\ i.bad = o.bad
               /\ i.cur = slot /\ i.ptr = slot /\ i.loaded = slot
               /\ i.failed = o.failed /\ i.faulty = o.faulty
               /\ i.ladder = o.ladder
               /\ i.spaRunnable = o.spaRunnable
               /\ slot \in o.bank => i.exact
               /\ i.needsLaunch = o.needsLaunch \ {slot} /\ i.bank = o.bank
               /\ i.launched = o.launched /\ i.fields = o.fields /\ i.shadow = o.shadow
<1>. DEFINE n == [o EXCEPT !.ptr = slot, !.cur = slot, !.needsLaunch = @ \ {slot}]
<1>1. /\ n \in HostState /\ n.phase = o.phase /\ n.bad = o.bad
      /\ n.cur = slot /\ n.ptr = slot /\ n.failed = o.failed /\ n.faulty = o.faulty
      /\ n.spaRunnable = o.spaRunnable /\ n.needsLaunch = o.needsLaunch \ {slot}
      /\ n.ladder = o.ladder
      /\ n.bank = o.bank
      /\ n.launched = o.launched /\ n.fields = o.fields /\ n.shadow = o.shadow
  BY DEF HostState
<1>2. In(o, slot) = LoadGprs(n, slot) BY DEF In
<1>. HIDE DEF n
<1>. QED BY <1>1, <1>2, LoadDoes DEF Frame, Marks, Vmcs

\* A guest whose registers are loaded and whose VMCS is current and its own is
\* entered; the others stay as they were.
LEMMA EntryFits ==
    ASSUME NEW i \in HostState, NEW slot \in Slots,
           i.ptr = slot, i.loaded = slot, i.exact, i.fields[slot] = "own",
           slot \notin i.needsLaunch
    PROVE  LET t == Entered(i)
           IN  /\ t \in HostState /\ Live(t, slot) /\ Frame(i, t) /\ Marks(i, t)
               /\ t.bad = i.bad
               /\ \A j \in Slots : j # slot => SameGuest(i, t, j)
<1>. DEFINE t == Entered(i)
<1>1. /\ t \in HostState /\ Frame(i, t) /\ Marks(i, t)
      /\ t.ptr = i.ptr /\ t.fields = i.fields /\ t.bad = i.bad
      /\ t.loaded = i.loaded /\ t.exact = i.exact
      /\ t.launched = i.launched \cup {i.ptr} /\ t.bank = i.bank \ {i.ptr}
      /\ \A k \in {0, 1} : k # i.ptr => t.shadow[k] = i.shadow[k]
  BY EnteredDoes
<1>. HIDE DEF t
<1>2. Live(t, slot) BY <1>1 DEF Live, Marks
<1>3. \A j \in Slots : j # slot => SameGuest(i, t, j) BY <1>1 DEF SameGuest, Marks
<1>. QED BY <1>1, <1>2, <1>3 DEF t

\* A refused entry of slot 1 falls back to G0, which was left for it.
LEMMA ResumeG0Fits ==
    ASSUME NEW s \in HostState, s.phase = "sched", s.bad = {},
           Fit(s, 0), 0 \in s.needsLaunch, NEW t \in ResumeG0AfterSpaFail(s)
    PROVE  /\ t \in HostState /\ t.phase = "sched" /\ t.bad = {} /\ t.cur = 0 /\ Live(t, 0)
           /\ t.failed = s.failed \cup {1} /\ ~t.spaRunnable /\ t.faulty = s.faulty
<1>. DEFINE a == [s EXCEPT !.spaRunnable = FALSE, !.needsLaunch = @ \ {1},
                           !.failed = @ \cup {1}]
            p == VmclearRewrite(a, 1)
            b == [p EXCEPT !.failed = @ \cup {0}]
            c == [p EXCEPT !.ptr = 0, !.cur = 0, !.needsLaunch = @ \ {0}]
            l == LoadGprs(c, 0)
            g == RestoreShadow(l, 0)
<1>0. 0 \in Slots /\ 1 \in Slots BY DEF Slots, M4_NVM_GUEST_SLOTS
<1>1. t \in IF 0 \in p.bad THEN FailsoftIdle(b)
            ELSE IF ShadowUsable(g, 0) /\ CanLaunch(g) THEN {Entered(g)} ELSE FailsoftIdle(g)
  BY DEF ResumeG0AfterSpaFail, Then
<1>2. /\ a \in HostState /\ a.phase = "sched" /\ a.bad = {} /\ a.faulty = s.faulty
      /\ ~a.spaRunnable /\ a.failed = s.failed \cup {1} /\ SameGuest(s, a, 0)
  <2>1. /\ a \in HostState /\ a.phase = s.phase /\ a.bad = s.bad /\ a.faulty = s.faulty
        /\ a.spaRunnable = FALSE /\ a.failed = s.failed \cup {1}
        /\ a.bank = s.bank /\ a.launched = s.launched /\ a.fields = s.fields
        /\ a.shadow = s.shadow /\ a.needsLaunch = s.needsLaunch \ {1}
    BY DEF HostState
  <2>. HIDE DEF a
  <2>. QED BY <2>1 DEF SameGuest
<1>. HIDE DEF a
<1>3. /\ p \in HostState /\ p.phase = "sched" /\ p.bad = {} /\ p.faulty = s.faulty
      /\ ~p.spaRunnable /\ p.failed = s.failed \cup {1} /\ SameGuest(s, p, 0)
  <2>1. /\ p \in HostState /\ Frame(a, p) /\ Marks(a, p) /\ Regs(a, p)
        /\ p.shadow = a.shadow /\ p.launched = a.launched \ {1}
        /\ p.bad = a.bad \ {1}
        /\ \A i \in Slots : i # 1 => p.fields[i] = a.fields[i]
    <3>1. a \in HostState BY <1>2
    <3>2. \A k \in Slots : LET q == VmclearRewrite(a, k)
           IN  /\ q \in HostState /\ Frame(a, q) /\ Marks(a, q) /\ Regs(a, q)
               /\ q.shadow = a.shadow /\ q.launched = a.launched \ {k} /\ q.bad = a.bad \ {k}
               /\ \A i \in Slots : i # k => q.fields[i] = a.fields[i]
      BY <3>1, ClearDoes
    <3>. QED BY <1>0, <3>2
  <2>. HIDE DEF p
  <2>. QED BY <1>0, <1>2, <2>1 DEF Frame, Marks, Regs, SameGuest
<1>. HIDE DEF p
<1>4. p.shadow[0] = "own" /\ 0 \notin p.launched /\ 0 \in p.bank
  BY <1>3 DEF SameGuest, Fit
<1>5. /\ c \in HostState /\ c.phase = "sched" /\ c.bad = {} /\ c.faulty = s.faulty
      /\ ~c.spaRunnable /\ c.failed = s.failed \cup {1} /\ c.cur = 0 /\ c.ptr = 0
      /\ 0 \notin c.needsLaunch /\ c.shadow[0] = "own" /\ 0 \notin c.launched /\ 0 \in c.bank
  BY <1>0, <1>3, <1>4 DEF HostState
<1>. HIDE DEF c
<1>6. /\ l \in HostState /\ l.phase = "sched" /\ l.bad = {} /\ l.faulty = s.faulty
      /\ ~l.spaRunnable /\ l.failed = s.failed \cup {1} /\ l.cur = 0 /\ l.ptr = 0
      /\ 0 \notin l.needsLaunch /\ l.shadow[0] = "own" /\ 0 \notin l.launched
      /\ l.loaded = 0 /\ l.exact
  BY <1>0, <1>5, LoadDoes DEF Frame, Marks, Vmcs
<1>. HIDE DEF l
<1>7. /\ g \in HostState /\ g.phase = "sched" /\ g.bad = {} /\ g.faulty = s.faulty
      /\ ~g.spaRunnable /\ g.failed = s.failed \cup {1} /\ g.cur = 0 /\ g.ptr = 0
      /\ 0 \notin g.needsLaunch /\ g.shadow[0] = "own" /\ 0 \notin g.launched
      /\ g.loaded = 0 /\ g.exact /\ g.fields[0] = "own"
  <2>1. /\ g \in HostState /\ Frame(l, g) /\ Marks(l, g) /\ Regs(l, g)
        /\ g.shadow = l.shadow /\ g.ptr = l.ptr /\ g.launched = l.launched /\ g.bad = l.bad
        /\ l.ptr = 0 /\ 0 \in {0, 1} /\ l.shadow[0] = "own" => g.fields[0] = "own"
    BY <1>0, <1>6, RestoreDoes
  <2>. HIDE DEF g
  <2>. QED BY <1>6, <2>1 DEF Frame, Marks, Regs
<1>. HIDE DEF g
<1>8. ShadowUsable(g, 0) /\ CanLaunch(g) BY <1>0, <1>7 DEF ShadowUsable, CanLaunch
<1>9. t = Entered(g) BY <1>1, <1>3, <1>8
<1>. QED BY <1>0, <1>7, <1>9, EntryFits DEF Frame, Marks

\* switch_to_sched_slot continues the guest it switches to where it left off, and
\* leaves every other one able to continue; or slot 1 is refused and G0 continues.
LEMMA SwitchFits ==
    ASSUME NEW s \in HostState, s.phase = "sched", s.bad = {}, NEW slot \in Slots,
           Fit(s, slot),
           s.ladder /\ s.spaLaunched /\ s.cur # slot =>
               s.cur \in {0, 1} /\ s.ptr = s.cur /\ s.fields[s.cur] = "own",
           slot = 1 /\ 1 \in s.needsLaunch =>
               s.ladder /\ s.spaLaunched /\ s.cur = 0 /\ Fit(s, 0),
           NEW t \in SwitchToSchedSlot(s, slot)
    PROVE  /\ t \in HostState /\ t.phase = "sched" /\ t.bad = {}
           /\ \/ /\ t.cur = slot /\ Live(t, slot)
                 /\ t.faulty = s.faulty /\ t.failed = s.failed
                 /\ t.spaRunnable = s.spaRunnable
                 /\ ~(s.ladder /\ s.spaLaunched) => t.needsLaunch \subseteq s.needsLaunch
                 /\ \A j \in Slots : j # slot /\ Fit(s, j) => Fit(t, j)
              \/ /\ slot = 1 /\ s.ladder /\ t.cur = 0 /\ Live(t, 0)
                 /\ t.faulty /\ t.failed = s.failed \cup {1} /\ ~t.spaRunnable
<1>. DEFINE o == Out(s, slot)
            i == In(o, slot)
            r == RestoreShadow(i, slot)
<1>1. /\ o \in HostState /\ o.phase = "sched" /\ o.bad = {}
      /\ o.failed = s.failed /\ o.faulty = s.faulty /\ o.ladder = s.ladder
      /\ o.spaRunnable = s.spaRunnable
      /\ o.needsLaunch = IF s.ladder /\ s.spaLaunched /\ s.cur # slot
                         THEN s.needsLaunch \cup {s.cur} ELSE s.needsLaunch
      /\ SameGuest(s, o, slot)
      /\ \A j \in Slots : Fit(s, j) => Fit(o, j)
  BY OutFits
<1>2. t \in IF slot \notin o.needsLaunch THEN Vmresume(i)
            ELSE IF ShadowUsable(i, slot) THEN Vmlaunch(r) ELSE FailsoftSchedOrFinish(i)
  <2>1. slot \notin o.bad BY <1>1
  <2>. HIDE DEF o
  <2>. QED BY <2>1, SwitchCases DEF o
<1>. HIDE DEF o
<1>3. /\ i \in HostState /\ i.phase = "sched" /\ i.bad = {}
      /\ i.cur = slot /\ i.ptr = slot /\ i.loaded = slot
      /\ i.failed = s.failed /\ i.faulty = s.faulty /\ i.ladder = s.ladder
      /\ i.spaRunnable = s.spaRunnable /\ i.exact
      /\ i.needsLaunch = o.needsLaunch \ {slot} /\ i.bank = o.bank
      /\ i.launched = o.launched /\ i.fields = o.fields /\ i.shadow = o.shadow
  BY <1>1, InFits DEF Fit
<1>. HIDE DEF i
<1>4. Fit(o, slot) BY <1>1
<1>5. \A j \in Slots : j # slot => SameGuest(o, i, j) BY <1>3 DEF SameGuest
<1>6. ~(s.ladder /\ s.spaLaunched) => i.needsLaunch \subseteq s.needsLaunch BY <1>1, <1>3
<1>7. CASE slot \notin o.needsLaunch
  <2>1. i.ptr \in i.launched /\ i.fields[slot] = "own" BY <1>3, <1>4, <1>7 DEF Fit
  <2>2. t = Entered(i) BY <1>2, <1>7, <2>1 DEF Vmresume
  <2>3. /\ t \in HostState /\ Live(t, slot) /\ Frame(i, t) /\ Marks(i, t) /\ t.bad = i.bad
        /\ \A j \in Slots : j # slot => SameGuest(i, t, j)
    BY <1>3, <2>1, <2>2, EntryFits
  <2>4. \A j \in Slots : j # slot /\ Fit(s, j) => Fit(t, j)
    BY <1>1, <1>3, <1>5, <2>3, FitStays
  <2>. QED BY <1>3, <1>6, <2>3, <2>4 DEF Frame, Marks
<1>8. CASE slot \in o.needsLaunch
  <2>1. /\ slot \in {0, 1} /\ i.shadow[slot] = "own" /\ slot \notin i.launched
    BY <1>1, <1>3, <1>4, <1>8 DEF Fit, HostState
  <2>2. t \in Vmlaunch(r) BY <1>2, <1>8, <2>1 DEF ShadowUsable
  <2>3. /\ r \in HostState /\ Frame(i, r) /\ Marks(i, r) /\ Regs(i, r)
        /\ r.shadow = i.shadow /\ r.ptr = i.ptr /\ r.launched = i.launched /\ r.bad = i.bad
        /\ \A k \in Slots : k # i.ptr => r.fields[k] = i.fields[k]
        /\ r.fields[slot] = "own"
    BY <1>3, <2>1, RestoreDoes
  <2>. HIDE DEF r
  <2>4. \A j \in Slots : j # slot => SameGuest(i, r, j)
    BY <1>3, <2>3 DEF SameGuest, Marks, Regs
  <2>5. CanLaunch(r) BY <1>3, <2>1, <2>3 DEF CanLaunch
  <2>6. CASE t = Entered(r)
    <3>1. /\ t \in HostState /\ Live(t, slot) /\ Frame(r, t) /\ Marks(r, t) /\ t.bad = r.bad
          /\ \A j \in Slots : j # slot => SameGuest(r, t, j)
      <4>1. /\ r.ptr = slot /\ r.loaded = slot /\ r.exact /\ r.fields[slot] = "own"
            /\ slot \notin r.needsLaunch
        BY <1>3, <2>3 DEF Marks, Regs
      <4>. QED BY <2>3, <2>6, <4>1, EntryFits
    <3>2. \A j \in Slots : j # slot /\ Fit(s, j) => Fit(t, j)
      BY <1>1, <1>3, <1>5, <2>3, <2>4, <3>1, FitStays
    <3>. QED BY <1>3, <1>6, <2>3, <3>1, <3>2 DEF Frame, Marks
  <2>7. CASE t # Entered(r)
    <3>. DEFINE f == [r EXCEPT !.faulty = TRUE]
    <3>1. slot = 1 /\ (f.ladder /\ f.cur = 1 => t \in ResumeG0AfterSpaFail(f))
      BY <1>3, <2>2, <2>3, <2>5, <2>7, ZenonT(60) DEF Vmlaunch, Then
    <3>2. s.ladder /\ s.spaLaunched /\ s.cur = 0 /\ Fit(s, 0)
      <4>1. slot \in s.needsLaunch BY <1>1, <1>8
      <4>. QED BY <3>1, <4>1
    <3>3. /\ f \in HostState /\ f.phase = "sched" /\ f.bad = {} /\ f.faulty = TRUE
          /\ f.ladder = r.ladder /\ f.cur = r.cur /\ f.failed = r.failed
          /\ f.needsLaunch = r.needsLaunch /\ SameGuest(r, f, 0)
      <4>1. /\ f \in HostState /\ f.phase = r.phase /\ f.bad = r.bad /\ f.faulty = TRUE
            /\ f.ladder = r.ladder /\ f.cur = r.cur /\ f.failed = r.failed
            /\ f.needsLaunch = r.needsLaunch /\ f.bank = r.bank /\ f.launched = r.launched
            /\ f.fields = r.fields /\ f.shadow = r.shadow
        BY <2>3 DEF HostState
      <4>. HIDE DEF f
      <4>. QED BY <1>3, <2>3, <4>1 DEF SameGuest, Frame
    <3>. HIDE DEF f
    <3>4. t \in ResumeG0AfterSpaFail(f)
      BY <1>3, <2>3, <3>1, <3>2, <3>3 DEF Frame, Marks
    <3>5. 0 \in Slots /\ 0 # slot BY <3>1 DEF Slots, M4_NVM_GUEST_SLOTS
    <3>6. Fit(f, 0)
      BY <1>1, <1>3, <1>5, <2>3, <2>4, <3>2, <3>3, <3>5, FitStays
    <3>7. 0 \in f.needsLaunch
      BY <1>1, <1>3, <2>3, <3>1, <3>2, <3>3 DEF Marks
    <3>8. f.failed = s.failed BY <1>3, <2>3, <3>3 DEF Marks
    <3>. QED BY <3>1, <3>2, <3>3, <3>4, <3>6, <3>7, <3>8, ResumeG0Fits
  <2>. QED BY <2>6, <2>7
<1>. QED BY <1>7, <1>8

-----------------------------------------------------------------------------
(* A preemption *)

\* The slot schedule_preempt settles for: under coexist G0 or slot 1, and slot 1
\* only while it may run, unless G0 is lost.
LEMMA NextSlotDoes ==
    ASSUME NEW r \in HostState, NEW p \in Slots, r.ladder => r.cur \in {0, 1}
    PROVE  LET n == NextSlot(r, p)
           IN  /\ n \in Slots /\ (r.ladder => n \in {0, 1})
               /\ r.ladder /\ n = 1 /\ 0 \notin r.failed => r.spaRunnable /\ 1 \notin r.failed
               /\ ~r.ladder /\ 0 \notin r.failed => n = p
<1>. DEFINE parked == ~r.spaRunnable \/ 1 \in r.failed
            a == IF r.ladder /\ (p >= 2 \/ (p = 1 /\ parked)) THEN 0 ELSE p
            b == IF a = 0 /\ 0 \in r.failed THEN (IF r.cur = 0 THEN 1 ELSE r.cur) ELSE a
            n == IF r.ladder /\ b = 0 /\ r.spaLaunched /\ (~r.reloc \/ 0 \in r.failed) /\ ~parked
                 THEN 1 ELSE b
<1>0. 0 \in Slots /\ 1 \in Slots /\ r.cur \in Slots /\ Slots = 0 .. 3
  BY DEF Slots, M4_NVM_GUEST_SLOTS, HostState
<1>1. NextSlot(r, p) = n BY DEF NextSlot
<1>. HIDE DEF parked
<1>2. /\ a \in Slots /\ (r.ladder => a \in {0, 1}) /\ (r.ladder /\ a = 1 => ~parked)
      /\ (~r.ladder => a = p)
  BY <1>0
<1>. HIDE DEF a
<1>3. /\ b \in Slots /\ (r.ladder => b \in {0, 1}) /\ (0 \notin r.failed => b = a)
  BY <1>0, <1>2
<1>. HIDE DEF b
<1>4. /\ n \in Slots /\ (r.ladder => n \in {0, 1}) /\ (~r.ladder => n = b)
      /\ n = 1 => b = 1 \/ ~parked
  BY <1>0, <1>3
<1>. HIDE DEF n
<1>. QED BY <1>1, <1>2, <1>3, <1>4 DEF parked

\* The state with the slice charged and the registers saved.
Charged(n) == [SaveGprs(n, n.cur) EXCEPT !.credits = ConsumeQuantum(@, n.cur)]

Chosen(c) == NextSlot(c, PickNextFair(c.credits, c.cur))

\* The paths through schedule_preempt after the requests were taken.
LEMMA SliceCases ==
    ASSUME NEW s, NEW t \in SliceAndSwitch(s)
    PROVE  LET n == NoteSchedSlice(s)
               c == Charged(n)
           IN  IF n.phase = "probe" THEN t = n
               ELSE t \in IF Chosen(c) = c.cur THEN Vmresume(c) ELSE SwitchToSchedSlot(c, Chosen(c))
<1>. DEFINE n == NoteSchedSlice(s)
            c == Charged(n)
            Go(r) == IF Chosen(r) = r.cur THEN Vmresume(r) ELSE SwitchToSchedSlot(r, Chosen(r))
            Noted(w) == IF w.phase = "probe" THEN {w} ELSE Then({Charged(w)}, Go)
<1>1. SliceAndSwitch(s) = Then({n}, Noted) BY DEF SliceAndSwitch, Charged, Chosen
<1>. HIDE DEF n
<1>2. t \in Noted(n)
  <2>. HIDE DEF Noted
  <2>. QED BY <1>1 DEF Then
<1>3. CASE n.phase = "probe" BY <1>2, <1>3 DEF n
<1>4. CASE n.phase # "probe"
  <2>1. t \in Then({c}, Go) BY <1>2, <1>4
  <2>. HIDE DEF c
  <2>2. t \in Go(c)
    <3>. HIDE DEF Go
    <3>. QED BY <2>1 DEF Then
  <2>. QED BY <1>4, <2>2 DEF c, n
<1>. QED BY <1>3, <1>4

\* History is never forgotten.
Grows(s, t) == (s.faulty => t.faulty) /\ s.skipped \subseteq t.skipped

\* note_sched_slice adds to the slice and may end the ladder; nothing else moves.
LEMMA NoteDoes ==
    ASSUME NEW s \in HostState, s.phase = "sched"
    PROVE  LET n == NoteSchedSlice(s)
           IN  /\ n \in HostState /\ Marks(s, n) /\ Vmcs(s, n) /\ Regs(s, n)
               /\ n.shadow = s.shadow /\ n.credits = s.credits /\ n.ladder = s.ladder
               /\ n.spaLaunched = s.spaLaunched /\ n.reloc = s.reloc
               /\ n.armed = s.armed /\ n.skipped = s.skipped
               /\ n.slice = s.slice \cup {s.cur}
               /\ {0, 1} \subseteq n.slice => n.schedOk
               /\ n.phase = IF n.slice = Slots /\ ~s.ladder THEN "probe" ELSE "sched"
<1>. DEFINE slice == s.slice \cup {s.cur}
            ok == s.schedOk \/ {0, 1} \subseteq slice
            ph == IF slice = Slots /\ ~s.ladder THEN "probe" ELSE s.phase
            n == [s EXCEPT !.slice = slice, !.schedOk = ok, !.phase = ph]
<1>1. NoteSchedSlice(s) = n BY DEF NoteSchedSlice
<1>2. /\ slice \in SUBSET Slots /\ ok \in BOOLEAN /\ ({0, 1} \subseteq slice => ok)
      /\ ph \in Phases /\ ph = IF slice = Slots /\ ~s.ladder THEN "probe" ELSE "sched"
      /\ slice = s.slice \cup {s.cur}
  BY DEF HostState, Phases
<1>. HIDE DEF slice, ok, ph
<1>3. n \in HostState /\ n.slice = slice /\ n.schedOk = ok /\ n.phase = ph
  <2>1. slice \in SUBSET Slots /\ ok \in BOOLEAN /\ ph \in Phases BY <1>2
  <2>. QED BY <2>1 DEF HostState
<1>4. /\ Marks(s, n) /\ Vmcs(s, n) /\ Regs(s, n)
      /\ n.shadow = s.shadow /\ n.credits = s.credits /\ n.ladder = s.ladder
      /\ n.spaLaunched = s.spaLaunched /\ n.reloc = s.reloc
      /\ n.armed = s.armed /\ n.skipped = s.skipped
  BY DEF HostState, Marks, Vmcs, Regs
<1>. HIDE DEF n
<1>. QED BY <1>1, <1>2, <1>3, <1>4

\* The registers of the guest that was preempted are banked, its quantum is spent.
LEMMA ChargedDoes ==
    ASSUME NEW n \in HostState, n.credits # <<>>
    PROVE  LET c == Charged(n)
           IN  /\ c \in HostState /\ Marks(n, c) /\ Vmcs(n, c)
               /\ c.shadow = n.shadow /\ c.loaded = n.loaded /\ c.exact = n.exact
               /\ c.phase = n.phase /\ c.armed = n.armed /\ c.ladder = n.ladder
               /\ c.slice = n.slice /\ c.schedOk = n.schedOk
               /\ c.spaLaunched = n.spaLaunched /\ c.reloc = n.reloc
               /\ c.skipped = n.skipped
               /\ c.credits # <<>> /\ PickNextFair(c.credits, c.cur) \in Slots
               /\ n.loaded = n.cur /\ n.exact => n.cur \in c.bank
               /\ c.bank \cup {n.cur} = n.bank \cup {n.cur}
<1>. DEFINE g == SaveGprs(n, n.cur)
            d == ConsumeQuantum(g.credits, n.cur)
            c == [g EXCEPT !.credits = d]
<1>0. n.cur \in Slots BY DEF HostState
<1>1. Charged(n) = c BY DEF Charged
<1>2. /\ g \in HostState /\ Frame(n, g) /\ Marks(n, g) /\ Vmcs(n, g)
      /\ g.shadow = n.shadow /\ g.loaded = n.loaded /\ g.exact = n.exact
      /\ n.loaded = n.cur /\ n.exact => n.cur \in g.bank
      /\ g.bank \cup {n.cur} = n.bank \cup {n.cur}
  BY <1>0, SaveDoes
<1>. HIDE DEF g
<1>3. g.credits \in CreditStates /\ g.credits # <<>> BY <1>2 DEF HostState, Frame
<1>4. d \in CreditStates /\ d # <<>> /\ Runnable(d) # {} BY <1>0, <1>3, ConsumeDoes
<1>. HIDE DEF d
<1>5. PickNextFair(d, n.cur) \in Slots BY <1>0, <1>4, PickDoes
<1>6. /\ c \in HostState /\ c.credits = d /\ Marks(g, c) /\ Vmcs(g, c) /\ Regs(g, c)
      /\ c.shadow = g.shadow
      /\ c.phase = g.phase /\ c.armed = g.armed /\ c.ladder = g.ladder
      /\ c.slice = g.slice /\ c.schedOk = g.schedOk
      /\ c.spaLaunched = g.spaLaunched /\ c.reloc = g.reloc /\ c.skipped = g.skipped
  BY <1>2, <1>4 DEF HostState, Marks, Vmcs, Regs
<1>. HIDE DEF c
<1>. QED BY <1>1, <1>2, <1>4, <1>5, <1>6 DEF Frame, Marks, Vmcs, Regs

\* A preemption, from any state in which a guest was scheduled.
LEMMA SliceSane ==
    ASSUME NEW s \in HostState, s.phase = "sched", s.credits # <<>>,
           s.ladder => s.cur \in {0, 1},
           s.ladder /\ s.ptr = 1 /\ 0 \notin s.failed => s.cur = 1,
           NEW t \in SliceAndSwitch(s)
    PROVE  Sane(t) /\ Grows(s, t)
<1>. DEFINE n == NoteSchedSlice(s)
            c == Charged(n)
            k == Chosen(c)
<1>1. IF n.phase = "probe" THEN t = n
      ELSE t \in IF k = c.cur THEN Vmresume(c) ELSE SwitchToSchedSlot(c, k)
  BY SliceCases
<1>2. /\ n \in HostState /\ Marks(s, n) /\ Vmcs(s, n)
      /\ n.credits = s.credits /\ n.ladder = s.ladder /\ n.skipped = s.skipped
      /\ n.phase = "sched" \/ (n.phase = "probe" /\ ~s.ladder)
  BY NoteDoes
<1>. HIDE DEF n
<1>3. CASE n.phase = "probe" BY <1>1, <1>2, <1>3 DEF Sane, Grows, Marks
<1>4. CASE n.phase # "probe"
  <2>1. /\ c \in HostState /\ Marks(n, c) /\ Vmcs(n, c) /\ c.phase = n.phase
        /\ c.ladder = n.ladder /\ c.skipped = n.skipped
        /\ c.credits # <<>> /\ PickNextFair(c.credits, c.cur) \in Slots
    BY <1>2, ChargedDoes
  <2>. HIDE DEF c
  <2>2. /\ c.cur = s.cur /\ c.ptr = s.ptr /\ c.failed = s.failed /\ c.faulty = s.faulty
        /\ c.spaRunnable = s.spaRunnable /\ c.ladder = s.ladder /\ c.phase = "sched"
        /\ c.skipped = s.skipped
    BY <1>2, <1>4, <2>1 DEF Marks, Vmcs
  <2>3. /\ k \in Slots /\ (c.ladder => k \in {0, 1})
        /\ c.ladder /\ k = 1 /\ 0 \notin c.failed => c.spaRunnable
    BY <2>1, <2>2, NextSlotDoes DEF Chosen
  <2>. HIDE DEF k
  <2>4. CASE k = c.cur
    <3>1. t \in Vmresume(c) BY <1>1, <1>4, <2>4
    <3>2. /\ Keeps(c, t) /\ t.cur = c.cur
          /\ t.phase = "sched" => t.ptr = c.ptr /\ t.spaRunnable = c.spaRunnable
      BY <2>1, <2>2, <3>1, VmresumeDoes
    <3>. QED BY <2>1, <2>2, <2>3, <2>4, <3>2 DEF Sane, Keeps, Grows
  <2>5. CASE k # c.cur
    <3>1. t \in SwitchToSchedSlot(c, k) BY <1>1, <1>4, <2>5
    <3>2. /\ Keeps(c, t) /\ t.cur \in {0, k, c.cur}
          /\ t.phase = "sched" /\ 0 \notin t.failed =>
                \/ t.ptr = 0 /\ t.cur = 0
                \/ t.ptr = k /\ t.cur = k /\ t.spaRunnable = c.spaRunnable
                \/ k # 0 /\ t.cur = c.cur /\ t.ptr \in {c.ptr, c.cur, NoVmcs}
      BY <2>1, <2>2, <2>3, <3>1, SwitchDoes
    <3>3. t.ladder /\ t.phase = "sched" /\ t.ptr = 1 /\ 0 \notin t.failed
            => t.cur = 1 /\ t.spaRunnable
      BY <2>2, <2>3, <2>5, <3>2 DEF Keeps, NoVmcs
    <3>. QED BY <2>1, <2>2, <2>3, <3>2, <3>3 DEF Sane, Keeps, Grows
  <2>. QED BY <2>4, <2>5
<1>. QED BY <1>3, <1>4

\* The guest that was preempted, once its registers are banked, can be switched to.
LEMMA LiveFits ==
    ASSUME NEW s, NEW j, Live(s, j), j \in s.bank
    PROVE  Fit(s, j)
BY DEF Live, Fit

\* A preemption of the ladder: every guest continues, or the slices are complete
\* and G0 can be switched to.
LEMMA SliceLadder ==
    ASSUME NEW s \in HostState, s.phase = "sched", s.credits # <<>>,
           Healthy(s), Ladder(s), NEW t \in SliceAndSwitch(s)
    PROVE  Healthy(t)
<1>. DEFINE n == NoteSchedSlice(s)
            c == Charged(n)
            k == Chosen(c)
<1>0. s.cur \in Slots /\ 0 \in Slots /\ 1 \in Slots /\ Slots # {0}
  <2>1. 0 \in Slots /\ 1 \in Slots BY DEF Slots, M4_NVM_GUEST_SLOTS
  <2>. QED BY <2>1 DEF HostState
<1>1. IF n.phase = "probe" THEN t = n
      ELSE t \in IF k = c.cur THEN Vmresume(c) ELSE SwitchToSchedSlot(c, k)
  BY SliceCases
<1>2. /\ n \in HostState /\ Marks(s, n) /\ Vmcs(s, n) /\ Regs(s, n)
      /\ n.shadow = s.shadow /\ n.credits = s.credits /\ n.ladder = s.ladder
      /\ n.spaLaunched = s.spaLaunched /\ n.skipped = s.skipped
      /\ n.slice = s.slice \cup {s.cur} /\ ({0, 1} \subseteq n.slice => n.schedOk)
      /\ n.phase = IF n.slice = Slots /\ ~s.ladder THEN "probe" ELSE "sched"
  BY NoteDoes
<1>. HIDE DEF n
<1>3. /\ ~s.ladder /\ ~s.spaLaunched /\ ~s.spaRunnable /\ s.failed = {}
      /\ s.needsLaunch \subseteq {0} /\ Live(s, s.cur)
      /\ \A j \in Slots : j # s.cur => Fit(s, j)
      /\ 0 \notin s.slice => s.cur = 0 /\ s.slice = {}
      /\ s.slice # Slots /\ s.bad = {} /\ s.skipped = {}
  BY DEF Ladder, Healthy
<1>4. Live(n, n.cur) /\ n.cur = s.cur /\ \A j \in Slots : j # n.cur => Fit(n, j)
  BY <1>2, <1>3 DEF Live, Fit, Marks, Vmcs, Regs
<1>5. 0 \in n.slice /\ (n.slice = Slots => n.cur # 0) BY <1>0, <1>2, <1>3, <1>4
<1>6. CASE n.phase = "probe"
  <2>1. n.slice = Slots BY <1>2, <1>6
  <2>2. Fit(n, 0) /\ n.schedOk BY <1>0, <1>2, <1>4, <1>5, <2>1
  <2>3. Ladder(n) BY <1>2, <1>3, <1>6, <2>2 DEF Ladder, Marks
  <2>. QED BY <1>1, <1>2, <1>3, <1>6, <2>3 DEF Healthy, Vmcs
<1>7. CASE n.phase # "probe"
  <2>1. /\ c \in HostState /\ Marks(n, c) /\ Vmcs(n, c)
        /\ c.shadow = n.shadow /\ c.loaded = n.loaded /\ c.exact = n.exact
        /\ c.phase = n.phase /\ c.ladder = n.ladder
        /\ c.slice = n.slice /\ c.schedOk = n.schedOk
        /\ c.spaLaunched = n.spaLaunched /\ c.skipped = n.skipped
        /\ c.credits # <<>> /\ PickNextFair(c.credits, c.cur) \in Slots
        /\ n.loaded = n.cur /\ n.exact => n.cur \in c.bank
        /\ c.bank \cup {n.cur} = n.bank \cup {n.cur}
    BY <1>2, ChargedDoes
  <2>. HIDE DEF c
  <2>2. Live(c, c.cur) /\ c.cur = n.cur /\ c.cur \in c.bank
    BY <1>4, <2>1 DEF Live, Marks, Vmcs
  <2>3. \A j \in Slots : Fit(c, j)
    <3>1. Fit(c, c.cur) BY <2>2, LiveFits
    <3>2. ASSUME NEW j \in Slots, j # n.cur PROVE Fit(c, j)
      <4>1. Fit(n, j) BY <1>4, <3>2
      <4>2. SameGuest(n, c, j) BY <2>1, <3>2 DEF SameGuest, Marks, Vmcs
      <4>. QED BY <1>2, <4>1, <4>2, FitStays
    <3>. QED BY <2>2, <3>1, <3>2
  <2>4. /\ ~c.ladder /\ ~c.spaLaunched /\ ~c.spaRunnable /\ c.failed = {}
        /\ c.needsLaunch \subseteq {0} /\ c.bad = {} /\ c.skipped = {} /\ c.phase = "sched"
        /\ 0 \in c.slice /\ c.slice # Slots /\ ({0, 1} \subseteq c.slice => c.schedOk)
    BY <1>2, <1>3, <1>5, <1>7, <2>1 DEF Marks, Vmcs
  <2>5. k \in Slots BY <2>1, <2>4, NextSlotDoes DEF Chosen
  <2>. HIDE DEF k
  <2>6. ASSUME t \in HostState, Keeps(c, t), t.phase = "sched", t.bad = {},
               t.needsLaunch \subseteq {0}, t.failed = {}, Live(t, t.cur),
               \A j \in Slots : j # t.cur => Fit(t, j)
        PROVE  Healthy(t)
    <3>1. Ladder(t) BY <2>4, <2>6 DEF Ladder, Keeps
    <3>. QED BY <2>4, <2>6, <3>1 DEF Healthy, Keeps
  <2>7. CASE k = c.cur
    <3>1. t \in Vmresume(c) BY <1>1, <1>7, <2>7
    <3>2. t = Entered(c) BY <2>2, <3>1 DEF Vmresume, Live
    <3>3. /\ t \in HostState /\ Live(t, c.cur) /\ Frame(c, t) /\ Marks(c, t) /\ t.bad = c.bad
          /\ \A j \in Slots : j # c.cur => SameGuest(c, t, j)
      BY <2>1, <2>2, <2>5, <2>7, <3>2, EntryFits DEF Live
    <3>4. \A j \in Slots : j # c.cur => Fit(t, j) BY <2>1, <2>3, <3>3, FitStays
    <3>5. Keeps(c, t) /\ t.phase = "sched" BY <2>1, <2>4, <3>3, FrameKeeps
    <3>. QED BY <2>4, <2>6, <3>3, <3>4, <3>5 DEF Marks
  <2>8. CASE k # c.cur
    <3>1. t \in SwitchToSchedSlot(c, k) BY <1>1, <1>7, <2>8
    <3>2. Keeps(c, t) BY <2>1, <2>4, <2>5, <3>1, SwitchDoes
    <3>3. Fit(c, k) BY <2>3, <2>5
    <3>4. /\ t \in HostState /\ t.phase = "sched" /\ t.bad = {}
          /\ t.cur = k /\ Live(t, k) /\ t.failed = c.failed
          /\ t.needsLaunch \subseteq c.needsLaunch
          /\ \A j \in Slots : j # k /\ Fit(c, j) => Fit(t, j)
      BY <2>1, <2>4, <2>5, <3>1, <3>3, SwitchFits
    <3>. QED BY <2>3, <2>4, <2>6, <3>2, <3>4
  <2>. QED BY <2>7, <2>8
<1>. QED BY <1>6, <1>7

\* A preemption under coexist: G0 and slot 1 continue, each in its turn; a refused
\* slot 1 is parked and G0 continues.
LEMMA SliceCoexist ==
    ASSUME NEW s \in HostState, s.credits # <<>>, s.cur \in {0, 1},
           Healthy(s), Coexist(s), NEW t \in SliceAndSwitch(s)
    PROVE  Healthy(t)
<1>. DEFINE n == NoteSchedSlice(s)
            c == Charged(n)
            k == Chosen(c)
<1>0. 0 \in Slots /\ 1 \in Slots BY DEF Slots, M4_NVM_GUEST_SLOTS
<1>1. IF n.phase = "probe" THEN t = n
      ELSE t \in IF k = c.cur THEN Vmresume(c) ELSE SwitchToSchedSlot(c, k)
  BY SliceCases
<1>2. /\ s.ladder /\ s.phase = "sched" /\ Live(s, s.cur)
      /\ s.failed \subseteq {1} /\ (1 \in s.failed => ~s.spaRunnable)
      /\ s.spaRunnable => s.spaLaunched
      /\ ~s.spaLaunched => 1 \notin s.failed /\ 1 \notin s.needsLaunch
      /\ s.cur = 1 => s.spaLaunched /\ 1 \notin s.failed /\ Fit(s, 0)
      /\ s.cur = 0 /\ s.spaLaunched /\ 1 \notin s.failed => Fit(s, 1)
      /\ s.bad = {} /\ s.skipped = {}
  BY DEF Coexist, Healthy
<1>3. /\ n \in HostState /\ Marks(s, n) /\ Vmcs(s, n) /\ Regs(s, n)
      /\ n.shadow = s.shadow /\ n.credits = s.credits /\ n.ladder = s.ladder
      /\ n.spaLaunched = s.spaLaunched /\ n.skipped = s.skipped
      /\ n.phase = "sched"
  BY <1>2, NoteDoes
<1>. HIDE DEF n
<1>4. /\ c \in HostState /\ Marks(n, c) /\ Vmcs(n, c)
      /\ c.shadow = n.shadow /\ c.loaded = n.loaded /\ c.exact = n.exact
      /\ c.phase = n.phase /\ c.ladder = n.ladder
      /\ c.spaLaunched = n.spaLaunched /\ c.skipped = n.skipped
      /\ c.credits # <<>> /\ PickNextFair(c.credits, c.cur) \in Slots
      /\ n.loaded = n.cur /\ n.exact => n.cur \in c.bank
      /\ c.bank \cup {n.cur} = n.bank \cup {n.cur}
  BY <1>3, ChargedDoes
<1>. HIDE DEF c
<1>5. Live(c, c.cur) /\ c.cur = s.cur /\ c.cur \in c.bank
  BY <1>2, <1>3, <1>4 DEF Live, Marks, Vmcs, Regs
<1>6. Fit(c, c.cur) BY <1>5, LiveFits
<1>7. \A j \in Slots : j # s.cur /\ Fit(s, j) => Fit(c, j)
  <2>1. ASSUME NEW j \in Slots, j # s.cur PROVE SameGuest(s, c, j)
    BY <1>3, <1>4, <2>1 DEF SameGuest, Marks, Vmcs, Regs
  <2>. QED BY <2>1, FitStays
<1>8. /\ c.ladder /\ c.phase = "sched" /\ c.bad = {} /\ c.skipped = {}
      /\ c.failed = s.failed /\ c.spaRunnable = s.spaRunnable /\ c.spaLaunched = s.spaLaunched
      /\ c.ptr = c.cur /\ c.fields[c.cur] = "own" /\ c.cur \notin c.needsLaunch
      /\ c.loaded = c.cur /\ c.exact /\ c.ptr \in c.launched
  BY <1>2, <1>3, <1>4, <1>5 DEF Marks, Vmcs, Live
<1>9. k \in {0, 1} /\ (k = 1 => c.spaRunnable /\ 1 \notin c.failed)
  BY <1>2, <1>4, <1>5, <1>8, NextSlotDoes DEF Chosen
<1>. HIDE DEF k
<1>10. ASSUME t \in HostState, Keeps(c, t), t.phase = "sched", t.bad = {},
              t.cur \in {0, 1}, Live(t, t.cur),
              t.failed \subseteq {1}, 1 \in t.failed => ~t.spaRunnable,
              ~t.spaLaunched => 1 \notin t.failed /\ 1 \notin t.needsLaunch,
              t.cur = 1 => t.spaLaunched /\ 1 \notin t.failed /\ Fit(t, 0),
              t.cur = 0 /\ t.spaLaunched /\ 1 \notin t.failed => Fit(t, 1)
       PROVE  Healthy(t)
  <2>1. Coexist(t) BY <1>2, <1>8, <1>10 DEF Coexist, Keeps
  <2>. QED BY <1>8, <1>10, <2>1 DEF Healthy, Keeps
<1>11. CASE k = c.cur
  <2>1. t \in Vmresume(c) BY <1>1, <1>3, <1>11
  <2>2. t = Entered(c) BY <1>8, <2>1 DEF Vmresume
  <2>3. /\ t \in HostState /\ Live(t, c.cur) /\ Frame(c, t) /\ Marks(c, t) /\ t.bad = c.bad
        /\ \A j \in Slots : j # c.cur => SameGuest(c, t, j)
    BY <1>0, <1>4, <1>8, <1>9, <1>11, <2>2, EntryFits
  <2>4. \A j \in Slots : j # c.cur /\ Fit(c, j) => Fit(t, j) BY <1>4, <2>3, FitStays
  <2>5. Keeps(c, t) /\ t.phase = "sched" BY <1>4, <1>8, <2>3, FrameKeeps
  <2>6. /\ t.cur = s.cur /\ t.failed = s.failed /\ t.spaRunnable = s.spaRunnable
        /\ t.spaLaunched = s.spaLaunched /\ t.needsLaunch = s.needsLaunch
    BY <1>3, <1>4, <1>5, <1>8, <2>3 DEF Frame, Marks
  <2>. QED BY <1>0, <1>2, <1>5, <1>7, <1>8, <1>10, <2>3, <2>4, <2>5, <2>6
<1>12. CASE k # c.cur
  <2>1. t \in SwitchToSchedSlot(c, k) BY <1>1, <1>3, <1>12
  <2>2. Keeps(c, t) BY <1>0, <1>4, <1>8, <1>9, <2>1, SwitchDoes
  <2>3. Fit(c, 0) /\ (k = 1 => Fit(c, 1) /\ c.spaLaunched)
    BY <1>0, <1>2, <1>5, <1>6, <1>7, <1>8, <1>9, <1>12
  <2>4. Fit(c, k) BY <1>9, <2>3
  <2>5. /\ t \in HostState /\ t.phase = "sched" /\ t.bad = {}
        /\ \/ /\ t.cur = k /\ Live(t, k)
              /\ t.failed = c.failed /\ t.spaRunnable = c.spaRunnable
              /\ \A j \in Slots : j # k /\ Fit(c, j) => Fit(t, j)
           \/ /\ k = 1 /\ t.cur = 0 /\ Live(t, 0)
              /\ t.failed = c.failed \cup {1} /\ ~t.spaRunnable
    <3>1. k \in Slots BY <1>0, <1>9
    <3>2. c.ladder /\ c.spaLaunched /\ c.cur # k =>
               c.cur \in {0, 1} /\ c.ptr = c.cur /\ c.fields[c.cur] = "own"
      BY <1>5, <1>8
    <3>3. k = 1 /\ 1 \in c.needsLaunch =>
               c.ladder /\ c.spaLaunched /\ c.cur = 0 /\ Fit(c, 0)
      BY <1>5, <1>8, <1>12, <2>3
    <3>. QED BY <1>4, <1>8, <2>1, <2>4, <3>1, <3>2, <3>3, SwitchFits
  <2>6. t.spaLaunched = s.spaLaunched /\ s.spaLaunched
    BY <1>2, <1>5, <1>8, <1>9, <1>12, <2>2 DEF Keeps
  <2>7. CASE t.cur = k /\ t.failed = c.failed
    <3>1. k = 1 => t.spaLaunched /\ 1 \notin t.failed /\ Fit(t, 0)
      BY <1>0, <1>8, <1>9, <2>3, <2>5, <2>6, <2>7
    <3>2. k = 0 => Fit(t, 1)
      BY <1>0, <1>5, <1>6, <1>9, <1>12, <2>5, <2>7, <1>8
    <3>. QED BY <1>0, <1>2, <1>8, <1>9, <1>10, <2>2, <2>5, <2>6, <2>7, <3>1, <3>2
  <2>8. CASE t.cur = 0 /\ t.failed = c.failed \cup {1} /\ ~t.spaRunnable /\ Live(t, 0)
    BY <1>2, <1>8, <1>10, <2>2, <2>5, <2>6, <2>8
  <2>. QED BY <2>5, <2>7, <2>8
<1>. QED BY <1>11, <1>12

-----------------------------------------------------------------------------
(* The SPA guest *)

\* launch_spa_private_ept, up to the VM entry.
SpaReady(r) ==
    [SetupVmcs(r, 1) EXCEPT
        !.credits = IF Len(@) < 2 THEN RegisterVcpu(@, DEFAULT_CREDIT) ELSE @,
        !.spaLaunched = TRUE, !.spaRunnable = TRUE, !.cur = 1,
        !.loaded = 1, !.exact = TRUE, !.bank = @ \cup {1},
        !.shadow[1] = "own"]

SpaRefused(q) == [q EXCEPT !.spaLaunched = FALSE, !.spaRunnable = FALSE, !.faulty = TRUE]

\* The paths through launch_spa_private_ept: slot 1 is entered, or refused and left.
LEMMA LaunchSpaCases ==
    ASSUME NEW s, NEW t \in LaunchSpaPrivateEpt(s)
    PROVE  \E r \in RelocateG0Vmcs(s) :
               \/ t = Entered(SpaReady(r))
               \/ t \in SwitchToSchedSlot(SpaRefused(SpaReady(r)), 0)
<1>. DEFINE Launch(q) == {Entered(q)} \cup
                         (IF "entry" \in faults THEN SwitchToSchedSlot(SpaRefused(q), 0) ELSE {})
            R == {SpaReady(r) : r \in RelocateG0Vmcs(s)}
<1>1. LaunchSpaPrivateEpt(s) = Then(R, Launch)
  BY DEF LaunchSpaPrivateEpt, SpaReady, SpaRefused
<1>2. PICK q \in R : t \in Launch(q)
  <2>. HIDE DEF R, Launch
  <2>. QED BY <1>1 DEF Then
<1>. QED BY <1>2

\* register_vcpu adds slot 1 to the scheduler at most once.
LEMMA RegisterDoes ==
    ASSUME NEW c \in CreditStates
    PROVE  LET d == IF Len(c) < 2 THEN RegisterVcpu(c, DEFAULT_CREDIT) ELSE c
           IN  d \in CreditStates /\ (c # <<>> \/ Len(c) < 2 => d # <<>>)
<1>. DEFINE e == RegisterVcpu(c, DEFAULT_CREDIT)
<1>1. c \in Seq(Credits) /\ Len(c) \in 0 .. 4 BY CreditSeq DEF M4_NVM_GUEST_SLOTS
<1>2. CASE Len(c) < 2
  <2>1. e = Append(c, DEFAULT_CREDIT) BY <1>1, <1>2 DEF RegisterVcpu, MaxVcpus
  <2>2. e \in Seq(Credits) /\ Len(e) = Len(c) + 1 BY <1>1, <2>1 DEF Credits
  <2>3. Len(e) \in 0 .. M4_NVM_GUEST_SLOTS /\ e # <<>>
    BY <1>1, <1>2, <2>2, EmptySeq DEF M4_NVM_GUEST_SLOTS
  <2>. HIDE DEF e
  <2>4. e \in CreditStates BY <2>2, <2>3, CreditSeq
  <2>. QED BY <1>2, <2>3, <2>4 DEF e
<1>3. CASE ~(Len(c) < 2) BY <1>3
<1>. QED BY <1>2, <1>3

\* Slot 1 is ready to be entered, and G0 as able to continue as before.
LEMMA SpaReadyDoes ==
    ASSUME NEW r \in HostState, r.credits # <<>>
    PROVE  LET q == SpaReady(r)
           IN  /\ q \in HostState /\ q.phase = r.phase /\ q.armed = r.armed
               /\ q.ladder = r.ladder /\ q.skipped = r.skipped /\ q.faulty = r.faulty
               /\ q.credits # <<>> /\ q.spaLaunched /\ q.spaRunnable
               /\ q.cur = 1 /\ q.ptr = 1 /\ q.loaded = 1 /\ q.exact /\ q.fields[1] = "own"
               /\ q.needsLaunch = r.needsLaunch /\ q.failed = r.failed
               /\ q.bad \subseteq r.bad
               /\ SameGuest(r, q, 0)
<1>. DEFINE v == SetupVmcs(r, 1)
            cr == IF Len(v.credits) < 2 THEN RegisterVcpu(v.credits, DEFAULT_CREDIT) ELSE v.credits
            q == [v EXCEPT
                    !.credits = cr,
                    !.spaLaunched = TRUE, !.spaRunnable = TRUE, !.cur = 1,
                    !.loaded = 1, !.exact = TRUE, !.bank = @ \cup {1},
                    !.shadow[1] = "own"]
<1>0. 0 \in Slots /\ 1 \in Slots /\ 0 # 1 BY DEF Slots, M4_NVM_GUEST_SLOTS
<1>1. SpaReady(r) = q BY DEF SpaReady
<1>2. /\ v \in HostState /\ Quiet(r, v) /\ v.phase = r.phase /\ v.skipped = r.skipped
      /\ v.bank = r.bank /\ v.bad \subseteq r.bad /\ v.needsLaunch = r.needsLaunch
      /\ v.ptr = 1 /\ v.fields[1] = "own" /\ v.shadow = r.shadow
      /\ SameGuest(r, v, 0)
  <2>1. \A k \in Slots : LET w == SetupVmcs(r, k)
           IN  /\ w \in HostState /\ Quiet(r, w) /\ w.phase = r.phase /\ w.skipped = r.skipped
               /\ w.bank = r.bank /\ w.bad \subseteq r.bad /\ w.needsLaunch = r.needsLaunch
               /\ w.ptr = k /\ w.fields[k] = "own" /\ w.shadow = r.shadow
               /\ \A j \in Slots : j # k => SameGuest(r, w, j)
    BY SetupDoes
  <2>. QED BY <1>0, <2>1
<1>. HIDE DEF v
<1>3. cr \in CreditStates /\ cr # <<>>
  <2>1. v.credits \in CreditStates /\ v.credits # <<>> BY <1>2 DEF HostState, Quiet
  <2>. DEFINE vc == v.credits
  <2>. HIDE DEF vc
  <2>2. vc \in CreditStates /\ vc # <<>> BY <2>1 DEF vc
  <2>3. LET d == IF Len(vc) < 2 THEN RegisterVcpu(vc, DEFAULT_CREDIT) ELSE vc
        IN  d \in CreditStates /\ (vc # <<>> \/ Len(vc) < 2 => d # <<>>)
    BY <2>2, RegisterDoes
  <2>. QED BY <2>2, <2>3 DEF vc
<1>. HIDE DEF cr
<1>4. /\ q \in HostState /\ q.phase = v.phase /\ q.armed = v.armed
      /\ q.ladder = v.ladder /\ q.skipped = v.skipped /\ q.faulty = v.faulty
      /\ q.credits = cr /\ q.spaLaunched /\ q.spaRunnable
      /\ q.cur = 1 /\ q.ptr = v.ptr /\ q.loaded = 1 /\ q.exact /\ q.fields = v.fields
      /\ q.needsLaunch = v.needsLaunch /\ q.failed = v.failed
      /\ q.bad = v.bad /\ q.launched = v.launched
      /\ q.bank = v.bank \cup {1} /\ q.shadow[0] = v.shadow[0]
  BY <1>0, <1>2, <1>3, ZenonT(60) DEF HostState
<1>. HIDE DEF q
<1>5. SameGuest(r, q, 0) BY <1>2, <1>4 DEF SameGuest
<1>. QED BY <1>1, <1>2, <1>3, <1>4, <1>5 DEF Quiet

\* The entry of slot 1 is refused: it is taken back before G0 is switched to.
LEMMA SpaRefusedDoes ==
    ASSUME NEW q \in HostState
    PROVE  LET x == SpaRefused(q)
           IN  /\ x \in HostState /\ x.phase = q.phase /\ x.armed = q.armed
               /\ x.ladder = q.ladder /\ x.skipped = q.skipped /\ x.faulty
               /\ x.credits = q.credits /\ ~x.spaLaunched /\ ~x.spaRunnable
               /\ x.cur = q.cur /\ x.ptr = q.ptr
               /\ x.needsLaunch = q.needsLaunch /\ x.failed = q.failed /\ x.bad = q.bad
               /\ SameGuest(q, x, 0)
<1>. DEFINE x == SpaRefused(q)
<1>1. /\ x \in HostState /\ x.phase = q.phase /\ x.armed = q.armed
      /\ x.ladder = q.ladder /\ x.skipped = q.skipped /\ x.faulty
      /\ x.credits = q.credits /\ ~x.spaLaunched /\ ~x.spaRunnable
      /\ x.cur = q.cur /\ x.ptr = q.ptr
      /\ x.needsLaunch = q.needsLaunch /\ x.failed = q.failed /\ x.bad = q.bad
      /\ x.bank = q.bank /\ x.launched = q.launched /\ x.fields = q.fields
      /\ x.shadow = q.shadow
  BY DEF SpaRefused, HostState
<1>. HIDE DEF x
<1>2. SameGuest(q, x, 0) BY <1>1 DEF SameGuest
<1>. QED BY <1>1, <1>2 DEF x

\* launch_spa_private_ept: from any coexist state slot 1 runs and is runnable, or
\* G0 is back; from a healthy one, where they left off.
LEMMA LaunchSpaDoes ==
    ASSUME NEW s \in HostState, s.phase = "sched", s.ladder, s.credits # <<>>,
           NEW t \in LaunchSpaPrivateEpt(s)
    PROVE  /\ Sane(t) /\ Grows(s, t)
           /\ Healthy(s) /\ Coexist(s) /\ s.cur = 0 /\ 0 \in s.bank /\ ~s.spaLaunched
                => Healthy(t)
<1>0. 0 \in Slots /\ 1 \in Slots /\ 0 # 1 BY DEF Slots, M4_NVM_GUEST_SLOTS
<1>1. PICK r \in RelocateG0Vmcs(s) :
          \/ t = Entered(SpaReady(r))
          \/ t \in SwitchToSchedSlot(SpaRefused(SpaReady(r)), 0)
  BY LaunchSpaCases
<1>. DEFINE q == SpaReady(r)
            x == SpaRefused(q)
<1>2. /\ r \in HostState /\ Quiet(s, r) /\ r.phase = s.phase /\ r.skipped = s.skipped
      /\ r.bank = s.bank /\ r.bad \subseteq s.bad
      /\ r.needsLaunch \subseteq s.needsLaunch \cup {0}
      /\ s.ptr = 0 /\ Fit(s, 0) /\ s.fields[0] = "own" => Fit(r, 0)
  BY RelocateDoes
<1>3. /\ q \in HostState /\ q.phase = "sched"
      /\ q.ladder /\ q.skipped = s.skipped /\ q.faulty = s.faulty
      /\ q.credits # <<>> /\ q.spaLaunched /\ q.spaRunnable
      /\ q.cur = 1 /\ q.ptr = 1 /\ q.loaded = 1 /\ q.exact /\ q.fields[1] = "own"
      /\ q.needsLaunch = r.needsLaunch /\ q.failed = s.failed
      /\ q.bad \subseteq s.bad
      /\ SameGuest(r, q, 0)
  BY <1>2, SpaReadyDoes DEF Quiet
<1>. HIDE DEF q
<1>4. /\ x \in HostState /\ x.phase = "sched"
      /\ x.ladder /\ x.skipped = s.skipped /\ x.faulty
      /\ x.credits # <<>> /\ ~x.spaLaunched /\ ~x.spaRunnable
      /\ x.cur = 1 /\ x.ptr = 1
      /\ x.needsLaunch = r.needsLaunch /\ x.failed = s.failed /\ x.bad \subseteq s.bad
      /\ SameGuest(q, x, 0)
  BY <1>3, SpaRefusedDoes
<1>. HIDE DEF x
<1>5. ASSUME Healthy(s), Coexist(s), s.cur = 0, 0 \in s.bank, ~s.spaLaunched
      PROVE  /\ Fit(q, 0) /\ Fit(x, 0) /\ s.bad = {} /\ s.skipped = {} /\ s.failed = {}
             /\ 1 \notin r.needsLaunch
  <2>1. Live(s, 0) /\ s.failed = {} /\ 1 \notin s.needsLaunch BY <1>5 DEF Coexist
  <2>2. Fit(s, 0) /\ s.ptr = 0 /\ s.fields[0] = "own" BY <1>5, <2>1, LiveFits DEF Live
  <2>3. Fit(r, 0) BY <1>2, <2>2
  <2>4. Fit(q, 0) /\ Fit(x, 0) BY <1>2, <1>3, <1>4, <2>3, FitStays
  <2>. QED BY <1>0, <1>2, <1>5, <2>1, <2>4 DEF Healthy
<1>6. CASE t = Entered(q)
  <2>1. /\ t \in HostState /\ Frame(q, t) /\ Marks(q, t) /\ t.ptr = 1 /\ t.bad = q.bad
    BY <1>0, <1>3, <1>6, EnteredDoes
  <2>2. Sane(t) /\ Grows(s, t) BY <1>3, <2>1 DEF Sane, Grows, Frame, Marks
  <2>3. ASSUME Healthy(s), Coexist(s), s.cur = 0, 0 \in s.bank, ~s.spaLaunched
        PROVE  Healthy(t)
    <3>1. Live(t, 1) /\ SameGuest(q, t, 0)
      BY <1>0, <1>3, <1>5, <1>6, <2>3, EntryFits
    <3>2. Fit(t, 0) BY <1>3, <1>5, <2>3, <3>1, FitStays
    <3>3. /\ t.ladder /\ t.phase = "sched" /\ t.cur = 1 /\ t.failed = {} /\ t.spaLaunched
          /\ t.bad = {} /\ t.skipped = {}
      BY <1>3, <1>5, <2>1, <2>3 DEF Frame, Marks
    <3>4. Coexist(t) BY <3>1, <3>2, <3>3 DEF Coexist
    <3>. QED BY <3>3, <3>4 DEF Healthy
  <2>. QED BY <2>2, <2>3
<1>7. CASE t \in SwitchToSchedSlot(x, 0)
  <2>1. /\ Keeps(x, t) /\ t.cur \in {0, 1}
        /\ t.phase = "sched" /\ 0 \notin t.failed => t.ptr = 0
    BY <1>0, <1>4, <1>7, SwitchDoes
  <2>2. Sane(t) /\ Grows(s, t) BY <1>0, <1>4, <2>1 DEF Sane, Grows, Keeps
  <2>3. ASSUME Healthy(s), Coexist(s), s.cur = 0, 0 \in s.bank, ~s.spaLaunched
        PROVE  Healthy(t)
    <3>1. /\ t \in HostState /\ t.phase = "sched" /\ t.bad = {} /\ t.cur = 0 /\ Live(t, 0)
          /\ t.failed = x.failed /\ t.spaRunnable = x.spaRunnable
          /\ t.needsLaunch \subseteq x.needsLaunch
      <4>1. Fit(x, 0) /\ x.bad = {} BY <1>4, <1>5, <2>3
      <4>. QED BY <1>0, <1>4, <1>7, <4>1, SwitchFits
    <3>2. t.ladder /\ ~t.spaLaunched /\ t.skipped = {}
      BY <1>4, <1>5, <2>1, <2>3 DEF Keeps
    <3>3. Coexist(t) BY <1>0, <1>4, <1>5, <2>3, <3>1, <3>2 DEF Coexist
    <3>. QED BY <3>1, <3>2, <3>3 DEF Healthy
  <2>. QED BY <2>2, <2>3
<1>. QED BY <1>1, <1>6, <1>7 DEF q, x

\* try_spa_vmlaunch, whether or not a start is pending.
LEMMA TrySpaDoes ==
    ASSUME NEW s \in HostState, s.phase = "sched", s.credits # <<>>,
           s.ladder => s.cur \in {0, 1},
           s.ladder /\ s.ptr = 1 /\ 0 \notin s.failed => s.cur = 1,
           NEW pending \in BOOLEAN, NEW t \in TrySpaVmlaunch(s, pending)
    PROVE  Sane(t) /\ Grows(s, t) /\ (Healthy(s) => Healthy(t))
<1>. DEFINE g == SaveGprs(s, s.cur)
            run == s.spaRunnable \/ 1 \notin s.failed
            u == [s EXCEPT !.spaRunnable = run]
<1>0. s.cur \in Slots BY DEF HostState
<1>1. \/ t \in SliceAndSwitch(s)
      \/ s.ladder /\ ~s.spaLaunched /\ t \in LaunchSpaPrivateEpt(g)
      \/ s.ladder /\ s.spaLaunched /\ t \in SliceAndSwitch(u)
  BY DEF TrySpaVmlaunch, Then
<1>2. CASE t \in SliceAndSwitch(s)
  <2>1. Sane(t) /\ Grows(s, t) BY <1>2, SliceSane
  <2>2. Healthy(s) => Healthy(t)
    <3>1. Healthy(s) => Ladder(s) \/ Coexist(s) BY DEF Healthy
    <3>2. Coexist(s) => s.cur \in {0, 1} BY DEF Coexist
    <3>. QED BY <1>2, <3>1, <3>2, SliceLadder, SliceCoexist
  <2>. QED BY <2>1, <2>2
<1>3. CASE s.ladder /\ ~s.spaLaunched /\ t \in LaunchSpaPrivateEpt(g)
  <2>1. /\ g \in HostState /\ Frame(s, g) /\ Marks(s, g) /\ Vmcs(s, g)
        /\ g.shadow = s.shadow /\ g.loaded = s.loaded /\ g.exact = s.exact
        /\ s.loaded = s.cur /\ s.exact => s.cur \in g.bank
    BY <1>0, SaveDoes
  <2>. HIDE DEF g
  <2>2. Sane(t) /\ Grows(g, t) BY <1>3, <2>1, LaunchSpaDoes DEF Frame
  <2>3. ASSUME Healthy(s) PROVE Healthy(t)
    <3>1. Coexist(s) BY <1>3, <2>3 DEF Healthy, Ladder
    <3>2. s.cur = 0 /\ Live(s, 0) BY <1>3, <3>1 DEF Coexist
    <3>3. 0 \in g.bank /\ Live(g, 0) BY <2>1, <3>2 DEF Live, Marks, Vmcs
    <3>4. Coexist(g) BY <1>3, <2>1, <3>1, <3>2, <3>3 DEF Coexist, Frame, Marks
    <3>5. Healthy(g) BY <2>1, <2>3, <3>4 DEF Healthy, Frame, Vmcs
    <3>. QED BY <1>3, <2>1, <3>2, <3>3, <3>4, <3>5, LaunchSpaDoes DEF Frame, Marks
  <2>4. Grows(s, t) BY <2>1, <2>2 DEF Grows, Frame, Marks
  <2>. QED BY <2>2, <2>3, <2>4
<1>4. CASE s.ladder /\ s.spaLaunched /\ t \in SliceAndSwitch(u)
  <2>1. run \in BOOLEAN /\ (run /\ ~s.spaRunnable => 1 \notin s.failed) OBVIOUS
  <2>. HIDE DEF run
  <2>2. /\ u \in HostState /\ u.phase = s.phase /\ u.credits = s.credits /\ u.cur = s.cur
        /\ u.ladder = s.ladder /\ u.ptr = s.ptr /\ u.failed = s.failed
        /\ u.faulty = s.faulty /\ u.skipped = s.skipped /\ u.bad = s.bad
        /\ u.spaLaunched = s.spaLaunched /\ u.loaded = s.loaded /\ u.exact = s.exact
        /\ u.fields = s.fields /\ u.launched = s.launched /\ u.needsLaunch = s.needsLaunch
        /\ u.bank = s.bank /\ u.shadow = s.shadow
        /\ u.spaRunnable /\ ~s.spaRunnable => 1 \notin s.failed
    BY <2>1 DEF HostState
  <2>. HIDE DEF u
  <2>3. Sane(t) /\ Grows(u, t) BY <1>4, <2>2, SliceSane
  <2>4. ASSUME Healthy(s) PROVE Healthy(t)
    <3>1. Coexist(s) BY <1>4, <2>4 DEF Healthy, Ladder
    <3>2. Live(u, u.cur) BY <2>2, <3>1 DEF Coexist, Live
    <3>3. \A j \in {0, 1} : Fit(s, j) => Fit(u, j) BY <2>2 DEF Fit
    <3>4. Coexist(u) BY <1>4, <2>2, <3>1, <3>2, <3>3 DEF Coexist
    <3>5. Healthy(u) BY <2>2, <2>4, <3>4 DEF Healthy
    <3>. QED BY <1>4, <2>2, <3>4, <3>5, SliceCoexist
  <2>. QED BY <2>2, <2>3, <2>4 DEF Grows
<1>. QED BY <1>1, <1>2, <1>3, <1>4

-----------------------------------------------------------------------------
(* From the shells to the scheduler *)

FullCredits == [i \in 1 .. SHELL_SLOT_MAX + 1 |-> DEFAULT_CREDIT]

\* The last shell's quantum is spent; G0 is the first to be picked.
LEMMA FirstPick ==
    LET c == ConsumeQuantum(FullCredits, 3)
    IN  c \in CreditStates /\ c # <<>> /\ PickNextFair(c, 3) = 0
<1>. DEFINE c == ConsumeQuantum(FullCredits, 3)
            spent == [FullCredits EXCEPT ![4] = 0]
<1>0. 3 \in Slots /\ SHELL_SLOT_MAX + 1 = 4 BY DEF Slots, M4_NVM_GUEST_SLOTS, SHELL_SLOT_MAX
<1>1. FullCredits \in [1 .. 4 -> Credits] /\ \A i \in 1 .. 4 : FullCredits[i] = 10
  BY <1>0 DEF FullCredits, Credits, DEFAULT_CREDIT
<1>2. FullCredits \in Seq(Credits) /\ Len(FullCredits) = 4
  <2>. DEFINE n == 4
              f == FullCredits
  <2>1. n \in Nat /\ f \in [1 .. n -> Credits] BY <1>1
  <2>. HIDE DEF n, f
  <2>2. f \in Seq(Credits) /\ Len(f) = n BY <2>1
  <2>. QED BY <2>2 DEF f, n
<1>3. FullCredits \in CreditStates /\ FullCredits # <<>>
  <2>1. Len(FullCredits) \in 0 .. M4_NVM_GUEST_SLOTS BY <1>2 DEF M4_NVM_GUEST_SLOTS
  <2>2. FullCredits \in CreditStates BY <1>2, <2>1, CreditSeq
  <2>3. Len(<<>>) = 0 /\ 4 # 0 BY EmptySeq
  <2>4. FullCredits # <<>> BY <1>2, <2>3, Zenon
  <2>. QED BY <2>2, <2>4
<1>4. c \in CreditStates /\ c # <<>> /\ Len(c) = 4 /\ Runnable(c) # {}
  BY <1>0, <1>2, <1>3, ConsumeDoes
<1>5. c = spent
  <2>1. 3 \in Vcpus(FullCredits) /\ 3 + 1 = 4 BY <1>2 DEF Vcpus
  <2>2. spent[1] = 10 /\ 1 \in DOMAIN spent BY <1>1
  <2>. HIDE DEF spent
  <2>. QED BY <2>1, <2>2 DEF ConsumeQuantum, spent
<1>6. c[1] = 10 BY <1>1, <1>5
<1>. HIDE DEF c
<1>7. 0 \in Runnable(c)
  <2>1. 0 \in Vcpus(c) BY <1>4 DEF Vcpus
  <2>2. Credit(c, 0) = 10 BY <1>6 DEF Credit
  <2>. QED BY <2>1, <2>2 DEF Runnable
<1>8. PickNextFair(c, 3) = 0 BY <1>0, <1>4, <1>7, PickDoes
<1>. QED BY <1>4, <1>8 DEF c

\* enter_sched_mode_from_shell, after the last shell: G0 continues first.
LEMMA EnterSchedDoes ==
    ASSUME NEW r \in HostState, ~r.ladder, NEW t \in EnterSchedModeFromShell(r, 3)
    PROVE  /\ Sane(t) /\ Grows(r, t)
           /\ /\ r.bad = {} /\ r.skipped = {} /\ r.slice = {} /\ r.failed = {}
              /\ ~r.spaLaunched /\ ~r.spaRunnable /\ r.needsLaunch \subseteq {0}
              /\ Live(r, 3) /\ \A j \in 0 .. 2 : Fit(r, j)
              => Healthy(t)
<1>. DEFINE cr == ConsumeQuantum(FullCredits, 3)
            b == [r EXCEPT !.phase = "sched", !.cur = 3, !.credits = cr]
            a == SaveGprs(b, 3)
            Next1(w) == LET next == PickNextFair(w.credits, 3)
                        IN  SwitchToSchedSlot(w, IF next = 0 /\ 0 \in w.failed THEN 3 ELSE next)
            k == IF 0 \in a.failed THEN 3 ELSE 0
<1>0. 0 \in Slots /\ 3 \in Slots /\ Slots = 0 .. 3 BY DEF Slots, M4_NVM_GUEST_SLOTS
<1>1. cr \in CreditStates /\ cr # <<>> /\ PickNextFair(cr, 3) = 0 BY FirstPick
<1>2. EnterSchedModeFromShell(r, 3) = Then({a}, Next1)
  BY DEF EnterSchedModeFromShell, FullCredits
<1>. HIDE DEF cr
<1>3. /\ b \in HostState /\ b.phase = "sched" /\ b.cur = 3 /\ b.credits = cr
      /\ b.ladder = r.ladder /\ b.skipped = r.skipped /\ b.faulty = r.faulty
      /\ b.failed = r.failed /\ b.slice = r.slice /\ b.spaLaunched = r.spaLaunched
      /\ b.spaRunnable = r.spaRunnable /\ b.needsLaunch = r.needsLaunch /\ b.bad = r.bad
      /\ b.ptr = r.ptr /\ b.loaded = r.loaded /\ b.exact = r.exact /\ b.fields = r.fields
      /\ b.launched = r.launched /\ b.bank = r.bank /\ b.shadow = r.shadow
  <2>1. "sched" \in Phases BY DEF Phases
  <2>2. b \in HostState BY <1>0, <1>1, <2>1, SMTT(30) DEF HostState
  <2>3. DOMAIN r = {"phase", "armed", "cur", "credits", "ladder", "slice", "schedOk", "twoVm",
                    "spaLaunched", "spaRunnable", "reloc", "needsLaunch", "failed", "ptr",
                    "launched", "fields", "shadow", "bank", "loaded", "exact", "bad", "skipped",
                    "faulty"}
    BY DEF HostState
  <2>4. b.phase = "sched" /\ b.cur = 3 /\ b.credits = cr BY <2>3
  <2>5. b.ladder = r.ladder /\ b.skipped = r.skipped /\ b.faulty = r.faulty OBVIOUS
  <2>6. b.failed = r.failed /\ b.slice = r.slice /\ b.spaLaunched = r.spaLaunched OBVIOUS
  <2>7. b.spaRunnable = r.spaRunnable /\ b.needsLaunch = r.needsLaunch /\ b.bad = r.bad OBVIOUS
  <2>8. b.ptr = r.ptr /\ b.loaded = r.loaded /\ b.exact = r.exact /\ b.fields = r.fields OBVIOUS
  <2>9. b.launched = r.launched /\ b.bank = r.bank /\ b.shadow = r.shadow OBVIOUS
  <2>. HIDE DEF b
  <2>. QED BY <2>2, <2>4, <2>5, <2>6, <2>7, <2>8, <2>9
<1>. HIDE DEF b
<1>4. /\ a \in HostState /\ Frame(b, a) /\ Marks(b, a) /\ Vmcs(b, a)
      /\ a.shadow = b.shadow /\ a.loaded = b.loaded /\ a.exact = b.exact
      /\ b.loaded = 3 /\ b.exact => 3 \in a.bank
      /\ a.bank \cup {3} = b.bank \cup {3}
  BY <1>0, <1>3, SaveDoes
<1>. HIDE DEF a
<1>5. /\ a.phase = "sched" /\ a.cur = 3 /\ a.credits = cr /\ ~a.ladder
      /\ a.skipped = r.skipped /\ a.faulty = r.faulty
      /\ a.failed = r.failed /\ a.slice = r.slice /\ a.spaLaunched = r.spaLaunched
      /\ a.spaRunnable = r.spaRunnable /\ a.needsLaunch = r.needsLaunch /\ a.bad = r.bad
      /\ a.ptr = r.ptr /\ a.loaded = r.loaded /\ a.exact = r.exact /\ a.fields = r.fields
      /\ a.launched = r.launched /\ a.shadow = r.shadow
  BY <1>3, <1>4 DEF Frame, Marks, Vmcs
<1>6. t \in SwitchToSchedSlot(a, k)
  <2>1. t \in Next1(a)
    <3>. HIDE DEF Next1
    <3>. QED BY <1>2 DEF Then
  <2>. QED BY <1>1, <1>5, <2>1
<1>7. k \in Slots BY <1>0
<1>. HIDE DEF k
<1>8. Keeps(a, t) BY <1>4, <1>5, <1>6, <1>7, SwitchDoes
<1>9. Sane(t) /\ Grows(r, t) BY <1>1, <1>5, <1>8 DEF Sane, Grows, Keeps
<1>10. ASSUME r.bad = {}, r.skipped = {}, r.slice = {}, r.failed = {},
              ~r.spaLaunched, ~r.spaRunnable, r.needsLaunch \subseteq {0},
              Live(r, 3), \A j \in 0 .. 2 : Fit(r, j)
       PROVE  Healthy(t)
  <2>1. k = 0 BY <1>5, <1>10 DEF k
  <2>2. Live(a, 3) BY <1>5, <1>10 DEF Live
  <2>3. Fit(a, 3)
    <3>1. 3 \in a.bank BY <1>3, <1>4, <1>10 DEF Live
    <3>. QED BY <2>2, <3>1, LiveFits
  <2>4. \A j \in 0 .. 2 : Fit(a, j)
    <3>1. ASSUME NEW j \in 0 .. 2 PROVE SameGuest(r, a, j)
      BY <1>3, <1>4, <1>5 DEF SameGuest
    <3>. QED BY <1>10, <3>1, FitStays
  <2>5. \A j \in Slots : Fit(a, j) BY <1>0, <2>3, <2>4
  <2>6. /\ t \in HostState /\ t.phase = "sched" /\ t.bad = {}
        /\ t.cur = 0 /\ Live(t, 0) /\ t.failed = a.failed
        /\ t.needsLaunch \subseteq a.needsLaunch
        /\ \A j \in Slots : j # 0 => Fit(t, j)
    BY <1>0, <1>4, <1>5, <1>6, <1>10, <2>1, <2>5, SwitchFits
  <2>7. /\ ~t.ladder /\ ~t.spaLaunched /\ ~t.spaRunnable /\ t.failed = {}
        /\ t.needsLaunch \subseteq {0} /\ t.slice = {} /\ t.skipped = {}
    BY <1>5, <1>8, <1>10, <2>6 DEF Keeps
  <2>8. Ladder(t)
    <3>1. t.slice # Slots /\ ~({0, 1} \subseteq t.slice) BY <1>0, <2>7
    <3>. QED BY <2>6, <2>7, <3>1 DEF Ladder
  <2>. QED BY <2>6, <2>7, <2>8 DEF Healthy
<1>. QED BY <1>9, <1>10

-----------------------------------------------------------------------------
(* The actions *)

\* What every action owes: sanity always, history kept, and health as long as
\* nothing is wrong.
Good(s, t) == Sane(t) /\ Grows(s, t) /\ (Clean(t) /\ Healthy(s) => Healthy(t))

\* A VM exit of a guest that runs where it left off leaves it as it was.
LEMMA ExitHealthy ==
    ASSUME NEW s \in HostState, s.ptr \in Slots
    PROVE  /\ \A j \in Slots : Fit(s, j) => Fit(Exit(s), j)
           /\ \A j \in Slots : Live(s, j) => Live(Exit(s), j)
<1>. DEFINE e == Exit(s)
<1>1. /\ e \in HostState /\ Frame(s, e) /\ Marks(s, e)
      /\ e.bank = s.bank /\ e.shadow = s.shadow
      /\ e.ptr = s.ptr /\ e.launched = s.launched /\ e.bad = s.bad
      /\ e.loaded = s.ptr /\ e.exact /\ e.fields[s.ptr] = "own"
      /\ \A i \in Slots : i # s.ptr => e.fields[i] = s.fields[i]
  BY ExitDoes
<1>. HIDE DEF e
<1>2. ASSUME NEW j \in Slots, Fit(s, j) PROVE Fit(e, j)
  BY <1>1, <1>2 DEF Fit, Marks
<1>3. ASSUME NEW j \in Slots, Live(s, j) PROVE Live(e, j)
  BY <1>1, <1>3 DEF Live, Marks
<1>. QED BY <1>2, <1>3 DEF e

\* schedule_preempt.
LEMMA PreemptGood ==
    ASSUME Sane(h), stop \in BOOLEAN, start \in BOOLEAN, SchedulePreempt
    PROVE  Good(h, h')
<1>. DEFINE e == Exit(h)
            run == e.spaRunnable /\ ~stop
            s == [e EXCEPT !.spaRunnable = run]
<1>0. h \in HostState /\ h.phase = "sched" BY DEF Sane, SchedulePreempt
<1>1. h' \in TrySpaVmlaunch(s, start) BY DEF SchedulePreempt
<1>2. /\ e \in HostState /\ Frame(h, e) /\ Marks(h, e)
      /\ e.bank = h.bank /\ e.shadow = h.shadow
      /\ e.ptr = h.ptr /\ e.launched = h.launched /\ e.bad = h.bad
  BY <1>0, ExitDoes
<1>. HIDE DEF e
<1>3. run \in BOOLEAN /\ (run => e.spaRunnable) OBVIOUS
<1>. HIDE DEF run
<1>4. /\ s \in HostState /\ s.phase = e.phase /\ s.credits = e.credits /\ s.cur = e.cur
      /\ s.ladder = e.ladder /\ s.ptr = e.ptr /\ s.failed = e.failed
      /\ s.faulty = e.faulty /\ s.skipped = e.skipped /\ s.bad = e.bad
      /\ s.spaLaunched = e.spaLaunched /\ s.loaded = e.loaded /\ s.exact = e.exact
      /\ s.fields = e.fields /\ s.launched = e.launched /\ s.needsLaunch = e.needsLaunch
      /\ s.bank = e.bank /\ s.shadow = e.shadow /\ s.slice = e.slice
      /\ s.schedOk = e.schedOk /\ s.armed = e.armed
      /\ s.spaRunnable => e.spaRunnable
  BY <1>2, <1>3 DEF HostState
<1>. HIDE DEF s
<1>5. /\ s.phase = "sched" /\ s.credits # <<>> /\ (s.ladder => s.cur \in {0, 1})
      /\ s.ladder /\ s.ptr = 1 /\ 0 \notin s.failed => s.cur = 1
  BY <1>0, <1>2, <1>4 DEF Sane, Frame, Marks
<1>6. Sane(h') /\ Grows(s, h') /\ (Healthy(s) => Healthy(h'))
  BY <1>1, <1>4, <1>5, TrySpaDoes
<1>7. Grows(h, h') BY <1>2, <1>4, <1>6 DEF Grows, Frame, Marks
<1>8. ASSUME Healthy(h) PROVE Healthy(s)
  <2>1. Live(h, h.cur) /\ h.cur \in Slots /\ h.ptr \in Slots
    BY <1>0, <1>8 DEF Healthy, Ladder, Coexist, Live, HostState
  <2>2. /\ \A j \in Slots : Fit(h, j) => Fit(e, j)
        /\ Live(e, h.cur)
    BY <1>0, <2>1, ExitHealthy DEF e
  <2>3. \A j \in Slots : Fit(h, j) => Fit(s, j) BY <1>4, <2>2 DEF Fit
  <2>4. Live(s, s.cur) /\ s.cur = h.cur BY <1>2, <1>4, <2>2 DEF Live, Marks
  <2>5. /\ s.ladder = h.ladder /\ s.spaLaunched = h.spaLaunched /\ s.failed = h.failed
        /\ s.needsLaunch = h.needsLaunch /\ s.slice = h.slice /\ s.schedOk = h.schedOk
        /\ s.bad = h.bad /\ s.skipped = h.skipped /\ (s.spaRunnable => h.spaRunnable)
    BY <1>2, <1>4 DEF Frame, Marks
  <2>6. CASE Ladder(h)
    <3>1. Ladder(s) BY <1>0, <1>5, <2>3, <2>4, <2>5, <2>6 DEF Ladder
    <3>. QED BY <1>5, <1>8, <2>5, <3>1 DEF Healthy
  <2>7. CASE Coexist(h)
    <3>0. 0 \in Slots /\ 1 \in Slots BY DEF Slots, M4_NVM_GUEST_SLOTS
    <3>1. Coexist(s) BY <1>5, <2>3, <2>4, <2>5, <2>7, <3>0 DEF Coexist
    <3>. QED BY <1>5, <1>8, <2>5, <3>1 DEF Healthy
  <2>. QED BY <1>8, <2>6, <2>7 DEF Healthy
<1>. QED BY <1>6, <1>7, <1>8 DEF Good

\* In a clean state no shell guest was skipped.
LEMMA CleanSkipsNothing ==
    ASSUME NEW t, Clean(t)
    PROVE  "shell" \notin faults \/ t.skipped = {}
BY DEF Clean, Sound

\* maybe_finish_m312: G0's registers are banked before its VMCS is cloned.
LEMMA G0ShellGood ==
    ASSUME Sane(h), G0Shell
    PROVE  Good(h, h')
<1>. DEFINE e == Exit(h)
            g == SaveGprs(e, 0)
<1>0. /\ h \in HostState /\ h.phase = "g0" /\ ~h.ladder BY DEF Sane, G0Shell
<1>00. /\ 0 \in Slots /\ 1 \in Slots /\ 1 \in Shells /\ 1 \in 1 .. SHELL_SLOT_MAX + 1
       /\ 0 .. 1 - 1 = {0} /\ 0 # 1
  BY DEF Slots, M4_NVM_GUEST_SLOTS, Shells, SHELL_SLOT_MAX
<1>1. PICK r \in RelocateG0Vmcs(g) : h' \in LaunchShellGuest(r, 1) BY DEF G0Shell
<1>2. /\ e \in HostState /\ Frame(h, e) /\ Marks(h, e) /\ e.bad = h.bad
      /\ e.ptr = h.ptr /\ e.launched = h.launched
      /\ h.ptr \in Slots => e.loaded = h.ptr /\ e.exact /\ e.fields[h.ptr] = "own"
  BY <1>0, ExitDoes
<1>. HIDE DEF e
<1>3. /\ g \in HostState /\ Frame(e, g) /\ Marks(e, g) /\ Vmcs(e, g)
      /\ g.loaded = e.loaded /\ g.exact = e.exact
      /\ e.loaded = 0 /\ e.exact => 0 \in g.bank
  BY <1>00, <1>2, SaveDoes
<1>. HIDE DEF g
<1>4. /\ r \in HostState /\ Quiet(g, r) /\ r.skipped = g.skipped
      /\ r.bad \subseteq g.bad /\ r.needsLaunch \subseteq g.needsLaunch \cup {0}
      /\ g.ptr = 0 /\ Fit(g, 0) /\ g.fields[0] = "own" => Fit(r, 0)
  BY <1>1, <1>3, RelocateDoes
<1>5. /\ h' \in HostState /\ Quiet(r, h') /\ r.skipped \subseteq h'.skipped
      /\ h'.phase \in {"shell", "probe"} /\ (h'.phase = "shell" => h'.ptr \in Shells)
  BY <1>00, <1>1, <1>4, LaunchShellDoes
<1>6. /\ h'.faulty = h.faulty /\ h'.ladder = h.ladder /\ r.skipped = h.skipped
      /\ h'.slice = h.slice /\ h'.failed = h.failed /\ h'.spaLaunched = h.spaLaunched
      /\ h'.spaRunnable = h.spaRunnable /\ r.bad \subseteq h.bad
      /\ r.needsLaunch \subseteq h.needsLaunch \cup {0}
  BY <1>2, <1>3, <1>4, <1>5 DEF Frame, Marks, Quiet, Vmcs
<1>7. Sane(h') /\ Grows(h, h') BY <1>0, <1>5, <1>6 DEF Sane, Grows
<1>8. ASSUME Clean(h'), Healthy(h) PROVE Healthy(h')
  <2>1. /\ Live(h, 0) /\ h.failed = {} /\ h.needsLaunch \subseteq {0} /\ h.slice = {}
        /\ h.bad = {} /\ h.skipped = {} /\ ~h.spaLaunched /\ ~h.spaRunnable
    BY <1>0, <1>8 DEF Healthy, Ladder, Coexist
  <2>2. Live(e, 0) BY <1>00, <1>2, <2>1 DEF Live, Marks
  <2>3. Live(g, 0) /\ 0 \in g.bank BY <1>3, <2>2 DEF Live, Marks, Vmcs
  <2>4. Fit(r, 0) BY <1>4, <2>3, LiveFits DEF Live
  <2>5. 1 \notin r.needsLaunch /\ r.needsLaunch \subseteq {0} BY <1>00, <1>6, <2>1
  <2>6. /\ h'.phase = "shell" /\ h'.ptr = 1 /\ h'.skipped = r.skipped
        /\ h'.bad \subseteq r.bad /\ h'.needsLaunch = r.needsLaunch
        /\ Live(h', 1) /\ Fit(h', 0)
    BY <1>00, <1>1, <1>4, <1>8, <2>4, <2>5, LaunchShellDoes, CleanSkipsNothing
  <2>7. Ladder(h') BY <1>0, <1>00, <1>6, <2>1, <2>5, <2>6 DEF Ladder
  <2>. QED BY <1>6, <2>1, <2>6, <2>7 DEF Healthy
<1>. QED BY <1>7, <1>8 DEF Good

\* after_shell_cpuid: the next shell, or after the last one the scheduler.
LEMMA ShellCpuidGood ==
    ASSUME Sane(h), AfterShellCpuid
    PROVE  Good(h, h')
<1>. DEFINE e == Exit(h)
            two == e.twoVm \/ h.ptr = 1
            u == [e EXCEPT !.twoVm = two]
            r == SaveGprs(u, h.ptr)
<1>0. /\ h \in HostState /\ h.phase = "shell" /\ ~h.ladder /\ h.ptr \in Shells
  BY DEF Sane, AfterShellCpuid
<1>00. /\ Slots = 0 .. 3 /\ Shells = 1 .. 3 /\ SHELL_SLOT_MAX = 3 /\ h.ptr \in Slots
       /\ h.ptr \in 1 .. 3
  BY <1>0 DEF Slots, M4_NVM_GUEST_SLOTS, Shells, SHELL_SLOT_MAX
<1>1. h' \in IF h.ptr < SHELL_SLOT_MAX THEN LaunchShellGuest(r, h.ptr + 1)
             ELSE EnterSchedModeFromShell(r, h.ptr)
  BY DEF AfterShellCpuid
<1>2. /\ e \in HostState /\ Frame(h, e) /\ Marks(h, e) /\ e.bad = h.bad
      /\ e.ptr = h.ptr /\ e.launched = h.launched
      /\ e.loaded = h.ptr /\ e.exact /\ e.fields[h.ptr] = "own"
      /\ \A j \in Slots : Fit(h, j) => Fit(e, j)
      /\ \A j \in Slots : Live(h, j) => Live(e, j)
  BY <1>0, <1>00, ExitDoes, ExitHealthy
<1>. HIDE DEF e
<1>3. two \in BOOLEAN OBVIOUS
<1>. HIDE DEF two
<1>4. /\ u \in HostState /\ u.phase = e.phase /\ u.ladder = e.ladder /\ u.slice = e.slice
      /\ u.faulty = e.faulty /\ u.skipped = e.skipped /\ u.bad = e.bad
      /\ u.failed = e.failed /\ u.spaLaunched = e.spaLaunched /\ u.spaRunnable = e.spaRunnable
      /\ u.needsLaunch = e.needsLaunch /\ u.ptr = e.ptr /\ u.loaded = e.loaded
      /\ u.exact = e.exact /\ u.fields = e.fields /\ u.launched = e.launched
      /\ u.bank = e.bank /\ u.shadow = e.shadow
  BY <1>2, <1>3 DEF HostState
<1>. HIDE DEF u
<1>5. /\ r \in HostState /\ Frame(u, r) /\ Marks(u, r) /\ Vmcs(u, r)
      /\ r.shadow = u.shadow /\ r.loaded = u.loaded /\ r.exact = u.exact
      /\ u.loaded = h.ptr /\ u.exact => h.ptr \in r.bank
      /\ r.bank \cup {h.ptr} = u.bank \cup {h.ptr}
  BY <1>00, <1>4, SaveDoes
<1>. HIDE DEF r
<1>6. /\ ~r.ladder /\ r.faulty = h.faulty /\ r.skipped = h.skipped /\ r.slice = h.slice
      /\ r.failed = h.failed /\ r.spaLaunched = h.spaLaunched
      /\ r.spaRunnable = h.spaRunnable /\ r.bad = h.bad /\ r.needsLaunch = h.needsLaunch
      /\ h.ptr \in r.bank
  BY <1>0, <1>2, <1>4, <1>5 DEF Frame, Marks, Vmcs
<1>7. ASSUME Healthy(h)
      PROVE  /\ h.bad = {} /\ h.skipped = {} /\ h.slice = {} /\ h.failed = {}
             /\ ~h.spaLaunched /\ ~h.spaRunnable /\ h.needsLaunch \subseteq {0}
             /\ Live(r, h.ptr) /\ \A j \in 0 .. h.ptr : Fit(r, j)
  <2>1. /\ h.bad = {} /\ h.skipped = {} /\ h.slice = {} /\ h.failed = {}
        /\ ~h.spaLaunched /\ ~h.spaRunnable /\ h.needsLaunch \subseteq {0}
        /\ Live(h, h.ptr) /\ \A j \in 0 .. h.ptr - 1 : Fit(h, j)
    BY <1>0, <1>7 DEF Healthy, Ladder, Coexist
  <2>2. Live(e, h.ptr) BY <1>00, <1>2, <2>1
  <2>3. Live(r, h.ptr) BY <1>4, <1>5, <2>2 DEF Live, Marks, Vmcs
  <2>4. ASSUME NEW j \in 0 .. h.ptr PROVE Fit(r, j)
    <3>1. CASE j = h.ptr BY <1>6, <2>3, <3>1, LiveFits
    <3>2. CASE j # h.ptr
      <4>1. j \in Slots /\ j \in 0 .. h.ptr - 1 BY <1>00, <3>2
      <4>2. Fit(e, j) BY <1>2, <2>1, <4>1
      <4>3. SameGuest(e, r, j) BY <1>4, <1>5, <3>2 DEF SameGuest, Marks, Vmcs
      <4>. QED BY <1>2, <4>2, <4>3, FitStays
    <3>. QED BY <3>1, <3>2
  <2>. QED BY <2>1, <2>3, <2>4
<1>8. CASE h.ptr < SHELL_SLOT_MAX
  <2>. DEFINE k == h.ptr + 1
  <2>1. h' \in LaunchShellGuest(r, k) BY <1>1, <1>8
  <2>2. k \in 1 .. SHELL_SLOT_MAX + 1 /\ k \in Shells /\ k \in 2 .. 3 /\ k \in Slots
    BY <1>00, <1>8
  <2>3. 0 .. k - 1 = 0 .. h.ptr BY <1>00
  <2>. HIDE DEF k
  <2>4. /\ h' \in HostState /\ Quiet(r, h') /\ r.skipped \subseteq h'.skipped
        /\ h'.phase \in {"shell", "probe"} /\ (h'.phase = "shell" => h'.ptr \in Shells)
    BY <1>5, <2>1, <2>2, LaunchShellDoes
  <2>5. Sane(h') /\ Grows(h, h') BY <1>6, <2>4 DEF Sane, Grows, Quiet
  <2>6. ASSUME Clean(h'), Healthy(h) PROVE Healthy(h')
    <3>1. k \notin r.needsLaunch BY <1>6, <1>7, <2>2, <2>6
    <3>2. /\ h'.phase = "shell" /\ h'.ptr = k /\ h'.skipped = r.skipped
          /\ h'.bad \subseteq r.bad /\ h'.needsLaunch = r.needsLaunch /\ Live(h', k)
          /\ \A j \in Slots : j # k /\ Fit(r, j) => Fit(h', j)
      BY <1>5, <2>1, <2>2, <2>6, <3>1, LaunchShellDoes, CleanSkipsNothing
    <3>3. \A j \in 0 .. k - 1 : j \in Slots /\ j # k BY <1>00, <2>2
    <3>4. \A j \in 0 .. k - 1 : Fit(h', j) BY <1>7, <2>3, <2>6, <3>2, <3>3
    <3>5. /\ ~h'.ladder /\ ~h'.spaLaunched /\ ~h'.spaRunnable /\ h'.failed = {}
          /\ h'.needsLaunch \subseteq {0} /\ h'.slice = {} /\ h'.bad = {} /\ h'.skipped = {}
      BY <1>6, <1>7, <2>4, <2>6, <3>2 DEF Quiet
    <3>6. Ladder(h') BY <3>2, <3>4, <3>5 DEF Ladder
    <3>. QED BY <3>2, <3>5, <3>6 DEF Healthy
  <2>. QED BY <2>5, <2>6 DEF Good
<1>9. CASE ~(h.ptr < SHELL_SLOT_MAX)
  <2>1. h.ptr = 3 BY <1>00, <1>9
  <2>2. h' \in EnterSchedModeFromShell(r, 3) BY <1>1, <1>9, <2>1
  <2>3. Sane(h') /\ Grows(r, h') BY <1>5, <1>6, <2>2, EnterSchedDoes
  <2>4. Grows(h, h') BY <1>6, <2>3 DEF Grows
  <2>5. ASSUME Healthy(h) PROVE Healthy(h')
    <3>1. 0 .. 2 \subseteq 0 .. 3 OBVIOUS
    <3>2. Live(r, 3) /\ \A j \in 0 .. 2 : Fit(r, j) BY <1>7, <2>1, <2>5, <3>1
    <3>. QED BY <1>5, <1>6, <1>7, <2>2, <2>5, <3>2, EnterSchedDoes
  <2>. QED BY <2>3, <2>4, <2>5 DEF Good
<1>. QED BY <1>8, <1>9

\* handle_shell_vmexit: a shell that fails is skipped, and remembered.
LEMMA ShellFailsGood ==
    ASSUME Sane(h), ShellFails
    PROVE  Good(h, h')
<1>. DEFINE e == Exit(h)
            s == [e EXCEPT !.skipped = @ \cup {h.ptr}]
            k == h.ptr + 1
<1>0. /\ h \in HostState /\ h.phase = "shell" /\ ~h.ladder /\ h.ptr \in Shells
      /\ "shell" \in faults
  BY DEF Sane, ShellFails
<1>1. k \in 1 .. SHELL_SLOT_MAX + 1
  BY <1>0 DEF M4_NVM_GUEST_SLOTS, Shells, SHELL_SLOT_MAX
<1>2. h' \in LaunchShellGuest(s, k) BY DEF ShellFails
<1>3. e \in HostState /\ Frame(h, e) /\ Marks(h, e) BY <1>0, ExitDoes
<1>. HIDE DEF e, k
<1>4. /\ s \in HostState /\ s.skipped = e.skipped \cup {h.ptr} /\ s.ladder = e.ladder
      /\ s.faulty = e.faulty
  BY <1>0, <1>3 DEF HostState
<1>. HIDE DEF s
<1>5. /\ h' \in HostState /\ Quiet(s, h') /\ s.skipped \subseteq h'.skipped
      /\ h'.phase \in {"shell", "probe"} /\ (h'.phase = "shell" => h'.ptr \in Shells)
  BY <1>1, <1>2, <1>4, LaunchShellDoes
<1>6. Sane(h') /\ Grows(h, h')
  BY <1>0, <1>3, <1>4, <1>5 DEF Sane, Grows, Quiet, Frame, Marks
<1>7. ~Clean(h') BY <1>0, <1>4, <1>5 DEF Clean, Sound
<1>. QED BY <1>6, <1>7 DEF Good

\* The probes leave G0 able to continue.
LEMMA ProbesGood ==
    ASSUME Sane(h), Probes
    PROVE  Good(h, h')
<1>0. h \in HostState /\ h.phase = "probe" /\ ~h.ladder BY DEF Sane, Probes
<1>1. PICK p \in {h.ptr, Probe} :
        h' = [h EXCEPT !.phase = "finish", !.ptr = p, !.exact = FALSE,
                       !.launched = @ \cup ({p} \cap {Probe})]
  BY DEF Probes
<1>2. p \in Slots \cup {Probe, NoVmcs} BY <1>0 DEF HostState
<1>. DEFINE l == h.launched \cup ({p} \cap {Probe})
<1>3. l \subseteq Slots \cup {Probe} /\ (0 \in h.launched <=> 0 \in l)
  BY <1>0 DEF HostState, Probe, M4_NVM_GUEST_SLOTS
<1>. HIDE DEF l
<1>4. h' = [h EXCEPT !.phase = "finish", !.ptr = p, !.exact = FALSE, !.launched = l]
  BY <1>1 DEF l
<1>5. /\ h' \in HostState /\ h'.phase = "finish" /\ h'.launched = l
      /\ h'.ladder = h.ladder /\ h'.faulty = h.faulty /\ h'.skipped = h.skipped
      /\ h'.failed = h.failed /\ h'.spaLaunched = h.spaLaunched
      /\ h'.spaRunnable = h.spaRunnable /\ h'.needsLaunch = h.needsLaunch
      /\ h'.bank = h.bank /\ h'.shadow = h.shadow /\ h'.fields = h.fields
      /\ h'.bad = h.bad /\ h'.schedOk = h.schedOk
  BY <1>0, <1>2, <1>3, <1>4 DEF HostState, Phases
<1>6. Sane(h') /\ Grows(h, h') BY <1>0, <1>5 DEF Sane, Grows
<1>7. ASSUME Healthy(h) PROVE Healthy(h')
  <2>1. Ladder(h) BY <1>0, <1>7 DEF Healthy, Coexist
  <2>2. SameGuest(h, h', 0) BY <1>3, <1>5 DEF SameGuest
  <2>3. Fit(h', 0) BY <1>0, <2>1, <2>2, FitStays DEF Ladder
  <2>4. Ladder(h') BY <1>0, <1>5, <2>1, <2>3 DEF Ladder
  <2>. QED BY <1>5, <1>7, <2>4 DEF Healthy
<1>. QED BY <1>6, <1>7 DEF Good

\* finish_boot and enter_sched_coexist: the host goes off, or G0 continues.
LEMMA FinishGood ==
    ASSUME Sane(h), FinishBoot
    PROVE  Good(h, h')
<1>. DEFINE cr == RegisterVcpu(<<>>, DEFAULT_CREDIT)
            c == [h EXCEPT !.armed = TRUE, !.ladder = TRUE, !.cur = 0,
                           !.credits = cr, !.phase = "sched"]
            off == [h EXCEPT !.phase = "off"]
            off2 == [h EXCEPT !.armed = TRUE, !.ladder = TRUE, !.phase = "off"]
<1>0. h \in HostState /\ h.phase = "finish" /\ ~h.ladder BY DEF Sane, FinishBoot
<1>00. 0 \in Slots BY DEF Slots, M4_NVM_GUEST_SLOTS
<1>1. \/ ~h.armed /\ h' = off
      \/ ~h.schedOk /\ h' = off2
      \/ h' \in SwitchToSchedSlot(c, 0)
  BY DEF FinishBoot
<1>2. cr \in CreditStates /\ cr # <<>>
  <2>. DEFINE e == << >>
  <2>1. e \in Seq(Credits) /\ Len(e) = 0 BY EmptySeq
  <2>. HIDE DEF e
  <2>2. Len(e) \in 0 .. M4_NVM_GUEST_SLOTS /\ Len(e) < 2 BY <2>1 DEF M4_NVM_GUEST_SLOTS
  <2>3. e \in CreditStates BY <2>1, <2>2, CreditSeq
  <2>4. LET d == IF Len(e) < 2 THEN RegisterVcpu(e, DEFAULT_CREDIT) ELSE e
        IN  d \in CreditStates /\ (e # <<>> \/ Len(e) < 2 => d # <<>>)
    BY <2>3, RegisterDoes
  <2>. QED BY <2>2, <2>4 DEF e
<1>. HIDE DEF cr
<1>3. CASE ~h.armed /\ h' = off
  <2>1. /\ h' \in HostState /\ h'.phase = "off" /\ h'.armed = h.armed
        /\ h'.ladder = h.ladder /\ h'.faulty = h.faulty /\ h'.skipped = h.skipped
        /\ h'.failed = h.failed /\ h'.spaLaunched = h.spaLaunched
        /\ h'.spaRunnable = h.spaRunnable /\ h'.needsLaunch = h.needsLaunch
        /\ h'.bad = h.bad
    BY <1>0, <1>3 DEF HostState, Phases
  <2>2. Sane(h') /\ Grows(h, h') BY <1>0, <2>1 DEF Sane, Grows
  <2>3. ASSUME Healthy(h) PROVE Healthy(h')
    <3>1. Ladder(h) BY <1>0, <2>3 DEF Healthy, Coexist
    <3>2. Ladder(h') BY <1>0, <1>3, <2>1, <3>1 DEF Ladder
    <3>. QED BY <2>1, <2>3, <3>2 DEF Healthy
  <2>. QED BY <2>2, <2>3 DEF Good
<1>4. CASE ~h.schedOk /\ h' = off2
  <2>1. /\ h' \in HostState /\ h'.phase = "off"
        /\ h'.faulty = h.faulty /\ h'.skipped = h.skipped
    BY <1>0, <1>4 DEF HostState, Phases
  <2>2. Sane(h') /\ Grows(h, h') BY <2>1 DEF Sane, Grows
  <2>3. ~Healthy(h) BY <1>0, <1>4 DEF Healthy, Ladder, Coexist
  <2>. QED BY <2>2, <2>3 DEF Good
<1>5. CASE h' \in SwitchToSchedSlot(c, 0)
  <2>1. /\ c \in HostState /\ c.phase = "sched" /\ c.ladder /\ c.cur = 0 /\ c.credits = cr
        /\ c.faulty = h.faulty /\ c.skipped = h.skipped
        /\ c.failed = h.failed /\ c.spaLaunched = h.spaLaunched
        /\ c.spaRunnable = h.spaRunnable /\ c.needsLaunch = h.needsLaunch
        /\ c.bank = h.bank /\ c.shadow = h.shadow /\ c.fields = h.fields
        /\ c.launched = h.launched /\ c.bad = h.bad
    BY <1>0, <1>00, <1>2 DEF HostState, Phases
  <2>. HIDE DEF c
  <2>2. /\ Keeps(c, h') /\ h'.cur = 0
        /\ h'.phase = "sched" /\ 0 \notin h'.failed => h'.ptr = 0
    BY <1>00, <1>5, <2>1, SwitchDoes
  <2>3. Sane(h') /\ Grows(h, h') BY <1>2, <2>1, <2>2 DEF Sane, Grows, Keeps
  <2>4. ASSUME Healthy(h) PROVE Healthy(h')
    <3>1. Ladder(h) BY <1>0, <2>4 DEF Healthy, Coexist
    <3>2. Fit(h, 0) /\ h.bad = {} BY <1>0, <2>4, <3>1 DEF Ladder, Healthy
    <3>3. Fit(c, 0) BY <2>1, <3>2 DEF Fit
    <3>4. /\ h'.phase = "sched" /\ h'.bad = {} /\ h'.cur = 0 /\ Live(h', 0)
          /\ h'.failed = c.failed /\ h'.needsLaunch \subseteq c.needsLaunch
      BY <1>00, <1>5, <2>1, <3>1, <3>2, <3>3, SwitchFits DEF Ladder
    <3>5. /\ h'.ladder /\ ~h'.spaLaunched /\ ~h'.spaRunnable /\ h'.skipped = {}
          /\ h'.failed = {} /\ 1 \notin h'.needsLaunch
      BY <2>1, <2>2, <2>4, <3>1, <3>4 DEF Keeps, Ladder, Healthy
    <3>6. Coexist(h') BY <3>4, <3>5 DEF Coexist
    <3>. QED BY <3>4, <3>5, <3>6 DEF Healthy
  <2>. QED BY <2>3, <2>4 DEF Good
<1>. QED BY <1>1, <1>3, <1>4, <1>5

\* A VMCS region goes bad: nothing else moves, and the fault is remembered.
LEMMA GoesBadGood ==
    ASSUME Sane(h), Scribble \/ Flush
    PROVE  Good(h, h')
<1>0. h \in HostState BY DEF Sane
<1>1. PICK i \in Slots : h' = [h EXCEPT !.bad = @ \cup {i}, !.faulty = TRUE]
  BY DEF Scribble, Flush
<1>2. /\ h' \in HostState /\ h'.phase = h.phase /\ h'.ptr = h.ptr /\ h'.credits = h.credits
      /\ h'.ladder = h.ladder /\ h'.cur = h.cur /\ h'.failed = h.failed
      /\ h'.spaRunnable = h.spaRunnable /\ h'.skipped = h.skipped /\ h'.faulty
  BY <1>0, <1>1 DEF HostState
<1>3. Sane(h') /\ Grows(h, h') BY <1>2 DEF Sane, Grows
<1>4. ~Clean(h') BY <1>2 DEF Clean, Sound, Scribble, Flush
<1>. QED BY <1>3, <1>4 DEF Good

-----------------------------------------------------------------------------
(* The theorems *)

\* G0 runs where it was started, and nothing has happened yet.
LEMMA SchedIInvInit == Init => SchedIInv
<1>. SUFFICES ASSUME Init PROVE SchedIInv OBVIOUS
<1>0. 0 \in Slots BY DEF Slots, M4_NVM_GUEST_SLOTS
<1>1. PICK armed \in BOOLEAN :
         h = [phase |-> "g0", armed |-> armed, cur |-> 0, credits |-> <<>>,
              ladder |-> FALSE, slice |-> {}, schedOk |-> FALSE, twoVm |-> FALSE,
              spaLaunched |-> FALSE, spaRunnable |-> FALSE, reloc |-> FALSE,
              needsLaunch |-> {}, failed |-> {}, ptr |-> 0, launched |-> {0},
              fields |-> [i \in Slots |-> IF i = 0 THEN "own" ELSE "lost"],
              shadow |-> [i \in {0, 1} |-> "none"], bank |-> {},
              loaded |-> 0, exact |-> TRUE, bad |-> {}, skipped |-> {},
              faulty |-> FALSE]
  BY DEF Init
<1>. DEFINE f == [i \in Slots |-> IF i = 0 THEN "own" ELSE "lost"]
            w == [i \in {0, 1} |-> "none"]
            e == <<>>
<1>2. /\ f \in [Slots -> {"own", "old", "lost"}] /\ f[0] = "own"
      /\ w \in [{0, 1} -> {"own", "old", "none"}]
  BY <1>0
<1>3. e \in CreditStates
  <2>1. e \in Seq(Credits) /\ Len(e) = 0 BY EmptySeq
  <2>. HIDE DEF e
  <2>2. Len(e) \in 0 .. M4_NVM_GUEST_SLOTS BY <2>1 DEF M4_NVM_GUEST_SLOTS
  <2>. QED BY <2>1, <2>2, CreditSeq
<1>. HIDE DEF f, w, e
<1>4. h = [phase |-> "g0", armed |-> armed, cur |-> 0, credits |-> e,
           ladder |-> FALSE, slice |-> {}, schedOk |-> FALSE, twoVm |-> FALSE,
           spaLaunched |-> FALSE, spaRunnable |-> FALSE, reloc |-> FALSE,
           needsLaunch |-> {}, failed |-> {}, ptr |-> 0, launched |-> {0},
           fields |-> f, shadow |-> w, bank |-> {},
           loaded |-> 0, exact |-> TRUE, bad |-> {}, skipped |-> {},
           faulty |-> FALSE]
  BY <1>1 DEF f, w, e
<1>5. h \in HostState BY <1>0, <1>2, <1>3, <1>4 DEF HostState, Phases
<1>6. /\ h.phase = "g0" /\ ~h.ladder /\ ~h.spaLaunched /\ ~h.spaRunnable /\ h.failed = {}
      /\ h.needsLaunch = {} /\ h.slice = {} /\ h.ptr = 0 /\ h.loaded = 0 /\ h.exact
      /\ h.fields = f /\ h.launched = {0} /\ h.bad = {} /\ h.skipped = {}
  BY <1>4
<1>7. Sane(h) BY <1>5, <1>6 DEF Sane
<1>8. Healthy(h) BY <1>2, <1>6 DEF Healthy, Ladder, Live
<1>9. /\ start \in BOOLEAN /\ stop \in BOOLEAN /\ vm \in {"none", "running", "stopped"}
      /\ served \in 0 .. Requests[faults] /\ faults \in FaultSets
  <2>1. /\ start = FALSE /\ stop = FALSE /\ vm = "none" /\ served = 0 /\ faults \in FaultSets
    BY DEF Init
  <2>2. Requests[faults] \in Nat BY <2>1, ConstantsAssumption
  <2>. DEFINE n == Requests[faults]
  <2>. HIDE DEF n
  <2>3. n \in Nat => 0 \in 0 .. n OBVIOUS
  <2>. QED BY <2>1, <2>2, <2>3 DEF n
<1>. QED BY <1>7, <1>8, <1>9 DEF SchedIInv

\* Every step of the host keeps the invariant.
LEMMA SchedIInvStep == SchedIInv /\ [Next]_vars => SchedIInv'
<1>. SUFFICES ASSUME SchedIInv, [Next]_vars PROVE SchedIInv' OBVIOUS
<1>0. Sane(h) /\ start \in BOOLEAN /\ stop \in BOOLEAN /\ Requests[faults] \in Nat
  BY ConstantsAssumption DEF SchedIInv
<1>1. faults' = faults
  BY DEF Next, vars, SpaStart, SpaStop, G0Shell, AfterShellCpuid, ShellFails,
         SchedulePreempt, Probes, FinishBoot, Scribble, Flush, Stopped
<1>2. /\ start' \in BOOLEAN /\ stop' \in BOOLEAN /\ vm' \in {"none", "running", "stopped"}
      /\ served' \in 0 .. Requests[faults'] /\ faults' \in FaultSets
  <2>. DEFINE n == Requests[faults]
  <2>1. /\ start' \in BOOLEAN /\ stop' \in BOOLEAN
        /\ served' = served \/ (served < n /\ served' = served + 1)
    BY <1>0
       DEF Next, vars, SpaStart, SpaStop, G0Shell, AfterShellCpuid, ShellFails,
           SchedulePreempt, Probes, FinishBoot, Scribble, Flush, Stopped
  <2>2. vm' \in {"none", "running", "stopped"}
    BY DEF SchedIInv, Next, vars, SpaStart, SpaStop, G0Shell, AfterShellCpuid, ShellFails,
           SchedulePreempt, Probes, FinishBoot, Scribble, Flush, Stopped
  <2>3. served \in 0 .. n /\ faults \in FaultSets /\ n \in Nat BY <1>0 DEF SchedIInv
  <2>4. Requests[faults'] = n BY <1>1
  <2>. HIDE DEF n
  <2>5. served' \in 0 .. n BY <2>1, <2>3
  <2>. QED BY <1>1, <2>1, <2>2, <2>3, <2>4, <2>5
<1>3. Good(h, h')
  <2>1. CASE h' = h BY <1>0, <2>1 DEF Good, Grows
  <2>2. CASE G0Shell BY <1>0, <2>2, G0ShellGood
  <2>3. CASE AfterShellCpuid BY <1>0, <2>3, ShellCpuidGood
  <2>4. CASE ShellFails BY <1>0, <2>4, ShellFailsGood
  <2>5. CASE SchedulePreempt BY <1>0, <2>5, PreemptGood
  <2>6. CASE Probes BY <1>0, <2>6, ProbesGood
  <2>7. CASE FinishBoot BY <1>0, <2>7, FinishGood
  <2>8. CASE Scribble \/ Flush BY <1>0, <2>8, GoesBadGood
  <2>9. CASE SpaStart \/ SpaStop \/ Stopped \/ UNCHANGED vars
    BY <2>1, <2>9 DEF SpaStart, SpaStop, Stopped, vars
  <2>. QED BY <2>2, <2>3, <2>4, <2>5, <2>6, <2>7, <2>8, <2>9 DEF Next
<1>4. ASSUME Clean(h)' PROVE Healthy(h')
  <2>1. Clean(h') BY <1>1, <1>4 DEF Clean, Sound
  <2>2. Clean(h) BY <1>3, <2>1 DEF Clean, Good, Grows
  <2>. QED BY <1>3, <2>1, <2>2 DEF SchedIInv, Good
<1>5. Sane(h)' BY <1>3 DEF Good, Sane
<1>6. Clean(h)' => Healthy(h)' BY <1>4
<1>. QED BY <1>2, <1>5, <1>6 DEF SchedIInv

\* The statics of the scheduler and the VMX state stay within their types: the
\* slot that runs, the credit array, the launch marks and the regions.
THEOREM SchedTypeCorrect == Spec => []TypeOK
<1>1. SchedIInv => TypeOK BY DEF SchedIInv, Sane, TypeOK
<1>. QED BY <1>1, SchedIInvInit, SchedIInvStep, PTL DEF Spec

\* With sound regions every VM entry continues the guest the scheduler means, with
\* the registers and fields it had when it last exited, for every set of faults of
\* the clone, of slot 1's entry and of the NIC and every sequence of requests.
THEOREM GuestsAreContinued == Spec => []GuestContinues
<1>1. SchedIInv => GuestContinues
  <2>1. SUFFICES ASSUME SchedIInv, Sound, GuestRuns
                 PROVE  /\ h.loaded = h.ptr /\ h.exact
                        /\ h.fields[h.ptr] = "own"
                        /\ h.phase = "sched" => h.cur = h.ptr
    BY DEF GuestContinues
  <2>2. Healthy(h) BY <2>1 DEF SchedIInv, Clean
  <2>. QED BY <2>1, <2>2 DEF Healthy, Ladder, Coexist, Live, GuestRuns
<1>. QED BY <1>1, SchedIInvInit, SchedIInvStep, PTL DEF Spec

\* Scheduling stops only after a fault of the hardware or of a guest, or for want of
\* a NIC: the host never gets the launch state of a VMCS wrong by itself.
THEOREM SchedulingStopsOnlyOnFault == Spec => []StopsOnlyOnFault
<1>1. SchedIInv => StopsOnlyOnFault
  <2>1. SUFFICES ASSUME SchedIInv, h.phase \in {"idle", "failed", "off"},
                        ~h.faulty, h.skipped = {}
                 PROVE  h.phase = "off" /\ ~h.armed
    BY DEF StopsOnlyOnFault
  <2>2. Healthy(h) BY <2>1 DEF SchedIInv, Clean
  <2>. QED BY <2>1, <2>2 DEF Healthy, Ladder, Coexist
<1>. QED BY <1>1, SchedIInvInit, SchedIInvStep, PTL DEF Spec

\* Under coexist a slot 1 that was stopped, refused or never started does not run
\* unless G0 is lost, whatever faults happen.
THEOREM ParkedStaysParked == Spec => []ParkedDoesNotRun
<1>1. SchedIInv => ParkedDoesNotRun
  BY DEF SchedIInv, Sane, ParkedDoesNotRun, GuestRuns
<1>. QED BY <1>1, SchedIInvInit, SchedIInvStep, PTL DEF Spec
=============================================================================
