---------------------------- MODULE DeviceProofs ----------------------------
(***************************************************************************)
(* Proofs about what stands behind a guest's devices: its disk on the USB  *)
(* driver (DurableLun, UsbBot), for every disk, block size, number of      *)
(* retries and of faults, and its interrupts (GuestIo, GuestIrq), for      *)
(* every set of guests and every ring size.                                *)
(***************************************************************************)
EXTENDS DurableLun, GuestIo, FiniteSetTheorems, SequenceTheorems,
        NaturalsInduction, WellFoundedInduction, TLAPS

\* A non-empty set of naturals has a least element: the first sector the loops
\* have still to handle exists as long as one is left.
LEMMA LeastNatural ==
    ASSUME NEW S \in SUBSET Nat, S # {}
    PROVE  \E x \in S : \A y \in S : x <= y
<1>. DEFINE R == OpToRel(<, Nat)
<1>1. IsWellFoundedOn(R, Nat) BY NatLessThanWellFounded
<1>. HIDE DEF R
<1>2. \E x \in S : \A y \in S : ~ (<<y, x>> \in R) BY <1>1, WFMin
<1>3. \A x, y \in Nat : (y < x) => <<y, x>> \in R BY DEF R, OpToRel
<1>4. PICK x \in S : \A y \in S : ~ (<<y, x>> \in R) BY <1>2
<1>5. \A y \in S : ~ (y < x) BY <1>3, <1>4
<1>6. \A y \in S : x <= y BY <1>5
<1>. QED BY <1>6

-----------------------------------------------------------------------------
(* Rings and completions *)

Trb == {"cbw", "data", "sense", "csw"}

Event == [ep : Eps, ok : BOOLEAN]

\* The completions of endpoint ep among the events q.
OkOf(q, ep) == {i \in 1 .. Len(q) : q[i].ok /\ q[i].ep = ep}

Oks(q, ep) == Cardinality(OkOf(q, ep))

\* The completions waiting in the event ring are finitely many.
LEMMA OksNat ==
    ASSUME NEW q \in Seq(Event), NEW ep \in Eps
    PROVE  IsFiniteSet(OkOf(q, ep)) /\ Oks(q, ep) \in Nat
<1>1. Len(q) \in Nat OBVIOUS
<1>2. IsFiniteSet(1 .. Len(q)) BY <1>1, FS_Interval
<1>3. OkOf(q, ep) \in SUBSET (1 .. Len(q)) BY DEF OkOf
<1>4. IsFiniteSet(OkOf(q, ep)) BY <1>2, <1>3, FS_Subset
<1>. QED BY <1>4, FS_CardinalityType DEF Oks

\* A drained event ring holds no completion.
LEMMA OksEmpty == ASSUME NEW ep PROVE Oks(<< >>, ep) = 0
<1>1. OkOf(<< >>, ep) = {} BY DEF OkOf
<1>. QED BY <1>1, FS_EmptySet DEF Oks

\* The controller posts an event.
LEMMA OksAppend ==
    ASSUME NEW q \in Seq(Event), NEW e \in Event, NEW ep \in Eps
    PROVE  Oks(Append(q, e), ep) = IF e.ok /\ e.ep = ep THEN Oks(q, ep) + 1 ELSE Oks(q, ep)
<1>. DEFINE n == Len(q) + 1
<1>1. n \in Nat /\ n \notin OkOf(q, ep) BY DEF OkOf
<1>2. /\ Append(q, e) \in Seq(Event) /\ Len(Append(q, e)) = n
      /\ Append(q, e)[n] = e /\ \A i \in 1 .. Len(q) : Append(q, e)[i] = q[i]
  OBVIOUS
<1>3. CASE e.ok /\ e.ep = ep
  <2>1. OkOf(Append(q, e), ep) = OkOf(q, ep) \cup {n} BY <1>1, <1>2, <1>3 DEF OkOf
  <2>2. IsFiniteSet(OkOf(q, ep)) BY OksNat
  <2>3. Cardinality(OkOf(q, ep) \cup {n}) = Cardinality(OkOf(q, ep)) + 1
    BY <2>2, <1>1, FS_AddElement
  <2>. QED BY <2>1, <2>3, <1>3 DEF Oks
<1>4. CASE ~ (e.ok /\ e.ep = ep)
  <2>1. OkOf(Append(q, e), ep) = OkOf(q, ep) BY <1>1, <1>2, <1>4 DEF OkOf
  <2>. QED BY <2>1, <1>4 DEF Oks
<1>. QED BY <1>3, <1>4

\* The driver takes the oldest event.
LEMMA OksTail ==
    ASSUME NEW q \in Seq(Event), q # << >>, NEW ep \in Eps
    PROVE  Oks(q, ep) = IF q[1].ok /\ q[1].ep = ep THEN Oks(Tail(q), ep) + 1 ELSE Oks(Tail(q), ep)
<1>. DEFINE T == OkOf(Tail(q), ep)  S == OkOf(q, ep) \ {1}  f == [i \in T |-> i + 1]
<1>1. /\ Tail(q) \in Seq(Event) /\ Len(Tail(q)) = Len(q) - 1 /\ Len(q) \in Nat \ {0}
      /\ \A i \in 1 .. Len(q) - 1 : Tail(q)[i] = q[i + 1]
  OBVIOUS
<1>2. \A i \in T : i \in 1 .. Len(q) - 1 /\ i + 1 \in S BY <1>1 DEF OkOf
<1>3. \A i \in S : i - 1 \in T BY <1>1 DEF OkOf
<1>4. f \in [T -> S] BY <1>2
<1>5. \A a, b \in T : f[a] = f[b] => a = b BY <1>2
<1>6. \A t \in S : \E s \in T : f[s] = t
  <2>1. TAKE t \in S
  <2>2. t - 1 \in T /\ t \in Nat BY <1>3, <1>1 DEF OkOf
  <2>3. f[t - 1] = t BY <2>2
  <2>. QED BY <2>2, <2>3
<1>7. f \in Bijection(T, S) BY <1>4, <1>5, <1>6 DEF Bijection, Injection, Surjection, IsInjective
<1>8. IsFiniteSet(T) /\ Cardinality(T) = Oks(Tail(q), ep) BY <1>1, OksNat DEF Oks
<1>9. Cardinality(S) = Cardinality(T) BY <1>7, <1>8, FS_Bijection DEF ExistsBijection
<1>10. Cardinality(S) = IF 1 \in OkOf(q, ep) THEN Oks(q, ep) - 1 ELSE Oks(q, ep)
  BY OksNat, FS_RemoveElement DEF Oks
<1>11. 1 \in OkOf(q, ep) <=> q[1].ok /\ q[1].ep = ep BY <1>1 DEF OkOf
<1>. QED BY <1>8, <1>9, <1>10, <1>11, <1>1, OksNat

-----------------------------------------------------------------------------
(* The USB driver: what its steps do to the rings, the events and the disk *)

OutR == xhc.ring["out"]

InR == xhc.ring["in"]

OutH == xhc.halted["out"]

InH == xhc.halted["in"]

Kinds == {"none", "read", "write", "sense"}

Active == bot.pc \in {"queue", "wait", "recover_out", "recover_in"}

Recovering == bot.pc \in {"recover_out", "recover_in"}

Resting == bot.pc \in {"idle", "queue", "ok", "failed"}

XhcType ==
    /\ DOMAIN xhc = {"ring", "halted", "ev", "cbw", "bounce", "csw"}
    /\ xhc.ring \in [Eps -> Seq(Trb)]
    /\ xhc.halted \in [Eps -> BOOLEAN]
    /\ xhc.ev \in Seq(Event)
    /\ xhc.csw \in [mine : BOOLEAN, ok : BOOLEAN]
    /\ xhc.cbw \in [kind : Kinds, lba : Nat]
    /\ \A i \in 1 .. Len(OutR) : OutR[i] \in {"cbw", "data"}
    /\ xhc.cbw.kind = "none" => OutR = << >>

DevType ==
    /\ dev \in [phase : {"cmd", "out", "in", "csw"}, kind : Kinds, lba : Nat,
                mine : BOOLEAN, ok : BOOLEAN]
    /\ dev.phase = "in" => dev.kind \in {"read", "sense"}
    /\ dev.phase = "out" => dev.kind = "write"

BotType ==
    /\ DOMAIN bot = {"pc", "op", "kind", "lba", "data", "try", "round", "stage", "cmpl", "seen"}
    /\ bot.pc \in {"idle", "queue", "wait", "recover_out", "recover_in", "ok", "failed"}
    /\ bot.seen \in [Eps -> Nat]
    /\ bot.lba \in Nat
    /\ Active => bot.op \in {"read", "write"} /\ bot.kind \in {bot.op, "sense"}
    /\ Recovering => bot.kind = bot.op
    /\ bot.pc = "ok" => bot.op \in {"read", "write"}
    /\ bot.pc = "wait" => bot.stage = "cbw"

UsbType == perLba \in Nat \ {0} /\ senseLost \in BOOLEAN /\ XhcType /\ DevType /\ BotType

\* The rings, the endpoint states and the events, one by one.
LEMMA UsbFields ==
    ASSUME UsbType
    PROVE  /\ OutR \in Seq(Trb) /\ InR \in Seq(Trb) /\ OutH \in BOOLEAN /\ InH \in BOOLEAN
           /\ xhc.ev \in Seq(Event)
BY DEF UsbType, XhcType, OutR, InR, OutH, InH, Eps

\* A TRB of a ring ran and its completion was posted.
RanOut ==
    /\ OutR # << >> /\ ~ OutH /\ OutR' = Tail(OutR)
    /\ InR' = InR /\ OutH' = OutH /\ InH' = InH
    /\ xhc'.ev = Append(xhc.ev, [ep |-> "out", ok |-> TRUE])
    /\ xhc'.cbw = xhc.cbw

RanIn ==
    /\ InR # << >> /\ ~ InH /\ InR' = Tail(InR)
    /\ OutR' = OutR /\ OutH' = OutH /\ InH' = InH
    /\ xhc'.ev = Append(xhc.ev, [ep |-> "in", ok |-> TRUE])
    /\ xhc'.cbw = xhc.cbw

\* A ring stopped on its head TRB.
HaltOut ==
    /\ OutR # << >> /\ ~ OutH /\ OutH' = TRUE /\ InH' = InH
    /\ OutR' = OutR /\ InR' = InR
    /\ xhc'.ev = Append(xhc.ev, [ep |-> "out", ok |-> FALSE])
    /\ xhc'.cbw = xhc.cbw

HaltIn ==
    /\ InR # << >> /\ ~ InH /\ InH' = TRUE /\ OutH' = OutH
    /\ OutR' = OutR /\ InR' = InR
    /\ xhc'.ev = Append(xhc.ev, [ep |-> "in", ok |-> FALSE])
    /\ xhc'.cbw = xhc.cbw

SamePage == xhc'.bounce = xhc.bounce /\ xhc'.csw = xhc.csw

\* The fields of the controller after a TRB ran.
LEMMA RetireIs ==
    ASSUME UsbType, NEW ep \in Eps, Runs(ep), NEW x,
           DOMAIN x = DOMAIN xhc, x.ring = xhc.ring, x.halted = xhc.halted, x.ev = xhc.ev,
           x.cbw = xhc.cbw, xhc' = Retire(x, ep)
    PROVE  /\ xhc'.bounce = x.bounce /\ xhc'.csw = x.csw
           /\ DOMAIN xhc' = DOMAIN xhc /\ xhc'.halted = xhc.halted
           /\ xhc'.ring \in [Eps -> Seq(Trb)] /\ xhc'.ev \in Seq(Event)
           /\ ep = "out" => RanOut
           /\ ep = "in" => RanIn
<1>1. DOMAIN x = {"ring", "halted", "ev", "cbw", "bounce", "csw"} /\ xhc.ring \in [Eps -> Seq(Trb)]
      /\ xhc.ev \in Seq(Event)
  BY DEF UsbType, XhcType
<1>2. xhc.ring[ep] # << >> /\ ~ xhc.halted[ep] BY DEF Runs
<1>3. /\ xhc'.bounce = x.bounce /\ xhc'.csw = x.csw /\ xhc'.cbw = xhc.cbw
      /\ DOMAIN xhc' = DOMAIN xhc /\ xhc'.halted = xhc.halted
      /\ xhc'.ring = [xhc.ring EXCEPT ![ep] = Tail(@)]
      /\ xhc'.ev = Append(xhc.ev, [ep |-> ep, ok |-> TRUE])
  BY <1>1 DEF Retire
<1>4. Tail(xhc.ring[ep]) \in Seq(Trb) BY <1>1, <1>2
<1>5. xhc'.ring \in [Eps -> Seq(Trb)] BY <1>1, <1>3, <1>4
<1>6. [ep |-> ep, ok |-> TRUE] \in Event BY DEF Event
<1>7. xhc'.ev \in Seq(Event) BY <1>1, <1>3, <1>6
<1>8. CASE ep = "out"
  <2>1. xhc'.ring["out"] = Tail(xhc.ring["out"]) /\ xhc'.ring["in"] = xhc.ring["in"]
    BY <1>1, <1>3, <1>8 DEF Eps
  <2>. QED BY <2>1, <1>2, <1>3, <1>5, <1>7, <1>8 DEF RanOut, OutR, InR, OutH, InH
<1>9. CASE ep = "in"
  <2>1. xhc'.ring["in"] = Tail(xhc.ring["in"]) /\ xhc'.ring["out"] = xhc.ring["out"]
    BY <1>1, <1>3, <1>9 DEF Eps
  <2>. QED BY <2>1, <1>2, <1>3, <1>5, <1>7, <1>9 DEF RanIn, OutR, InR, OutH, InH
<1>. QED BY <1>8, <1>9 DEF Eps

\* The fields of the controller after an endpoint halted.
LEMMA HaltIs ==
    ASSUME UsbType, NEW ep \in Eps, Runs(ep), NEW x,
           DOMAIN x = DOMAIN xhc, x.ring = xhc.ring, x.halted = xhc.halted, x.ev = xhc.ev,
           x.cbw = xhc.cbw, xhc' = Halt(x, ep)
    PROVE  /\ xhc'.bounce = x.bounce /\ xhc'.csw = x.csw
           /\ DOMAIN xhc' = DOMAIN xhc /\ xhc'.ring = xhc.ring
           /\ xhc'.halted \in [Eps -> BOOLEAN] /\ xhc'.ev \in Seq(Event)
           /\ ep = "out" => HaltOut
           /\ ep = "in" => HaltIn
<1>1. DOMAIN x = {"ring", "halted", "ev", "cbw", "bounce", "csw"} /\ xhc.halted \in [Eps -> BOOLEAN]
      /\ xhc.ev \in Seq(Event)
  BY DEF UsbType, XhcType
<1>2. xhc.ring[ep] # << >> /\ ~ xhc.halted[ep] BY DEF Runs
<1>3. /\ xhc'.bounce = x.bounce /\ xhc'.csw = x.csw /\ xhc'.cbw = xhc.cbw
      /\ DOMAIN xhc' = DOMAIN xhc /\ xhc'.ring = xhc.ring
      /\ xhc'.halted = [xhc.halted EXCEPT ![ep] = TRUE]
      /\ xhc'.ev = Append(xhc.ev, [ep |-> ep, ok |-> FALSE])
  BY <1>1 DEF Halt
<1>5. xhc'.halted \in [Eps -> BOOLEAN] BY <1>1, <1>3
<1>6. [ep |-> ep, ok |-> FALSE] \in Event BY DEF Event
<1>7. xhc'.ev \in Seq(Event) BY <1>1, <1>3, <1>6
<1>8. CASE ep = "out"
  <2>1. xhc'.halted["out"] = TRUE /\ xhc'.halted["in"] = xhc.halted["in"]
    BY <1>1, <1>3, <1>8 DEF Eps
  <2>. QED BY <2>1, <1>2, <1>3, <1>5, <1>7, <1>8 DEF HaltOut, OutR, InR, OutH, InH
<1>9. CASE ep = "in"
  <2>1. xhc'.halted["in"] = TRUE /\ xhc'.halted["out"] = xhc.halted["out"]
    BY <1>1, <1>3, <1>9 DEF Eps
  <2>. QED BY <2>1, <1>2, <1>3, <1>5, <1>7, <1>9 DEF HaltIn, OutR, InR, OutH, InH
<1>. QED BY <1>8, <1>9 DEF Eps

\* The steps of the disk, in those terms.
CbwTaken ==
    /\ RanOut /\ SamePage /\ disk' = disk
    /\ OutR[1] = "cbw" /\ dev.phase # "out"
    /\ dev'.mine = TRUE /\ dev'.kind = xhc.cbw.kind /\ dev'.lba = xhc.cbw.lba
    /\ \/ dev'.phase = "csw" /\ dev'.ok = FALSE
       \/ dev'.phase = (IF xhc.cbw.kind = "write" THEN "out" ELSE "in") /\ dev'.ok = TRUE

SameCommand == dev'.mine = dev.mine /\ dev'.kind = dev.kind /\ dev'.lba = dev.lba

Stored == [s \in Sectors |-> IF Lba(s) = dev.lba THEN xhc.bounce[Pos(s)] ELSE disk[s]]

DataTaken ==
    /\ RanOut /\ SamePage /\ SameCommand
    /\ OutR[1] = "data" /\ dev.phase = "out" /\ dev'.phase = "csw"
    /\ (dev'.ok = TRUE /\ disk' = Stored) \/ (dev'.ok = FALSE /\ disk' = disk)

CbwForData ==
    /\ RanOut /\ SamePage /\ SameCommand /\ disk' = disk
    /\ OutR[1] = "cbw" /\ dev.phase = "out" /\ dev'.phase = "csw" /\ dev'.ok = FALSE

StopOut == HaltOut /\ SamePage /\ dev' = dev /\ disk' = disk

StopIn == HaltIn /\ SamePage /\ dev' = dev /\ disk' = disk

DataSent ==
    /\ RanIn /\ SameCommand /\ disk' = disk
    /\ dev.phase = "in" /\ dev'.phase = "csw" /\ dev'.ok = dev.ok
    /\ xhc'.csw = xhc.csw
    /\ InR[1] = "data" \/ (InR[1] = "sense" /\ dev.kind = "sense")
    /\ xhc'.bounce = IF dev.kind = "read" THEN OnDisk(dev.lba) ELSE Spoilt(xhc.bounce)

DataTooLong ==
    /\ HaltIn /\ SameCommand /\ disk' = disk
    /\ dev.phase = "in" /\ dev'.phase = "csw" /\ dev'.ok = dev.ok
    /\ xhc'.csw = xhc.csw
    /\ InR[1] # "data"
    /\ InR[1] # "sense" => xhc'.bounce = xhc.bounce

CswSent ==
    /\ RanIn /\ disk' = disk
    /\ dev.phase = "csw" /\ dev' = NoCommand
    /\ IF InR[1] = "csw" THEN xhc'.csw = [mine |-> dev.mine, ok |-> dev.ok] /\ xhc'.bounce = xhc.bounce
                         ELSE xhc'.csw = xhc.csw /\ xhc'.bounce = Spoilt(xhc.bounce)

DeviceDoes ==
    \/ CbwTaken \/ DataTaken \/ CbwForData \/ StopOut \/ StopIn
    \/ DataSent \/ DataTooLong \/ CswSent

\* The OUT ring keeps its kind of TRBs when its head is taken.
LEMMA TailOut ==
    ASSUME UsbType, RanOut
    PROVE  \A i \in 1 .. Len(OutR') : OutR'[i] \in {"cbw", "data"}
<1>1. OutR \in Seq(Trb) /\ OutR # << >> /\ OutR' = Tail(OutR) BY UsbFields DEF RanOut
<1>2. Len(OutR') = Len(OutR) - 1 /\ \A i \in 1 .. Len(OutR') : OutR'[i] = OutR[i + 1] /\ i + 1 \in 1 .. Len(OutR)
  BY <1>1
<1>. QED BY <1>1, <1>2 DEF UsbType, XhcType

\* A CBW is taken.
LEMMA TakeCbwDoes ==
    ASSUME UsbType, TakeCbw
    PROVE  CbwTaken /\ XhcType' /\ DevType'
<1>1. Runs("out") /\ "out" \in Eps /\ xhc' = Retire(xhc, "out") BY DEF TakeCbw, Eps
<1>2. /\ RanOut /\ SamePage /\ DOMAIN xhc' = DOMAIN xhc /\ xhc'.halted = xhc.halted
      /\ xhc'.ring \in [Eps -> Seq(Trb)] /\ xhc'.ev \in Seq(Event)
  BY <1>1, RetireIs DEF SamePage
<1>3. OutR[1] = "cbw" /\ dev.phase # "out" /\ disk' = disk BY UsbFields DEF TakeCbw, OutR, Runs
<1>4. PICK ph \in {IF xhc.cbw.kind = "write" THEN "out" ELSE "in", "csw"} :
         dev' = [phase |-> ph, kind |-> xhc.cbw.kind, lba |-> xhc.cbw.lba,
                 mine |-> TRUE, ok |-> ph # "csw"]
  BY DEF TakeCbw
<1>5. xhc.cbw.kind \in Kinds /\ xhc.cbw.lba \in Nat /\ xhc.cbw.kind # "none"
  BY <1>2 DEF UsbType, XhcType, RanOut
<1>6. CbwTaken BY <1>2, <1>3, <1>4 DEF CbwTaken
<1>7. DevType' BY <1>4, <1>5 DEF DevType, Kinds
<1>8. xhc'.cbw = xhc.cbw BY <1>2 DEF RanOut
<1>9. XhcType' BY <1>2, <1>5, <1>8, TailOut DEF UsbType, XhcType, SamePage
<1>. QED BY <1>6, <1>7, <1>9

\* The data of a write is taken.
LEMMA TakeDataDoes ==
    ASSUME UsbType, TakeData
    PROVE  DataTaken /\ XhcType' /\ DevType'
<1>1. Runs("out") /\ "out" \in Eps /\ xhc' = Retire(xhc, "out") BY DEF TakeData, Eps
<1>2. /\ RanOut /\ SamePage /\ DOMAIN xhc' = DOMAIN xhc /\ xhc'.halted = xhc.halted
      /\ xhc'.ring \in [Eps -> Seq(Trb)] /\ xhc'.ev \in Seq(Event)
  BY <1>1, RetireIs DEF SamePage
<1>3. OutR[1] = "data" /\ dev.phase = "out" BY UsbFields DEF TakeData, OutR, Runs
<1>4. PICK stored \in BOOLEAN :
         /\ dev' = [dev EXCEPT !.phase = "csw", !.ok = stored]
         /\ disk' = IF stored THEN Stored ELSE disk
  BY Zenon DEF TakeData, Stored
<1>5. dev'.phase = "csw" /\ dev'.ok = stored /\ SameCommand BY <1>4 DEF UsbType, DevType, SameCommand
<1>6. DataTaken
  <2>1. CASE stored = TRUE BY <2>1, <1>2, <1>3, <1>4, <1>5 DEF DataTaken
  <2>2. CASE stored = FALSE BY <2>2, <1>2, <1>3, <1>4, <1>5 DEF DataTaken
  <2>. QED BY <2>1, <2>2
<1>7. DevType' BY <1>4, <1>5 DEF UsbType, DevType
<1>8. xhc'.cbw = xhc.cbw BY <1>2 DEF RanOut
<1>9. xhc.cbw.kind # "none" BY <1>2 DEF UsbType, XhcType, RanOut
<1>10. XhcType' BY <1>2, <1>8, <1>9, TailOut DEF UsbType, XhcType, SamePage
<1>. QED BY <1>6, <1>7, <1>10

\* A CBW where data is due.
LEMMA ShortDataDoes ==
    ASSUME UsbType, ShortData
    PROVE  CbwForData /\ XhcType' /\ DevType'
<1>1. Runs("out") /\ "out" \in Eps /\ xhc' = Retire(xhc, "out") BY DEF ShortData, Eps
<1>2. /\ RanOut /\ SamePage /\ DOMAIN xhc' = DOMAIN xhc /\ xhc'.halted = xhc.halted
      /\ xhc'.ring \in [Eps -> Seq(Trb)] /\ xhc'.ev \in Seq(Event)
  BY <1>1, RetireIs DEF SamePage
<1>3. OutR[1] = "cbw" /\ dev.phase = "out" /\ disk' = disk BY UsbFields DEF ShortData, OutR, Runs
<1>4. dev' = [dev EXCEPT !.phase = "csw", !.ok = FALSE] BY DEF ShortData
<1>5. dev'.phase = "csw" /\ dev'.ok = FALSE /\ SameCommand BY <1>4 DEF UsbType, DevType, SameCommand
<1>6. CbwForData BY <1>2, <1>3, <1>5 DEF CbwForData
<1>7. DevType' BY <1>4, <1>5 DEF UsbType, DevType
<1>8. xhc'.cbw = xhc.cbw BY <1>2 DEF RanOut
<1>9. xhc.cbw.kind # "none" BY <1>2 DEF UsbType, XhcType, RanOut
<1>10. XhcType' BY <1>2, <1>8, <1>9, TailOut DEF UsbType, XhcType, SamePage
<1>. QED BY <1>6, <1>7, <1>10

\* An endpoint halts: data where a CBW is due, a stall, a transaction error.
LEMMA HaltDoes ==
    ASSUME UsbType, NEW ep \in Eps, Runs(ep), xhc' = Halt(xhc, ep), dev' = dev, disk' = disk
    PROVE  (StopOut \/ StopIn) /\ XhcType' /\ DevType'
<1>1. /\ SamePage /\ DOMAIN xhc' = DOMAIN xhc /\ xhc'.ring = xhc.ring
      /\ xhc'.halted \in [Eps -> BOOLEAN] /\ xhc'.ev \in Seq(Event)
      /\ HaltOut \/ HaltIn
  BY HaltIs DEF SamePage, Eps
<1>2. xhc'.cbw = xhc.cbw /\ OutR' = OutR BY <1>1 DEF HaltOut, HaltIn
<1>3. XhcType' BY <1>1, <1>2 DEF UsbType, XhcType, SamePage
<1>4. DevType' BY DEF UsbType, DevType
<1>. QED BY <1>1, <1>3, <1>4 DEF StopOut, StopIn

\* The disk sends data.
LEMMA SendDataDoes ==
    ASSUME UsbType, SendData
    PROVE  (DataSent \/ DataTooLong) /\ XhcType' /\ DevType'
<1>. DEFINE trb == Head(xhc.ring["in"])
            data == IF dev.kind = "read" THEN OnDisk(dev.lba) ELSE Spoilt(xhc.bounce)
            fits == trb = "data" \/ (trb = "sense" /\ dev.kind = "sense")
            junk == Spoilt(xhc.bounce)
            xd == [xhc EXCEPT !.bounce = data]
            xj == [xhc EXCEPT !.bounce = junk]
<1>1. Runs("in") /\ "in" \in Eps /\ dev.phase = "in" /\ disk' = disk BY DEF SendData, Eps
<1>2. xhc' = IF fits THEN Retire(xd, "in") ELSE IF trb = "sense" THEN Halt(xj, "in") ELSE Halt(xhc, "in")
  BY Zenon DEF SendData
<1>3. dev' = [dev EXCEPT !.phase = "csw"] BY DEF SendData
<1>4. dev'.phase = "csw" /\ dev'.ok = dev.ok /\ SameCommand BY <1>3 DEF UsbType, DevType, SameCommand
<1>5. DevType' BY <1>3, <1>4 DEF UsbType, DevType
<1>6. DOMAIN xhc = {"ring", "halted", "ev", "cbw", "bounce", "csw"} BY DEF UsbType, XhcType
<1>. HIDE DEF data, junk
<1>7. /\ DOMAIN xd = DOMAIN xhc /\ xd.ring = xhc.ring /\ xd.halted = xhc.halted /\ xd.ev = xhc.ev
      /\ xd.cbw = xhc.cbw /\ xd.csw = xhc.csw /\ xd.bounce = data
  BY <1>6
<1>8. /\ DOMAIN xj = DOMAIN xhc /\ xj.ring = xhc.ring /\ xj.halted = xhc.halted /\ xj.ev = xhc.ev
      /\ xj.cbw = xhc.cbw /\ xj.csw = xhc.csw /\ xj.bounce = junk
  BY <1>6
<1>9. trb = InR[1] BY <1>1, UsbFields DEF InR, Runs
<1>. HIDE DEF xd, xj
<1>10. CASE fits
  <2>1. xhc' = Retire(xd, "in") BY <1>2, <1>10
  <2>2. /\ xhc'.bounce = data /\ xhc'.csw = xhc.csw /\ RanIn
        /\ DOMAIN xhc' = DOMAIN xhc /\ xhc'.halted = xhc.halted
        /\ xhc'.ring \in [Eps -> Seq(Trb)] /\ xhc'.ev \in Seq(Event)
    BY <2>1, <1>1, <1>7, RetireIs
  <2>3. DataSent BY <2>2, <1>1, <1>4, <1>9, <1>10 DEF DataSent, data
  <2>4. xhc'.cbw = xhc.cbw /\ OutR' = OutR BY <2>2 DEF RanIn
  <2>5. XhcType' BY <2>2, <2>4 DEF UsbType, XhcType
  <2>. QED BY <2>3, <2>5, <1>5
<1>11. CASE ~ fits
  <2>1. xhc' = Halt(xj, "in") \/ (xhc' = Halt(xhc, "in") /\ trb # "sense") BY <1>2, <1>11
  <2>2. /\ xhc'.csw = xhc.csw /\ HaltIn /\ (trb # "sense" => xhc'.bounce = xhc.bounce)
        /\ DOMAIN xhc' = DOMAIN xhc /\ xhc'.ring = xhc.ring
        /\ xhc'.halted \in [Eps -> BOOLEAN] /\ xhc'.ev \in Seq(Event)
    <3>1. CASE xhc' = Halt(xhc, "in") /\ trb # "sense" BY <3>1, <1>1, HaltIs
    <3>2. CASE trb = "sense"
      <4>1. xhc' = Halt(xj, "in") BY <2>1, <3>2
      <4>. QED BY <4>1, <3>2, <1>1, <1>8, HaltIs
    <3>. QED BY <3>1, <3>2, <1>2, <1>11
  <2>3. DataTooLong BY <2>2, <1>1, <1>4, <1>9, <1>11 DEF DataTooLong
  <2>4. xhc'.cbw = xhc.cbw /\ OutR' = OutR BY <2>2 DEF HaltIn
  <2>5. XhcType' BY <2>2, <2>4 DEF UsbType, XhcType
  <2>. QED BY <2>3, <2>5, <1>5
<1>. QED BY <1>10, <1>11

\* The disk sends the status.
LEMMA SendCswDoes ==
    ASSUME UsbType, SendCsw
    PROVE  CswSent /\ XhcType' /\ DevType'
<1>. DEFINE st == [mine |-> dev.mine, ok |-> dev.ok]
            junk == Spoilt(xhc.bounce)
            xs == [xhc EXCEPT !.csw = st]
            xj == [xhc EXCEPT !.bounce = junk]
<1>1. Runs("in") /\ "in" \in Eps /\ dev.phase = "csw" /\ disk' = disk /\ dev' = NoCommand
  BY DEF SendCsw, Eps
<1>2. xhc' = Retire(IF Head(xhc.ring["in"]) = "csw" THEN xs ELSE xj, "in") BY Zenon DEF SendCsw
<1>3. st \in [mine : BOOLEAN, ok : BOOLEAN] BY DEF UsbType, DevType
<1>5. DevType' BY <1>1 DEF DevType, NoCommand, Kinds
<1>6. DOMAIN xhc = {"ring", "halted", "ev", "cbw", "bounce", "csw"} BY DEF UsbType, XhcType
<1>. HIDE DEF st, junk
<1>7. /\ DOMAIN xs = DOMAIN xhc /\ xs.ring = xhc.ring /\ xs.halted = xhc.halted /\ xs.ev = xhc.ev
      /\ xs.cbw = xhc.cbw /\ xs.csw = st /\ xs.bounce = xhc.bounce
  BY <1>6
<1>8. /\ DOMAIN xj = DOMAIN xhc /\ xj.ring = xhc.ring /\ xj.halted = xhc.halted /\ xj.ev = xhc.ev
      /\ xj.cbw = xhc.cbw /\ xj.csw = xhc.csw /\ xj.bounce = junk
  BY <1>6
<1>9. Head(xhc.ring["in"]) = InR[1] BY <1>1, UsbFields DEF InR, Runs
<1>. HIDE DEF xs, xj
<1>10. CASE InR[1] = "csw"
  <2>1. xhc' = Retire(xs, "in") BY <1>2, <1>9, <1>10
  <2>2. /\ xhc'.bounce = xhc.bounce /\ xhc'.csw = st /\ RanIn
        /\ DOMAIN xhc' = DOMAIN xhc /\ xhc'.halted = xhc.halted
        /\ xhc'.ring \in [Eps -> Seq(Trb)] /\ xhc'.ev \in Seq(Event)
    BY <2>1, <1>1, <1>7, RetireIs
  <2>3. CswSent BY <2>2, <1>1, <1>10 DEF CswSent, st
  <2>4. xhc'.cbw = xhc.cbw /\ OutR' = OutR BY <2>2 DEF RanIn
  <2>5. XhcType' BY <2>2, <2>4, <1>3 DEF UsbType, XhcType
  <2>. QED BY <2>3, <2>5, <1>5
<1>11. CASE InR[1] # "csw"
  <2>1. xhc' = Retire(xj, "in") BY <1>2, <1>9, <1>11
  <2>2. /\ xhc'.bounce = junk /\ xhc'.csw = xhc.csw /\ RanIn
        /\ DOMAIN xhc' = DOMAIN xhc /\ xhc'.halted = xhc.halted
        /\ xhc'.ring \in [Eps -> Seq(Trb)] /\ xhc'.ev \in Seq(Event)
    BY <2>1, <1>1, <1>8, RetireIs
  <2>3. CswSent BY <2>2, <1>1, <1>11 DEF CswSent, junk
  <2>4. xhc'.cbw = xhc.cbw /\ OutR' = OutR BY <2>2 DEF RanIn
  <2>5. XhcType' BY <2>2, <2>4 DEF UsbType, XhcType
  <2>. QED BY <2>3, <2>5, <1>5
<1>. QED BY <1>10, <1>11

\* What the controller and the disk can do.
LEMMA DeviceStepDoes ==
    ASSUME UsbType, DeviceStep
    PROVE  DeviceDoes /\ UsbType' /\ UNCHANGED <<perLba, bot, senseLost>>
<1>1. UNCHANGED <<perLba, bot, senseLost>>
  BY DEF DeviceStep, TakeCbw, TakeData, ShortData, StallData, SendData, SendCsw, Fault
<1>2. BotType' BY <1>1 DEF UsbType, BotType, Active, Recovering
<1>3. CASE TakeCbw BY <1>3, TakeCbwDoes, <1>1, <1>2 DEF DeviceDoes, UsbType
<1>4. CASE TakeData BY <1>4, TakeDataDoes, <1>1, <1>2 DEF DeviceDoes, UsbType
<1>5. CASE ShortData BY <1>5, ShortDataDoes, <1>1, <1>2 DEF DeviceDoes, UsbType
<1>6. CASE StallData
  <2>1. "out" \in Eps /\ Runs("out") /\ xhc' = Halt(xhc, "out") /\ dev' = dev /\ disk' = disk
    BY <1>6 DEF StallData, Eps
  <2>. QED BY <2>1, HaltDoes, <1>1, <1>2 DEF DeviceDoes, UsbType
<1>7. CASE SendData BY <1>7, SendDataDoes, <1>1, <1>2 DEF DeviceDoes, UsbType
<1>8. CASE SendCsw BY <1>8, SendCswDoes, <1>1, <1>2 DEF DeviceDoes, UsbType
<1>9. CASE \E ep \in Eps : Fault(ep)
  <2>1. PICK ep \in Eps : Fault(ep) BY <1>9
  <2>2. Runs(ep) /\ xhc' = Halt(xhc, ep) /\ dev' = dev /\ disk' = disk BY <2>1 DEF Fault
  <2>. QED BY <2>2, HaltDoes, <1>1, <1>2 DEF DeviceDoes, UsbType
<1>. QED BY <1>3, <1>4, <1>5, <1>6, <1>7, <1>8, <1>9 DEF DeviceStep

\* The steps of the driver, in the same terms.
SameCall == bot'.op = bot.op /\ bot'.lba = bot.lba /\ bot'.data = bot.data

Again == bot'.pc = "queue" /\ bot'.kind = bot.op /\ SameCall

GaveUp == bot'.pc = "failed" /\ bot'.op = "none"

SenseNext == bot'.pc = "queue" /\ bot'.kind = "sense" /\ SameCall

ToRecover == bot'.pc = "recover_out" /\ bot'.kind = bot.kind /\ SameCall

SameDisk == dev' = dev /\ disk' = disk

SameRings == OutR' = OutR /\ InR' = InR /\ OutH' = OutH /\ InH' = InH /\ xhc'.cbw = xhc.cbw

Queued ==
    /\ bot.pc = "queue" /\ bot'.pc = "wait" /\ bot'.kind = bot.kind /\ SameCall
    /\ bot'.seen["out"] = 0 /\ bot'.seen["in"] = 0
    /\ OutR' = OutR \o Trbs(bot.kind).out /\ InR' = InR \o Trbs(bot.kind).in
    /\ OutH' = OutH /\ InH' = InH /\ xhc'.ev = << >>
    /\ xhc'.cbw.kind = bot.kind /\ xhc'.cbw.lba = bot.lba
    /\ bot.kind = "write" => xhc'.bounce = bot.data
    /\ xhc'.csw.mine = FALSE
    /\ dev'.mine = FALSE /\ dev'.phase = dev.phase /\ dev'.kind = dev.kind /\ dev'.lba = dev.lba
    /\ disk' = disk /\ senseLost' = senseLost

Counted(ep) ==
    /\ xhc.ev[1].ep = ep
    /\ bot'.seen[ep] = bot.seen[ep] + 1 /\ \A e \in Eps \ {ep} : bot'.seen[e] = bot.seen[e]

PollOk ==
    /\ bot.pc = "wait" /\ xhc.ev # << >> /\ xhc.ev[1].ok = TRUE
    /\ \E ep \in Eps : Counted(ep)
    /\ bot'.pc = "wait" /\ bot'.kind = bot.kind /\ SameCall
    /\ xhc'.ev = Tail(xhc.ev) /\ SameRings /\ SamePage /\ SameDisk /\ senseLost' = senseLost

PollError ==
    /\ bot.pc = "wait" /\ xhc.ev # << >> /\ xhc.ev[1].ok = FALSE
    /\ Again \/ GaveUp
    /\ xhc'.ev = Tail(xhc.ev) /\ SameRings /\ SamePage /\ SameDisk
    /\ senseLost' = (senseLost \/ bot.kind = "sense")

TimedOut ==
    /\ bot.pc = "wait" /\ xhc' = xhc /\ SameDisk
    /\ \/ bot.kind = "sense" /\ (Again \/ GaveUp) /\ senseLost' = TRUE
       \/ bot.kind # "sense" /\ ToRecover /\ senseLost' = senseLost

Finished ==
    /\ bot.pc = "wait" /\ Enough /\ xhc' = xhc /\ SameDisk /\ senseLost' = senseLost
    /\ \/ bot.kind = "sense" /\ (Again \/ GaveUp)
       \/ bot.kind # "sense" /\ ToRecover
       \/ /\ bot.kind # "sense" /\ xhc.csw.mine = TRUE /\ xhc.csw.ok = TRUE
          /\ bot'.pc = "ok" /\ bot'.op = bot.op /\ bot'.lba = bot.lba
          /\ bot.op = "read" => bot'.data = xhc.bounce

OutRecovered ==
    /\ bot.pc = "recover_out" /\ bot'.pc = "recover_in" /\ bot'.kind = bot.kind /\ SameCall
    /\ OutR' = << >> /\ OutH' = FALSE /\ InR' = InR /\ InH' = InH /\ xhc'.ev = << >>
    /\ xhc'.cbw = xhc.cbw /\ SamePage /\ SameDisk /\ senseLost' = senseLost

InRecovered ==
    /\ bot.pc = "recover_in" /\ (Again \/ SenseNext \/ GaveUp)
    /\ InR' = << >> /\ InH' = FALSE /\ OutR' = OutR /\ OutH' = OutH /\ xhc'.ev = << >>
    /\ xhc'.cbw = xhc.cbw /\ SamePage /\ SameDisk /\ senseLost' = senseLost

DriverDoes ==
    Queued \/ PollOk \/ PollError \/ TimedOut \/ Finished \/ OutRecovered \/ InRecovered

\* The driver's record that an attempt starts from.
SameBot(b) ==
    /\ DOMAIN b = DOMAIN bot /\ b.op = bot.op /\ b.kind = bot.kind /\ b.lba = bot.lba
    /\ b.data = bot.data /\ b.seen = bot.seen

\* A failed attempt is followed by another of the same request, or by none.
LEMMA NextTryIs ==
    ASSUME UsbType, Active, NEW b, SameBot(b), bot' = NextTry(b)
    PROVE  (Again \/ GaveUp) /\ BotType'
<1>1. /\ DOMAIN b = {"pc", "op", "kind", "lba", "data", "try", "round", "stage", "cmpl", "seen"}
      /\ b.op \in {"read", "write"} /\ b.lba \in Nat /\ b.seen \in [Eps -> Nat]
      /\ b.op = bot.op /\ b.lba = bot.lba /\ b.data = bot.data
  BY DEF UsbType, BotType, SameBot
<1>2. CASE b.try < Tries
  <2>. DEFINE t == b.try + 1
  <2>1. bot' = [b EXCEPT !.pc = "queue", !.kind = b.op, !.try = t] BY <1>2 DEF NextTry
  <2>. HIDE DEF t
  <2>2. Again BY <2>1, <1>1 DEF Again, SameCall
  <2>3. BotType' BY <2>1, <1>1 DEF BotType, Active, Recovering
  <2>. QED BY <2>2, <2>3
<1>3. CASE ~ (b.try < Tries) /\ b.round < Rounds
  <2>. DEFINE t == b.round + 1
  <2>1. bot' = [b EXCEPT !.pc = "queue", !.kind = b.op, !.try = 1, !.round = t] BY <1>3 DEF NextTry
  <2>. HIDE DEF t
  <2>2. Again BY <2>1, <1>1 DEF Again, SameCall
  <2>3. BotType' BY <2>1, <1>1 DEF BotType, Active, Recovering
  <2>. QED BY <2>2, <2>3
<1>4. CASE ~ (b.try < Tries) /\ ~ (b.round < Rounds)
  <2>1. bot' = [NoCall EXCEPT !.pc = "failed"] BY <1>4 DEF NextTry
  <2>2. GaveUp BY <2>1 DEF GaveUp, NoCall
  <2>3. BotType' BY <2>1 DEF BotType, Active, Recovering, NoCall
  <2>. QED BY <2>2, <2>3
<1>. QED BY <1>2, <1>3, <1>4

\* REQUEST SENSE, or the next attempt.
LEMMA ClearSenseIs ==
    ASSUME UsbType, Active, NEW b, SameBot(b), bot' = ClearSense(b)
    PROVE  /\ Again \/ GaveUp \/ SenseNext
           /\ BotType'
           /\ b.stage = "cbw" => Again \/ GaveUp
<1>1. /\ DOMAIN b = {"pc", "op", "kind", "lba", "data", "try", "round", "stage", "cmpl", "seen"}
      /\ b.op \in {"read", "write"} /\ b.lba \in Nat /\ b.seen \in [Eps -> Nat]
      /\ b.op = bot.op /\ b.lba = bot.lba /\ b.data = bot.data
  BY DEF UsbType, BotType, SameBot
<1>2. CASE b.stage = "csw" /\ b.cmpl = "bot"
  <2>1. bot' = [b EXCEPT !.pc = "queue", !.kind = "sense"] BY <1>2 DEF ClearSense
  <2>2. SenseNext BY <2>1, <1>1 DEF SenseNext, SameCall
  <2>3. BotType' BY <2>1, <1>1 DEF BotType, Active, Recovering
  <2>. QED BY <2>2, <2>3, <1>2
<1>3. CASE ~ (b.stage = "csw" /\ b.cmpl = "bot")
  <2>1. bot' = NextTry(b) BY <1>3 DEF ClearSense
  <2>. QED BY <2>1, NextTryIs
<1>. QED BY <1>2, <1>3

\* The Err arm: a timeout or a wrong status is recovered from, an error event before
\* the CBW was seen to complete is not.
LEMMA FailedIs ==
    ASSUME UsbType, bot.pc = "wait", NEW b, SameBot(b), bot' = Failed(b)
    PROVE  /\ BotType'
           /\ bot.kind = "sense" => Again \/ GaveUp
           /\ bot.kind # "sense" /\ (b.stage = "csw" \/ b.cmpl = "timeout") => ToRecover
           /\ b.stage = "cbw" /\ b.cmpl # "timeout" => Again \/ GaveUp
<1>1. /\ DOMAIN b = {"pc", "op", "kind", "lba", "data", "try", "round", "stage", "cmpl", "seen"}
      /\ b.op \in {"read", "write"} /\ b.lba \in Nat /\ b.seen \in [Eps -> Nat]
      /\ b.op = bot.op /\ b.lba = bot.lba /\ b.data = bot.data /\ b.kind = bot.kind
      /\ b.kind \in {b.op, "sense"} /\ Active
  BY DEF UsbType, BotType, SameBot, Active
<1>2. CASE b.kind = "sense"
  <2>1. bot' = NextTry(b) BY <1>2 DEF Failed
  <2>. QED BY <2>1, <1>1, <1>2, NextTryIs
<1>3. CASE b.kind # "sense" /\ RecoverAfterFail(b)
  <2>1. bot' = [b EXCEPT !.pc = "recover_out"] BY <1>3 DEF Failed
  <2>2. ToRecover BY <2>1, <1>1 DEF ToRecover, SameCall
  <2>3. BotType' BY <2>1, <1>1, <1>3 DEF BotType, Active, Recovering
  <2>. QED BY <2>2, <2>3, <1>1, <1>3 DEF RecoverAfterFail
<1>4. CASE b.kind # "sense" /\ ~ RecoverAfterFail(b)
  <2>1. bot' = ClearSense(b) BY <1>4 DEF Failed
  <2>2. BotType' /\ (b.stage = "cbw" => Again \/ GaveUp) BY <2>1, <1>1, ClearSenseIs
  <2>. QED BY <2>2, <1>1, <1>4 DEF RecoverAfterFail
<1>. QED BY <1>2, <1>3, <1>4

\* The TRBs of a command.
LEMMA TrbsIs ==
    /\ Trbs("read").out = <<"cbw">> /\ Trbs("read").in = <<"data", "csw">>
    /\ Trbs("sense").out = <<"cbw">> /\ Trbs("sense").in = <<"sense", "csw">>
    /\ Trbs("write").out = <<"cbw", "data">> /\ Trbs("write").in = <<"csw">>
<1>1. Trbs("read") = [out |-> <<"cbw">>, in |-> <<"data", "csw">>] BY DEF Trbs
<1>2. Trbs("sense") = [out |-> <<"cbw">>, in |-> <<"sense", "csw">>] BY DEF Trbs
<1>3. Trbs("write") = [out |-> <<"cbw", "data">>, in |-> <<"csw">>] BY DEF Trbs
<1>. QED BY <1>1, <1>2, <1>3

\* They are TRBs, and the OUT ring gets no other than CBWs and data.
LEMMA TrbsType ==
    ASSUME NEW k \in {"read", "write", "sense"}
    PROVE  /\ Trbs(k).out \in Seq(Trb) /\ Trbs(k).in \in Seq(Trb)
           /\ \A i \in 1 .. Len(Trbs(k).out) : Trbs(k).out[i] \in {"cbw", "data"}
<1>1. <<"cbw">> \in Seq(Trb) /\ <<"csw">> \in Seq(Trb) /\ <<"cbw", "data">> \in Seq(Trb)
      /\ <<"data", "csw">> \in Seq(Trb) /\ <<"sense", "csw">> \in Seq(Trb)
  BY DEF Trb
<1>2. Trbs(k).out \in {<<"cbw">>, <<"cbw", "data">>} BY TrbsIs
<1>3. Trbs(k).in \in {<<"csw">>, <<"data", "csw">>, <<"sense", "csw">>} BY TrbsIs
<1>4. ASSUME NEW t \in {<<"cbw">>, <<"cbw", "data">>}
      PROVE  \A i \in 1 .. Len(t) : t[i] \in {"cbw", "data"}
  OBVIOUS
<1>. QED BY <1>1, <1>2, <1>3, <1>4

\* A command is queued.
LEMMA QueueDoes ==
    ASSUME UsbType, Queue
    PROVE  Queued /\ UsbType'
<1>. DEFINE rings == [ep \in Eps |-> xhc.ring[ep] \o Trbs(bot.kind)[ep]]
            cbw == [kind |-> bot.kind, lba |-> bot.lba]
            page == CASE bot.kind = "write" -> bot.data
                      [] bot.kind = "read"  -> Fill(0)
                      [] bot.kind = "sense" -> Spoilt(xhc.bounce)
            zero == [ep \in Eps |-> 0]
<1>1. /\ bot.pc = "queue" /\ disk' = disk /\ senseLost' = senseLost /\ perLba' = perLba
      /\ dev' = [dev EXCEPT !.mine = FALSE]
  BY DEF Queue
<1>2. xhc' = [xhc EXCEPT !.ring = rings, !.ev = << >>, !.cbw = cbw, !.bounce = page, !.csw = NoCsw]
  BY Zenon DEF Queue
<1>3. bot' = [bot EXCEPT !.pc = "wait", !.stage = "cbw", !.cmpl = "ok", !.seen = zero]
  BY DEF Queue
<1>4. /\ bot.op \in {"read", "write"} /\ bot.kind \in {"read", "write", "sense"} /\ bot.lba \in Nat
      /\ bot.kind \in {bot.op, "sense"}
      /\ DOMAIN bot = {"pc", "op", "kind", "lba", "data", "try", "round", "stage", "cmpl", "seen"}
  BY <1>1 DEF UsbType, BotType, Active
<1>5. /\ Trbs(bot.kind).out \in Seq(Trb) /\ Trbs(bot.kind).in \in Seq(Trb)
      /\ \A i \in 1 .. Len(Trbs(bot.kind).out) : Trbs(bot.kind).out[i] \in {"cbw", "data"}
  BY <1>4, TrbsType
<1>6. /\ rings \in [Eps -> Seq(Trb)]
      /\ rings["out"] = OutR \o Trbs(bot.kind).out /\ rings["in"] = InR \o Trbs(bot.kind).in
  <2>1. rings["out"] = OutR \o Trbs(bot.kind).out /\ rings["in"] = InR \o Trbs(bot.kind).in
    BY DEF Eps, OutR, InR
  <2>2. OutR \o Trbs(bot.kind).out \in Seq(Trb) /\ InR \o Trbs(bot.kind).in \in Seq(Trb)
    BY <1>5, UsbFields
  <2>. QED BY <2>1, <2>2 DEF Eps
<1>7. bot.kind = "write" => page = bot.data OBVIOUS
<1>8. cbw \in [kind : Kinds, lba : Nat] /\ cbw.kind = bot.kind /\ cbw.lba = bot.lba /\ cbw.kind # "none"
  BY <1>4 DEF Kinds
<1>9. zero \in [Eps -> Nat] /\ zero["out"] = 0 /\ zero["in"] = 0 BY DEF Eps
<1>. HIDE DEF rings, page, cbw, zero
<1>10. DOMAIN xhc = {"ring", "halted", "ev", "cbw", "bounce", "csw"} BY DEF UsbType, XhcType
<1>11. /\ DOMAIN xhc' = DOMAIN xhc /\ xhc'.ring = rings /\ xhc'.halted = xhc.halted /\ xhc'.ev = << >>
       /\ xhc'.cbw = cbw /\ xhc'.bounce = page /\ xhc'.csw = NoCsw
  BY <1>2, <1>10
<1>12. /\ dev' \in [phase : {"cmd", "out", "in", "csw"}, kind : Kinds, lba : Nat,
                mine : BOOLEAN, ok : BOOLEAN]
       /\ dev'.mine = FALSE /\ dev'.phase = dev.phase /\ dev'.kind = dev.kind /\ dev'.lba = dev.lba
  BY <1>1 DEF UsbType, DevType
<1>13. DevType' BY <1>12 DEF UsbType, DevType
<1>14. BotType' /\ bot'.pc = "wait" /\ bot'.kind = bot.kind /\ SameCall /\ bot'.seen = zero
  BY <1>3, <1>4, <1>9 DEF BotType, Active, Recovering, SameCall
<1>15. << >> \in Seq(Event) OBVIOUS
<1>16. NoCsw \in [mine : BOOLEAN, ok : BOOLEAN] /\ NoCsw.mine = FALSE BY DEF NoCsw
<1>17. OutR' = OutR \o Trbs(bot.kind).out /\ InR' = InR \o Trbs(bot.kind).in /\ OutH' = OutH /\ InH' = InH
  BY <1>6, <1>11 DEF OutR, InR, OutH, InH
<1>18. \A i \in 1 .. Len(OutR') : OutR'[i] \in {"cbw", "data"}
  <2>. DEFINE t == Trbs(bot.kind).out
  <2>1. OutR \in Seq(Trb) /\ t \in Seq(Trb) /\ OutR' = OutR \o t BY <1>5, <1>17, UsbFields
  <2>2. /\ \A i \in 1 .. Len(t) : t[i] \in {"cbw", "data"}
        /\ \A i \in 1 .. Len(OutR) : OutR[i] \in {"cbw", "data"}
    BY <1>5 DEF UsbType, XhcType
  <2>. HIDE DEF t
  <2>. QED BY <2>1, <2>2
<1>19. XhcType' BY <1>6, <1>8, <1>10, <1>11, <1>15, <1>16, <1>18 DEF UsbType, XhcType
<1>20. UsbType' BY <1>1, <1>13, <1>14, <1>19 DEF UsbType
<1>. QED BY <1>20, <1>1, <1>7, <1>8, <1>9, <1>11, <1>12, <1>14, <1>16, <1>17 DEF Queued

\* An event is taken.
LEMMA PollDoes ==
    ASSUME UsbType, Poll
    PROVE  (PollOk \/ PollError) /\ UsbType'
<1>1. /\ bot.pc = "wait" /\ xhc.ev # << >> /\ xhc' = [xhc EXCEPT !.ev = Tail(@)]
      /\ SameDisk /\ perLba' = perLba
  BY DEF Poll, SameDisk
<1>2. xhc.ev \in Seq(Event) /\ DOMAIN xhc = {"ring", "halted", "ev", "cbw", "bounce", "csw"}
  BY DEF UsbType, XhcType
<1>3. Tail(xhc.ev) \in Seq(Event) /\ Head(xhc.ev) = xhc.ev[1] /\ xhc.ev[1] \in Event BY <1>1, <1>2
<1>4. /\ DOMAIN xhc' = DOMAIN xhc /\ xhc'.ring = xhc.ring /\ xhc'.halted = xhc.halted
      /\ xhc'.ev = Tail(xhc.ev) /\ xhc'.cbw = xhc.cbw /\ SamePage
  BY <1>1, <1>2 DEF SamePage
<1>5. SameRings BY <1>4 DEF SameRings, OutR, InR, OutH, InH
<1>6. XhcType' BY <1>3, <1>4, <1>5 DEF UsbType, XhcType, SamePage, SameRings
<1>7. DevType' BY <1>1 DEF UsbType, DevType, SameDisk
<1>8. /\ DOMAIN bot = {"pc", "op", "kind", "lba", "data", "try", "round", "stage", "cmpl", "seen"}
      /\ bot.seen \in [Eps -> Nat] /\ bot.lba \in Nat /\ bot.op \in {"read", "write"}
      /\ bot.kind \in {bot.op, "sense"} /\ bot.stage = "cbw"
  BY <1>1 DEF UsbType, BotType, Active
<1>9. \/ Head(xhc.ev).ok /\ bot' = [bot EXCEPT !.seen[Head(xhc.ev).ep] = @ + 1] /\ senseLost' = senseLost
      \/ ~ Head(xhc.ev).ok /\ bot' = Failed([bot EXCEPT !.cmpl = "error"]) /\ SenseGivenUp
  BY Zenon DEF Poll
<1>10. CASE /\ Head(xhc.ev).ok /\ bot' = [bot EXCEPT !.seen[Head(xhc.ev).ep] = @ + 1]
            /\ senseLost' = senseLost
  <2>. DEFINE ep == xhc.ev[1].ep
  <2>1. ep \in Eps /\ xhc.ev[1].ok = TRUE BY <1>3, <1>10 DEF Event
  <2>2. bot' = [bot EXCEPT !.seen[ep] = bot.seen[ep] + 1] BY <1>3, <1>10
  <2>3. bot'.seen = [bot.seen EXCEPT ![ep] = bot.seen[ep] + 1] BY <2>2, <1>8
  <2>4. bot'.seen \in [Eps -> Nat] /\ Counted(ep) BY <2>1, <2>3, <1>8 DEF Counted
  <2>5. /\ bot'.pc = "wait" /\ bot'.kind = bot.kind /\ SameCall /\ bot'.stage = "cbw"
        /\ DOMAIN bot' = DOMAIN bot
    BY <2>2, <1>1, <1>8 DEF SameCall
  <2>6. BotType' BY <2>4, <2>5, <1>8 DEF BotType, Active, Recovering, SameCall
  <2>7. PollOk BY <2>1, <2>4, <2>5, <1>1, <1>4, <1>5, <1>10 DEF PollOk
  <2>. QED BY <2>6, <2>7, <1>1, <1>6, <1>7, <1>10 DEF UsbType
<1>11. CASE ~ Head(xhc.ev).ok /\ bot' = Failed([bot EXCEPT !.cmpl = "error"]) /\ SenseGivenUp
  <2>. DEFINE b == [bot EXCEPT !.cmpl = "error"]
  <2>1. SameBot(b) /\ b.stage = "cbw" /\ b.cmpl = "error" BY <1>8 DEF SameBot
  <2>2. bot' = Failed(b) BY <1>11
  <2>. HIDE DEF b
  <2>3. BotType' /\ (Again \/ GaveUp) BY <2>1, <2>2, <1>1, FailedIs
  <2>4. xhc.ev[1].ok = FALSE BY <1>3, <1>11 DEF Event
  <2>5. senseLost' = (senseLost \/ bot.kind = "sense") BY <1>11 DEF SenseGivenUp
  <2>6. PollError BY <2>3, <2>4, <2>5, <1>1, <1>4, <1>5 DEF PollError
  <2>7. senseLost' \in BOOLEAN BY <2>5
  <2>. QED BY <2>3, <2>6, <2>7, <1>1, <1>6, <1>7 DEF UsbType
<1>. QED BY <1>9, <1>10, <1>11

\* The wait ends without the completions.
LEMMA TimeoutDoes ==
    ASSUME UsbType, Timeout
    PROVE  TimedOut /\ UsbType'
<1>. DEFINE st == TimeoutStage
            b == [bot EXCEPT !.stage = st, !.cmpl = "timeout"]
<1>1. /\ bot.pc = "wait" /\ xhc' = xhc /\ SameDisk /\ perLba' = perLba
      /\ senseLost' = (senseLost \/ bot.kind = "sense") /\ bot' = Failed(b)
  BY DEF Timeout, SameDisk, SenseGivenUp
<1>2. /\ DOMAIN bot = {"pc", "op", "kind", "lba", "data", "try", "round", "stage", "cmpl", "seen"}
      /\ senseLost \in BOOLEAN
  BY DEF UsbType, BotType
<1>. HIDE DEF st
<1>3. SameBot(b) /\ b.cmpl = "timeout" BY <1>2 DEF SameBot
<1>. HIDE DEF b
<1>4. BotType' /\ (bot.kind = "sense" => Again \/ GaveUp) /\ (bot.kind # "sense" => ToRecover)
  BY <1>1, <1>3, FailedIs
<1>5. senseLost' \in BOOLEAN /\ (bot.kind = "sense" => senseLost' = TRUE)
      /\ (bot.kind # "sense" => senseLost' = senseLost)
  BY <1>1, <1>2
<1>6. XhcType' /\ DevType'
  BY <1>1 DEF UsbType, XhcType, DevType, SameDisk, OutR
<1>7. TimedOut BY <1>1, <1>4, <1>5 DEF TimedOut
<1>. QED BY <1>1, <1>4, <1>5, <1>6, <1>7 DEF UsbType

\* The status is judged.
LEMMA FinishDoes ==
    ASSUME UsbType, Finish
    PROVE  Finished /\ UsbType'
<1>. DEFINE b == [bot EXCEPT !.stage = "csw", !.cmpl = "bot"]
            got == IF bot.op = "read" THEN xhc.bounce ELSE << >>
<1>1. /\ bot.pc = "wait" /\ Enough /\ xhc' = xhc /\ SameDisk /\ perLba' = perLba
      /\ senseLost' = senseLost
      /\ bot' = IF ~ CswOkTag(xhc.csw) THEN Failed(b)
                ELSE IF bot.kind = "sense" THEN NextTry(bot)
                ELSE [NoCall EXCEPT !.pc = "ok", !.op = bot.op, !.lba = bot.lba, !.data = got]
  BY DEF Finish, SameDisk
<1>2. /\ DOMAIN bot = {"pc", "op", "kind", "lba", "data", "try", "round", "stage", "cmpl", "seen"}
      /\ Active /\ bot.op \in {"read", "write"} /\ bot.lba \in Nat
  BY <1>1 DEF UsbType, BotType, Active
<1>3. SameBot(b) /\ b.stage = "csw" BY <1>2 DEF SameBot
<1>4. bot.op = "read" => got = xhc.bounce OBVIOUS
<1>. HIDE DEF b, got
<1>5. XhcType' /\ DevType' BY <1>1 DEF UsbType, XhcType, DevType, SameDisk, OutR
<1>6. CASE ~ CswOkTag(xhc.csw)
  <2>1. bot' = Failed(b) BY <1>1, <1>6
  <2>2. BotType' /\ (bot.kind = "sense" => Again \/ GaveUp) /\ (bot.kind # "sense" => ToRecover)
    BY <2>1, <1>1, <1>3, FailedIs
  <2>3. Finished BY <2>2, <1>1 DEF Finished
  <2>. QED BY <2>2, <2>3, <1>1, <1>5 DEF UsbType
<1>7. CASE CswOkTag(xhc.csw) /\ bot.kind = "sense"
  <2>1. bot' = NextTry(bot) /\ SameBot(bot) BY <1>1, <1>7 DEF SameBot
  <2>2. BotType' /\ (Again \/ GaveUp) BY <2>1, <1>2, NextTryIs
  <2>3. Finished BY <2>2, <1>1, <1>7 DEF Finished
  <2>. QED BY <2>2, <2>3, <1>1, <1>5 DEF UsbType
<1>8. CASE CswOkTag(xhc.csw) /\ bot.kind # "sense"
  <2>1. bot' = [NoCall EXCEPT !.pc = "ok", !.op = bot.op, !.lba = bot.lba, !.data = got] BY <1>1, <1>8
  <2>2. /\ bot'.pc = "ok" /\ bot'.op = bot.op /\ bot'.lba = bot.lba /\ bot'.data = got
        /\ bot'.seen = NoCall.seen /\ DOMAIN bot' = DOMAIN bot
    BY <2>1, <1>2 DEF NoCall
  <2>3. NoCall.seen \in [Eps -> Nat] BY DEF NoCall
  <2>4. BotType' BY <2>2, <2>3, <1>2 DEF BotType, Active, Recovering
  <2>5. xhc.csw.mine = TRUE /\ xhc.csw.ok = TRUE BY <1>8 DEF CswOkTag, UsbType, XhcType
  <2>6. Finished BY <2>2, <2>5, <1>1, <1>4, <1>8 DEF Finished
  <2>. QED BY <2>4, <2>6, <1>1, <1>5 DEF UsbType
<1>. QED BY <1>6, <1>7, <1>8

\* A pipe is recovered.
LEMMA RecoverEpDoes ==
    ASSUME UsbType, NEW ep \in Eps, RecoverEp(ep)
    PROVE  /\ XhcType' /\ xhc'.cbw = xhc.cbw /\ SamePage /\ xhc'.ev = << >>
           /\ ep = "out" => OutR' = << >> /\ OutH' = FALSE /\ InR' = InR /\ InH' = InH
           /\ ep = "in" => InR' = << >> /\ InH' = FALSE /\ OutR' = OutR /\ OutH' = OutH
<1>1. xhc' = [xhc EXCEPT !.ring[ep] = << >>, !.halted[ep] = FALSE, !.ev = << >>] BY DEF RecoverEp
<1>2. /\ DOMAIN xhc = {"ring", "halted", "ev", "cbw", "bounce", "csw"}
      /\ xhc.ring \in [Eps -> Seq(Trb)] /\ xhc.halted \in [Eps -> BOOLEAN]
  BY DEF UsbType, XhcType
<1>3. /\ DOMAIN xhc' = DOMAIN xhc /\ xhc'.ring = [xhc.ring EXCEPT ![ep] = << >>]
      /\ xhc'.halted = [xhc.halted EXCEPT ![ep] = FALSE] /\ xhc'.ev = << >>
      /\ xhc'.cbw = xhc.cbw /\ SamePage
  BY <1>1, <1>2 DEF SamePage
<1>4. << >> \in Seq(Trb) /\ << >> \in Seq(Event) OBVIOUS
<1>5. xhc'.ring \in [Eps -> Seq(Trb)] /\ xhc'.halted \in [Eps -> BOOLEAN] BY <1>2, <1>3, <1>4
<1>6. CASE ep = "out"
  <2>1. OutR' = << >> /\ OutH' = FALSE /\ InR' = InR /\ InH' = InH
    BY <1>2, <1>3, <1>6 DEF Eps, OutR, InR, OutH, InH
  <2>2. \A i \in 1 .. Len(OutR') : OutR'[i] \in {"cbw", "data"} BY <2>1
  <2>3. XhcType' BY <2>1, <2>2, <1>2, <1>3, <1>4, <1>5 DEF UsbType, XhcType, SamePage
  <2>. QED BY <2>1, <2>3, <1>3, <1>6
<1>7. CASE ep = "in"
  <2>1. InR' = << >> /\ InH' = FALSE /\ OutR' = OutR /\ OutH' = OutH
    BY <1>2, <1>3, <1>7 DEF Eps, OutR, InR, OutH, InH
  <2>3. XhcType' BY <2>1, <1>2, <1>3, <1>4, <1>5 DEF UsbType, XhcType, SamePage
  <2>. QED BY <2>1, <2>3, <1>3, <1>7
<1>. QED BY <1>6, <1>7 DEF Eps

\* recover_pipes, one pipe after the other.
LEMMA RecoverDoes ==
    ASSUME UsbType, RecoverOut \/ RecoverIn
    PROVE  (OutRecovered \/ InRecovered) /\ UsbType'
<1>1. SameDisk /\ perLba' = perLba /\ senseLost' = senseLost BY DEF RecoverOut, RecoverIn, SameDisk
<1>2. DevType' BY <1>1 DEF UsbType, DevType, SameDisk
<1>3. DOMAIN bot = {"pc", "op", "kind", "lba", "data", "try", "round", "stage", "cmpl", "seen"}
  BY DEF UsbType, BotType
<1>4. CASE RecoverOut
  <2>1. "out" \in Eps /\ RecoverEp("out") /\ bot.pc = "recover_out"
        /\ bot' = [bot EXCEPT !.pc = "recover_in"]
    BY <1>4 DEF RecoverOut, Eps
  <2>2. XhcType' /\ xhc'.cbw = xhc.cbw /\ SamePage /\ xhc'.ev = << >>
        /\ OutR' = << >> /\ OutH' = FALSE /\ InR' = InR /\ InH' = InH
    BY <2>1, RecoverEpDoes
  <2>3. bot'.pc = "recover_in" /\ bot'.kind = bot.kind /\ SameCall BY <2>1, <1>3 DEF SameCall
  <2>4. BotType' BY <2>1, <1>3 DEF UsbType, BotType, Active, Recovering
  <2>5. OutRecovered BY <2>1, <2>2, <2>3, <1>1 DEF OutRecovered
  <2>. QED BY <2>2, <2>4, <2>5, <1>1, <1>2 DEF UsbType
<1>5. CASE RecoverIn
  <2>1. "in" \in Eps /\ RecoverEp("in") /\ bot.pc = "recover_in" /\ bot' = ClearSense(bot)
    BY <1>5 DEF RecoverIn, Eps
  <2>2. XhcType' /\ xhc'.cbw = xhc.cbw /\ SamePage /\ xhc'.ev = << >>
        /\ InR' = << >> /\ InH' = FALSE /\ OutR' = OutR /\ OutH' = OutH
    BY <2>1, RecoverEpDoes
  <2>3. Active /\ SameBot(bot) BY <2>1 DEF Active, SameBot
  <2>4. BotType' /\ (Again \/ GaveUp \/ SenseNext) BY <2>1, <2>3, ClearSenseIs
  <2>5. InRecovered BY <2>1, <2>2, <2>4, <1>1 DEF InRecovered
  <2>. QED BY <2>2, <2>4, <2>5, <1>1, <1>2 DEF UsbType
<1>. QED BY <1>4, <1>5

\* What the driver can do.
LEMMA DriverStepDoes ==
    ASSUME UsbType, DriverStep
    PROVE  DriverDoes /\ UsbType' /\ perLba' = perLba
<1>1. perLba' = perLba BY DEF DriverStep, Queue, Poll, Timeout, Finish, RecoverOut, RecoverIn
<1>2. Queue \/ Poll \/ Timeout \/ Finish \/ RecoverOut \/ RecoverIn BY Zenon DEF DriverStep
<1>3. DriverDoes /\ UsbType'
  BY <1>2, QueueDoes, PollDoes, TimeoutDoes, FinishDoes, RecoverDoes DEF DriverDoes
<1>. QED BY <1>1, <1>3

-----------------------------------------------------------------------------
(* The pipes: a halted endpoint keeps its TRBs, an error event means a     *)
(* halted endpoint, and the completions and TRBs of a command add up       *)

Stopped == OutH \/ InH

Empty == OutR = << >> /\ InR = << >>

NeedOut == Len(Trbs(bot.kind).out)

NeedIn == Len(Trbs(bot.kind).in)

GotOut == bot.seen["out"] + Oks(xhc.ev, "out")

GotIn == bot.seen["in"] + Oks(xhc.ev, "in")

\* Every TRB on the rings and every completion counted or waiting is the command's.
Balanced == GotOut + Len(OutR) = NeedOut /\ GotIn + Len(InR) = NeedIn

\* A halted endpoint still owes a completion.
Blocked == (OutH /\ GotOut < NeedOut) \/ (InH /\ GotIn < NeedIn)

ErrorsHalt ==
    \A i \in 1 .. Len(xhc.ev) : xhc.ev[i].ok = FALSE =>
        (xhc.ev[i].ep = "out" => OutH) /\ (xhc.ev[i].ep = "in" => InH)

PipePart ==
    /\ OutH => OutR # << >>
    /\ InH => InR # << >>
    /\ ErrorsHalt
    /\ bot.pc = "recover_in" => OutR = << >>
    /\ bot.pc = "queue" /\ bot.kind = "sense" => Empty

CountPart ==
    senseLost = FALSE =>
       /\ bot.pc = "wait" => Balanced \/ Blocked
       /\ Resting => Empty \/ Stopped
       /\ bot.pc = "ok" => Empty

\* A step of the layer above: at most a call is placed or its outcome taken.
LunQuiet ==
    /\ xhc' = xhc /\ SameDisk /\ senseLost' = senseLost /\ perLba' = perLba
    /\ \/ bot' = bot
       \/ bot.pc \in {"idle", "ok", "failed"} /\ bot'.pc = "idle"
       \/ bot.pc \in {"idle", "ok"} /\ bot'.pc = "queue" /\ bot'.kind = bot'.op

UsbDoes == (DeviceDoes /\ bot' = bot /\ senseLost' = senseLost) \/ DriverDoes \/ LunQuiet

\* The rings and endpoints after a step that leaves the controller alone.
LEMMA SameXhc ==
    ASSUME xhc' = xhc
    PROVE  SameRings /\ SamePage /\ xhc'.ev = xhc.ev
BY DEF SameRings, SamePage, OutR, InR, OutH, InH

\* A posted event or a taken one keeps errors tied to halted endpoints.
LEMMA ErrorsKept ==
    ASSUME UsbType, UsbType', ErrorsHalt, OutH => OutH', InH => InH',
           \/ xhc'.ev = << >> \/ xhc'.ev = xhc.ev
           \/ xhc.ev # << >> /\ xhc'.ev = Tail(xhc.ev)
           \/ \E e \in Event : /\ xhc'.ev = Append(xhc.ev, e)
                               /\ e.ok = FALSE => (e.ep = "out" => OutH') /\ (e.ep = "in" => InH')
    PROVE  ErrorsHalt'
<1>1. xhc.ev \in Seq(Event) /\ xhc'.ev \in Seq(Event) BY UsbFields DEF UsbType, XhcType
<1>2. SUFFICES ASSUME NEW i \in 1 .. Len(xhc'.ev), xhc'.ev[i].ok = FALSE
               PROVE  (xhc'.ev[i].ep = "out" => OutH') /\ (xhc'.ev[i].ep = "in" => InH')
  BY DEF ErrorsHalt
<1>3. CASE xhc'.ev = << >> BY <1>2, <1>3
<1>4. CASE xhc'.ev = xhc.ev BY <1>2, <1>4 DEF ErrorsHalt
<1>5. CASE xhc.ev # << >> /\ xhc'.ev = Tail(xhc.ev)
  <2>1. i + 1 \in 1 .. Len(xhc.ev) /\ xhc'.ev[i] = xhc.ev[i + 1] BY <1>1, <1>2, <1>5
  <2>. QED BY <2>1, <1>2 DEF ErrorsHalt
<1>6. CASE \E e \in Event : /\ xhc'.ev = Append(xhc.ev, e)
                            /\ e.ok = FALSE => (e.ep = "out" => OutH') /\ (e.ep = "in" => InH')
  <2>1. PICK e \in Event : /\ xhc'.ev = Append(xhc.ev, e)
                           /\ e.ok = FALSE => (e.ep = "out" => OutH') /\ (e.ep = "in" => InH')
    BY <1>6
  <2>2. (i \in 1 .. Len(xhc.ev) /\ xhc'.ev[i] = xhc.ev[i]) \/ xhc'.ev[i] = e BY <2>1, <1>1, <1>2
  <2>. QED BY <2>1, <2>2, <1>2 DEF ErrorsHalt
<1>. QED BY <1>3, <1>4, <1>5, <1>6

\* The events of the disk's steps.
LEMMA DeviceEvents ==
    ASSUME DeviceDoes
    PROVE  /\ OutH => OutH'
           /\ InH => InH'
           /\ \E e \in Event : /\ xhc'.ev = Append(xhc.ev, e)
                               /\ e.ok = FALSE => (e.ep = "out" => OutH') /\ (e.ep = "in" => InH')
<1>1. RanOut \/ RanIn \/ HaltOut \/ HaltIn
  BY DEF DeviceDoes, CbwTaken, DataTaken, CbwForData, StopOut, StopIn, DataSent, DataTooLong, CswSent
<1>2. ASSUME NEW ep \in Eps, NEW k \in BOOLEAN PROVE [ep |-> ep, ok |-> k] \in Event BY DEF Event
<1>3. CASE RanOut BY <1>2, <1>3 DEF RanOut, Eps
<1>4. CASE RanIn BY <1>2, <1>4 DEF RanIn, Eps
<1>5. CASE HaltOut
  <2>. DEFINE e == [ep |-> "out", ok |-> FALSE]
  <2>1. e \in Event /\ e.ep = "out" BY <1>2 DEF Eps
  <2>. QED BY <2>1, <1>5 DEF HaltOut
<1>6. CASE HaltIn
  <2>. DEFINE e == [ep |-> "in", ok |-> FALSE]
  <2>1. e \in Event /\ e.ep = "in" BY <1>2 DEF Eps
  <2>. QED BY <2>1, <1>6 DEF HaltIn
<1>. QED BY <1>1, <1>3, <1>4, <1>5, <1>6

\* Every step keeps the pipes in order.
LEMMA PipeStep ==
    ASSUME UsbType, UsbType', PipePart, UsbDoes
    PROVE  PipePart'
<1>1. CASE DeviceDoes /\ bot' = bot
  <2>1. ErrorsHalt' BY <1>1, DeviceEvents, ErrorsKept DEF PipePart
  <2>2. RanOut \/ RanIn \/ HaltOut \/ HaltIn
    BY <1>1 DEF DeviceDoes, CbwTaken, DataTaken, CbwForData, StopOut, StopIn, DataSent, DataTooLong, CswSent
  <2>3. (OutH' => OutR' # << >>) /\ (InH' => InR' # << >>) /\ (OutR = << >> => OutR' = << >>)
        /\ ~ Empty
    BY <2>2 DEF RanOut, RanIn, HaltOut, HaltIn, PipePart, Empty
  <2>. QED BY <1>1, <2>1, <2>3 DEF PipePart
<1>2. CASE Queued
  <2>1. ErrorsHalt' BY <1>2, ErrorsKept DEF PipePart, Queued
  <2>2. OutR \in Seq(Trb) /\ InR \in Seq(Trb) BY UsbFields
  <2>3. bot.kind \in {"read", "write", "sense"} BY <1>2 DEF UsbType, BotType, Active, Queued
  <2>4. Trbs(bot.kind).out \in Seq(Trb) /\ Trbs(bot.kind).in \in Seq(Trb) BY <2>3, TrbsType
  <2>5. (OutR # << >> => OutR' # << >>) /\ (InR # << >> => InR' # << >>)
    BY <1>2, <2>2, <2>4 DEF Queued
  <2>. QED BY <1>2, <2>1, <2>5 DEF PipePart, Queued
<1>3. CASE PollOk \/ PollError
  <2>0. xhc.ev # << >> /\ xhc'.ev = Tail(xhc.ev) /\ OutH' = OutH /\ InH' = InH
    BY <1>3 DEF PollOk, PollError, SameRings
  <2>1. ErrorsHalt' BY <2>0, ErrorsKept DEF PipePart
  <2>2. bot'.pc # "recover_in" /\ (bot'.pc = "queue" => bot'.kind # "sense")
    <3>1. CASE PollOk BY <3>1 DEF PollOk
    <3>2. CASE PollError
      BY <3>2 DEF PollError, Again, GaveUp, UsbType, BotType, Active
    <3>. QED BY <1>3, <3>1, <3>2
  <2>. QED BY <1>3, <2>1, <2>2 DEF PipePart, PollOk, PollError, SameRings
<1>4. CASE TimedOut \/ Finished
  <2>1. xhc' = xhc BY <1>4 DEF TimedOut, Finished
  <2>2. SameRings /\ xhc'.ev = xhc.ev BY <2>1, SameXhc
  <2>3. ErrorsHalt' BY <2>2, ErrorsKept DEF PipePart, SameRings
  <2>4. bot'.pc # "recover_in" /\ (bot'.pc = "queue" => bot'.kind # "sense")
    BY <1>4 DEF TimedOut, Finished, Again, GaveUp, ToRecover, UsbType, BotType, Active
  <2>. QED BY <2>2, <2>3, <2>4 DEF PipePart, SameRings
<1>5. CASE OutRecovered \/ InRecovered
  <2>1. xhc'.ev = << >> BY <1>5 DEF OutRecovered, InRecovered
  <2>2. ErrorsHalt'
    <3>1. Len(xhc'.ev) = 0 BY <2>1
    <3>. QED BY <3>1 DEF ErrorsHalt
  <2>. QED BY <1>5, <2>2 DEF PipePart, OutRecovered, InRecovered, Again, GaveUp, SenseNext, Empty
<1>6. CASE LunQuiet
  <2>1. SameRings /\ xhc'.ev = xhc.ev BY <1>6, SameXhc DEF LunQuiet
  <2>2. ErrorsHalt' BY <2>1, ErrorsKept DEF PipePart, SameRings
  <2>3. bot' = bot \/ (bot'.pc # "recover_in" /\ (bot'.pc = "queue" => bot'.kind # "sense"))
    BY <1>6 DEF LunQuiet, UsbType, BotType, Active
  <2>. QED BY <2>1, <2>2, <2>3 DEF PipePart, SameRings, Empty
<1>. QED BY <1>1, <1>2, <1>3, <1>4, <1>5, <1>6 DEF UsbDoes, DriverDoes

\* How many completions a command needs.
LEMMA NeedIs ==
    ASSUME UsbType, bot.kind \in {"read", "write", "sense"}
    PROVE  /\ NeedOut \in Nat \ {0} /\ NeedIn \in Nat \ {0}
           /\ Need(bot.kind, "out") = NeedOut /\ Need(bot.kind, "in") = NeedIn
<1>1. Trbs(bot.kind).out \in {<<"cbw">>, <<"cbw", "data">>} BY TrbsIs
<1>2. Trbs(bot.kind).in \in {<<"csw">>, <<"data", "csw">>, <<"sense", "csw">>} BY TrbsIs
<1>3. \A t \in {<<"cbw">>, <<"cbw", "data">>} : Len(t) \in Nat \ {0} OBVIOUS
<1>4. \A t \in {<<"csw">>, <<"data", "csw">>, <<"sense", "csw">>} : Len(t) \in Nat \ {0} OBVIOUS
<1>. QED BY <1>1, <1>2, <1>3, <1>4 DEF NeedOut, NeedIn, Need

\* The types of the counts.
LEMMA GotType ==
    ASSUME UsbType
    PROVE  /\ GotOut \in Nat /\ GotIn \in Nat /\ Len(OutR) \in Nat /\ Len(InR) \in Nat
           /\ bot.seen["out"] \in Nat /\ bot.seen["in"] \in Nat
           /\ Oks(xhc.ev, "out") \in Nat /\ Oks(xhc.ev, "in") \in Nat
<1>1. xhc.ev \in Seq(Event) /\ bot.seen \in [Eps -> Nat] BY DEF UsbType, XhcType, BotType
<1>2. Oks(xhc.ev, "out") \in Nat /\ Oks(xhc.ev, "in") \in Nat BY <1>1, OksNat DEF Eps
<1>3. bot.seen["out"] \in Nat /\ bot.seen["in"] \in Nat BY <1>1 DEF Eps
<1>4. Len(OutR) \in Nat /\ Len(InR) \in Nat BY UsbFields
<1>. QED BY <1>2, <1>3, <1>4 DEF GotOut, GotIn

\* A step of the disk moves a TRB of a ring to the completions, or halts the ring.
LEMMA DeviceCounts ==
    ASSUME UsbType, UsbType', DeviceDoes, bot' = bot
    PROVE  \/ RanOut /\ GotOut' = GotOut + 1 /\ GotIn' = GotIn /\ Len(OutR') = Len(OutR) - 1
           \/ RanIn /\ GotIn' = GotIn + 1 /\ GotOut' = GotOut /\ Len(InR') = Len(InR) - 1
           \/ HaltOut /\ GotOut' = GotOut /\ GotIn' = GotIn /\ Len(OutR) # 0
           \/ HaltIn /\ GotOut' = GotOut /\ GotIn' = GotIn /\ Len(InR) # 0
<1>1. RanOut \/ RanIn \/ HaltOut \/ HaltIn
  BY DEF DeviceDoes, CbwTaken, DataTaken, CbwForData, StopOut, StopIn, DataSent, DataTooLong, CswSent
<1>2. ASSUME NEW ep \in Eps, NEW k \in BOOLEAN, xhc'.ev = Append(xhc.ev, [ep |-> ep, ok |-> k])
      PROVE  \A d \in Eps : Oks(xhc'.ev, d) = IF k /\ d = ep THEN Oks(xhc.ev, d) + 1 ELSE Oks(xhc.ev, d)
  <2>. DEFINE e == [ep |-> ep, ok |-> k]
  <2>1. e \in Event /\ e.ep = ep /\ e.ok = k BY DEF Event
  <2>. HIDE DEF e
  <2>2. xhc'.ev = Append(xhc.ev, e) BY <1>2 DEF e
  <2>. QED BY <2>1, <2>2, UsbFields, OksAppend
<1>3. "out" \in Eps /\ "in" \in Eps /\ TRUE \in BOOLEAN /\ FALSE \in BOOLEAN BY DEF Eps
<1>4. OutR \in Seq(Trb) /\ InR \in Seq(Trb) BY UsbFields
<1>5. CASE RanOut
  <2>1. xhc'.ev = Append(xhc.ev, [ep |-> "out", ok |-> TRUE]) BY <1>5 DEF RanOut
  <2>2. Oks(xhc'.ev, "out") = Oks(xhc.ev, "out") + 1 /\ Oks(xhc'.ev, "in") = Oks(xhc.ev, "in")
    BY <2>1, <1>2, <1>3
  <2>3. Len(OutR') = Len(OutR) - 1 BY <1>4, <1>5 DEF RanOut
  <2>. QED BY <1>5, <2>2, <2>3, GotType DEF GotOut, GotIn
<1>6. CASE RanIn
  <2>1. xhc'.ev = Append(xhc.ev, [ep |-> "in", ok |-> TRUE]) BY <1>6 DEF RanIn
  <2>2. Oks(xhc'.ev, "in") = Oks(xhc.ev, "in") + 1 /\ Oks(xhc'.ev, "out") = Oks(xhc.ev, "out")
    BY <2>1, <1>2, <1>3
  <2>3. Len(InR') = Len(InR) - 1 BY <1>4, <1>6 DEF RanIn
  <2>. QED BY <1>6, <2>2, <2>3, GotType, SMTT(30) DEF GotOut, GotIn
<1>7. CASE HaltOut
  <2>1. xhc'.ev = Append(xhc.ev, [ep |-> "out", ok |-> FALSE]) BY <1>7 DEF HaltOut
  <2>2. Oks(xhc'.ev, "in") = Oks(xhc.ev, "in") /\ Oks(xhc'.ev, "out") = Oks(xhc.ev, "out")
    BY <2>1, <1>2, <1>3
  <2>3. Len(OutR) # 0 BY <1>4, <1>7 DEF HaltOut
  <2>. QED BY <1>7, <2>2, <2>3 DEF GotOut, GotIn
<1>8. CASE HaltIn
  <2>1. xhc'.ev = Append(xhc.ev, [ep |-> "in", ok |-> FALSE]) BY <1>8 DEF HaltIn
  <2>2. Oks(xhc'.ev, "in") = Oks(xhc.ev, "in") /\ Oks(xhc'.ev, "out") = Oks(xhc.ev, "out")
    BY <2>1, <1>2, <1>3
  <2>3. Len(InR) # 0 BY <1>4, <1>8 DEF HaltIn
  <2>. QED BY <1>8, <2>2, <2>3 DEF GotOut, GotIn
<1>. QED BY <1>1, <1>5, <1>6, <1>7, <1>8

\* Every completion of the command was counted and nothing is left on the rings.
LEMMA EnoughIsEmpty ==
    ASSUME UsbType, bot.pc = "wait", Enough, Balanced \/ Blocked
    PROVE  Empty
<1>1. bot.kind \in {"read", "write", "sense"} BY DEF UsbType, BotType, Active
<1>2. bot.seen["out"] >= NeedOut /\ bot.seen["in"] >= NeedIn
  BY <1>1, NeedIs DEF Enough, Eps
<1>3. ~ (GotOut < NeedOut) /\ ~ (GotIn < NeedIn) BY <1>1, <1>2, NeedIs, GotType, SMTT(30) DEF GotOut, GotIn
<1>4. Balanced BY <1>3 DEF Blocked
<1>5. Len(OutR) = 0 /\ Len(InR) = 0 BY <1>1, <1>3, <1>4, NeedIs, GotType DEF Balanced
<1>. QED BY <1>5, UsbFields DEF Empty

\* Every step keeps the count.
LEMMA CountStep ==
    ASSUME UsbType, UsbType', PipePart, CountPart, UsbDoes
    PROVE  CountPart'
<1>0. SUFFICES ASSUME senseLost' = FALSE
               PROVE  /\ bot'.pc = "wait" => Balanced' \/ Blocked'
                      /\ Resting' => Empty' \/ Stopped'
                      /\ bot'.pc = "ok" => Empty'
  BY DEF CountPart
<1>1. CASE DeviceDoes /\ bot' = bot /\ senseLost' = senseLost
  <2>1. /\ bot.pc = "wait" => Balanced \/ Blocked
        /\ Resting => Empty \/ Stopped
        /\ bot.pc = "ok" => Empty
    BY <1>0, <1>1 DEF CountPart
  <2>2. RanOut \/ RanIn \/ HaltOut \/ HaltIn BY <1>1, DeviceCounts
  <2>3. ~ Empty /\ (Stopped => Stopped') /\ Resting' = Resting
    BY <2>2, <1>1 DEF RanOut, RanIn, HaltOut, HaltIn, Empty, Stopped, Resting
  <2>4. ASSUME bot.pc = "wait" PROVE Balanced' \/ Blocked'
    <3>1. bot.kind \in {"read", "write", "sense"} BY <2>4 DEF UsbType, BotType, Active
    <3>2. NeedOut' = NeedOut /\ NeedIn' = NeedIn /\ NeedOut \in Nat /\ NeedIn \in Nat
      BY <3>1, <1>1, NeedIs DEF NeedOut, NeedIn
    <3>3. Balanced \/ Blocked BY <2>1, <2>4
    <3>4. /\ GotOut \in Nat /\ GotIn \in Nat /\ Len(OutR) \in Nat /\ Len(InR) \in Nat
          /\ GotOut' \in Nat /\ GotIn' \in Nat /\ Len(OutR') \in Nat /\ Len(InR') \in Nat
      <4>1. GotOut' \in Nat /\ GotIn' \in Nat /\ Len(OutR') \in Nat /\ Len(InR') \in Nat
        <5>1. OutR' \in Seq(Trb) /\ InR' \in Seq(Trb) BY UsbFields DEF UsbType, XhcType, OutR, InR, Eps
        <5>2. GotOut' \in Nat /\ GotIn' \in Nat 
          <6>1. GotOut \in Nat /\ GotIn \in Nat BY GotType
          <6>2. GotOut' \in {GotOut, GotOut + 1} /\ GotIn' \in {GotIn, GotIn + 1}
            BY <1>1, DeviceCounts
          <6>. QED BY <6>1, <6>2
        <5>. QED BY <5>1, <5>2
      <4>. QED BY <4>1, GotType
    <3>5. CASE RanOut /\ GotOut' = GotOut + 1 /\ GotIn' = GotIn /\ Len(OutR') = Len(OutR) - 1
      <4>1. CASE Balanced BY <4>1, <3>2, <3>4, <3>5 DEF RanOut, Balanced
      <4>2. CASE Blocked BY <4>2, <3>2, <3>5 DEF RanOut, Blocked
      <4>. QED BY <4>1, <4>2, <3>3
    <3>6. CASE RanIn /\ GotIn' = GotIn + 1 /\ GotOut' = GotOut /\ Len(InR') = Len(InR) - 1
      <4>0. Len(OutR') = Len(OutR) BY <3>6 DEF RanIn
      <4>1. CASE Balanced
        <5>1. GotOut' + Len(OutR') = NeedOut' BY <4>0, <4>1, <3>2, <3>6 DEF Balanced
        <5>2. GotIn' + Len(InR') = NeedIn' BY <4>1, <3>2, <3>4, <3>6 DEF Balanced
        <5>. QED BY <5>1, <5>2 DEF Balanced
      <4>2. CASE Blocked BY <4>2, <3>2, <3>6 DEF RanIn, Blocked
      <4>. QED BY <4>1, <4>2, <3>3
    <3>7. CASE HaltOut /\ GotOut' = GotOut /\ GotIn' = GotIn /\ Len(OutR) # 0
      BY <3>2, <3>3, <3>4, <3>7 DEF HaltOut, Balanced, Blocked
    <3>8. CASE HaltIn /\ GotOut' = GotOut /\ GotIn' = GotIn /\ Len(InR) # 0
      BY <3>2, <3>3, <3>4, <3>8 DEF HaltIn, Balanced, Blocked
    <3>. QED BY <1>1, DeviceCounts, <3>5, <3>6, <3>7, <3>8
  <2>. QED BY <2>1, <2>3, <2>4, <1>1
<1>2. CASE Queued
  <2>1. Empty \/ Stopped BY <1>0, <1>2 DEF CountPart, Queued, Resting
  <2>2. bot.kind \in {"read", "write", "sense"} BY <1>2 DEF UsbType, BotType, Active, Queued
  <2>3. NeedOut' = NeedOut /\ NeedIn' = NeedIn /\ NeedOut \in Nat \ {0} /\ NeedIn \in Nat \ {0}
    BY <2>2, <1>2, NeedIs DEF NeedOut, NeedIn, Queued
  <2>4. Oks(xhc'.ev, "out") = 0 /\ Oks(xhc'.ev, "in") = 0 BY <1>2, OksEmpty DEF Queued
  <2>5. GotOut' = 0 /\ GotIn' = 0 BY <1>2, <2>4 DEF GotOut, GotIn, Queued
  <2>6. CASE Empty
    <3>1. OutR' = Trbs(bot.kind).out /\ InR' = Trbs(bot.kind).in
      BY <2>2, <2>6, <1>2, TrbsType DEF Queued, Empty
    <3>2. Balanced' BY <3>1, <2>3, <2>5 DEF Balanced, NeedOut, NeedIn
    <3>. QED BY <3>2, <1>2 DEF Queued, Resting
  <2>7. CASE Stopped
    <3>1. Blocked' BY <2>3, <2>5, <2>7, <1>2 DEF Queued, Stopped, Blocked
    <3>. QED BY <3>1, <1>2 DEF Queued, Resting
  <2>. QED BY <2>1, <2>6, <2>7
<1>3. CASE PollOk
  <2>1. Balanced \/ Blocked BY <1>0, <1>3 DEF CountPart, PollOk
  <2>2. xhc.ev \in Seq(Event) /\ xhc.ev # << >> /\ xhc.ev[1].ok = TRUE /\ xhc'.ev = Tail(xhc.ev)
    BY <1>3, UsbFields DEF PollOk
  <2>3. "out" \in Eps /\ "in" \in Eps BY DEF Eps
  <2>4. /\ Oks(xhc.ev, "out") = IF xhc.ev[1].ep = "out" THEN Oks(xhc'.ev, "out") + 1 ELSE Oks(xhc'.ev, "out")
        /\ Oks(xhc.ev, "in") = IF xhc.ev[1].ep = "in" THEN Oks(xhc'.ev, "in") + 1 ELSE Oks(xhc'.ev, "in")
    BY <2>2, <2>3, OksTail
  <2>5. PICK ep \in Eps : Counted(ep) BY <1>3 DEF PollOk
  <2>6. Tail(xhc.ev) \in Seq(Event) BY <2>2
  <2>7. Oks(xhc'.ev, "out") \in Nat /\ Oks(xhc'.ev, "in") \in Nat BY <2>2, <2>6, <2>3, OksNat
  <2>8. GotOut' = GotOut /\ GotIn' = GotIn
    <3>1. CASE ep = "out"
      <4>1. bot'.seen["out"] = bot.seen["out"] + 1 /\ bot'.seen["in"] = bot.seen["in"] /\ xhc.ev[1].ep = "out"
        BY <2>5, <3>1 DEF Counted, Eps
      <4>. QED BY <4>1, <2>4, <2>7, GotType, SMTT(30) DEF GotOut, GotIn
    <3>2. CASE ep = "in"
      <4>1. bot'.seen["in"] = bot.seen["in"] + 1 /\ bot'.seen["out"] = bot.seen["out"] /\ xhc.ev[1].ep = "in"
        BY <2>5, <3>2 DEF Counted, Eps
      <4>. QED BY <4>1, <2>4, <2>7, GotType DEF GotOut, GotIn
    <3>. QED BY <3>1, <3>2 DEF Eps
  <2>9. NeedOut' = NeedOut /\ NeedIn' = NeedIn BY <1>3 DEF PollOk, NeedOut, NeedIn
  <2>10. Balanced' \/ Blocked' BY <2>1, <2>8, <2>9, <1>3 DEF PollOk, SameRings, Balanced, Blocked
  <2>. QED BY <2>10, <1>3 DEF PollOk, Resting
<1>4. CASE PollError
  <2>1. xhc.ev \in Seq(Event) /\ xhc.ev # << >> BY <1>4, UsbFields DEF PollError
  <2>2. 1 \in 1 .. Len(xhc.ev) /\ xhc.ev[1] \in Event BY <2>1
  <2>4. xhc.ev[1].ep \in Eps BY <2>2 DEF Event
  <2>3. Stopped BY <2>2, <2>4, <1>4 DEF PollError, PipePart, ErrorsHalt, Stopped, Eps
  <2>. QED BY <2>3, <1>4 DEF PollError, SameRings, Stopped, Again, GaveUp
<1>5. CASE TimedOut
  BY <1>0, <1>5 DEF TimedOut, ToRecover, Resting
<1>6. CASE Finished
  <2>1. Balanced \/ Blocked BY <1>0, <1>6 DEF CountPart, Finished
  <2>2. Empty BY <2>1, <1>6, EnoughIsEmpty DEF Finished
  <2>3. Empty' BY <2>2, <1>6, SameXhc DEF Finished, Empty, SameRings
  <2>4. bot'.pc # "wait" BY <1>6 DEF Finished, Again, GaveUp, ToRecover
  <2>. QED BY <2>3, <2>4
<1>7. CASE OutRecovered BY <1>7 DEF OutRecovered, Resting
<1>8. CASE InRecovered
  <2>1. Empty' BY <1>8 DEF InRecovered, PipePart, Empty
  <2>. QED BY <2>1, <1>8 DEF InRecovered, Again, SenseNext, GaveUp
<1>9. CASE LunQuiet
  <2>1. SameRings /\ xhc'.ev = xhc.ev BY <1>9, SameXhc DEF LunQuiet
  <2>2. /\ bot.pc = "wait" => Balanced \/ Blocked
        /\ Resting => Empty \/ Stopped
        /\ bot.pc = "ok" => Empty
    BY <1>0, <1>9 DEF CountPart, LunQuiet
  <2>3. Empty' = Empty /\ Stopped' = Stopped BY <2>1 DEF SameRings, Empty, Stopped
  <2>4. CASE bot' = bot
    BY <2>1, <2>2, <2>3, <2>4 DEF SameRings, Balanced, Blocked, GotOut, GotIn, NeedOut, NeedIn, Resting
  <2>5. CASE bot' # bot
    BY <2>2, <2>3, <2>5, <1>9 DEF LunQuiet, Resting
  <2>. QED BY <2>4, <2>5
<1>. QED BY <1>1, <1>2, <1>3, <1>4, <1>5, <1>6, <1>7, <1>8, <1>9 DEF UsbDoes, DriverDoes

-----------------------------------------------------------------------------
(* The shape of the rings, and what the driver has once a status passed    *)

NoData(r) == \A i \in 1 .. Len(r) : r[i] # "data"

ReadShape(r) ==
    /\ r # << >> => r[Len(r)] = "csw"
    /\ \A i \in 1 .. Len(r) : r[i] = "data" => i + 1 = Len(r)

LastData(r) == \A i \in 1 .. Len(r) : r[i] = "data" => i = Len(r)

Mine == dev.mine = TRUE \/ xhc.csw.mine = TRUE

Done == dev.mine = TRUE /\ dev.phase = "csw" /\ dev.ok = TRUE

Passed == xhc.csw.mine = TRUE /\ xhc.csw.ok = TRUE

ReadBack == xhc.bounce = OnDisk(bot.lba)

RestShape ==
    Resting \/ (bot.pc = "wait" /\ bot.kind = "sense") =>
        Stopped \/ (NoData(OutR) /\ NoData(InR))

WaitShape ==
    bot.pc = "wait" /\ bot.kind # "sense" =>
        \/ InH
        \/ OutH /\ ~ Mine
        \/ bot.kind = "read" /\ ReadShape(InR) /\ NoData(OutR)
        \/ bot.kind = "write" /\ LastData(OutR) /\ NoData(InR)

RecoverShape == bot.pc = "recover_out" /\ bot.kind = "read" => Stopped \/ NoData(OutR)

CommandPart ==
    bot.pc = "wait" =>
        /\ xhc.cbw.kind = bot.kind /\ xhc.cbw.lba = bot.lba
        /\ dev.mine = TRUE => dev.kind = bot.kind /\ dev.lba = bot.lba

ReadDone ==
    bot.pc = "wait" /\ bot.kind = "read" =>
        /\ Done => InH \/ (InR = <<"csw">> /\ ReadBack)
        /\ Passed => InR = << >> /\ ReadBack

WriteDone ==
    bot.pc = "wait" /\ bot.kind = "write" =>
        /\ Done => InH \/ NoData(OutR)
        /\ Passed => NoData(OutR)

ShapePart == RestShape /\ WaitShape /\ RecoverShape /\ CommandPart /\ ReadDone /\ WriteDone

\* The head TRB leaves a ring: what follows keeps its shape.
LEMMA TailShape ==
    ASSUME NEW r \in Seq(Trb), r # << >>
    PROVE  /\ NoData(r) => NoData(Tail(r))
           /\ ReadShape(r) => ReadShape(Tail(r))
           /\ LastData(r) => LastData(Tail(r))
           /\ ReadShape(r) /\ r[1] = "data" => Tail(r) = <<"csw">>
           /\ LastData(r) /\ r[1] = "data" => Tail(r) = << >>
<1>. DEFINE q == Tail(r)  n == Len(r)
<1>1. /\ q \in Seq(Trb) /\ n \in Nat \ {0} /\ Len(q) = n - 1
      /\ \A i \in 1 .. n - 1 : q[i] = r[i + 1] /\ i + 1 \in 1 .. n
  OBVIOUS
<1>2. NoData(r) => NoData(q)
  <2>. HIDE DEF q
  <2>. QED BY <1>1 DEF NoData
<1>3. ASSUME LastData(r) PROVE LastData(q)
  <2>1. \A i \in 1 .. n : r[i] = "data" => i = n BY <1>3 DEF LastData
  <2>. HIDE DEF q, n
  <2>2. \A i \in 1 .. n - 1 : q[i] = "data" => i = n - 1 BY <1>1, <2>1, SMTT(30)
  <2>. QED BY <1>1, <2>2 DEF LastData
<1>4. ASSUME ReadShape(r) PROVE ReadShape(q)
  <2>1. r[n] = "csw" /\ \A i \in 1 .. n : r[i] = "data" => i + 1 = n BY <1>4 DEF ReadShape
  <2>. HIDE DEF q, n
  <2>2. \A i \in 1 .. n - 1 : q[i] = "data" => i + 1 = n - 1 BY <1>1, <2>1
  <2>3. ASSUME q # << >> PROVE q[n - 1] = "csw"
    <3>1. n - 1 # 0 BY <1>1, <2>3
    <3>2. n - 1 \in 1 .. n - 1 /\ (n - 1) + 1 = n BY <3>1, <1>1
    <3>. QED BY <3>2, <2>1, <1>1
  <2>. QED BY <1>1, <2>2, <2>3 DEF ReadShape
<1>5. ASSUME ReadShape(r), r[1] = "data" PROVE q = <<"csw">>
  <2>1. r[n] = "csw" /\ \A i \in 1 .. n : r[i] = "data" => i + 1 = n BY <1>5 DEF ReadShape
  <2>. HIDE DEF q, n
  <2>2. 1 \in 1 .. n BY <1>1
  <2>3. n = 2 BY <1>1, <1>5, <2>1, <2>2
  <2>4. Len(q) = 1 /\ q[1] = "csw" BY <1>1, <2>1, <2>3
  <2>. QED BY <2>4, <1>1
<1>6. ASSUME LastData(r), r[1] = "data" PROVE q = << >>
  <2>1. \A i \in 1 .. n : r[i] = "data" => i = n BY <1>6 DEF LastData
  <2>. HIDE DEF q, n
  <2>2. 1 \in 1 .. n BY <1>1
  <2>3. n = 1 BY <1>6, <2>1, <2>2
  <2>. QED BY <1>1, <2>3
<1>. QED BY <1>2, <1>3, <1>4, <1>5, <1>6

\* Empty rings, and the rings a command is queued behind.
LEMMA QueuedShape ==
    ASSUME NEW r \in Seq(Trb)
    PROVE  /\ NoData(<< >>)
           /\ NoData(<<"cbw">>) /\ NoData(<<"sense", "csw">>)
           /\ NoData(r) => /\ NoData(r \o <<"cbw">>) /\ NoData(r \o <<"csw">>)
                           /\ ReadShape(r \o <<"data", "csw">>)
                           /\ LastData(r \o <<"cbw", "data">>)
<1>1. NoData(<< >>) /\ NoData(<<"cbw">>) /\ NoData(<<"sense", "csw">>) BY DEF NoData
<1>2. ASSUME NoData(r), NEW t \in {"cbw", "csw"} PROVE NoData(r \o <<t>>)
  <2>1. <<t>> \in Seq(Trb) BY DEF Trb
  <2>2. /\ Len(r \o <<t>>) = Len(r) + 1 /\ Len(r) \in Nat
        /\ \A i \in 1 .. Len(r) + 1 : (r \o <<t>>)[i] = IF i <= Len(r) THEN r[i] ELSE t
    BY <2>1
  <2>. QED BY <1>2, <2>2 DEF NoData
<1>3. ASSUME NoData(r) PROVE ReadShape(r \o <<"data", "csw">>)
  <2>. DEFINE q == r \o <<"data", "csw">>
  <2>1. <<"data", "csw">> \in Seq(Trb) BY DEF Trb
  <2>2. /\ Len(q) = Len(r) + 2 /\ Len(r) \in Nat
        /\ \A i \in 1 .. Len(r) + 2 : q[i] = IF i <= Len(r) THEN r[i] ELSE
                                         IF i = Len(r) + 1 THEN "data" ELSE "csw"
    BY <2>1
  <2>. HIDE DEF q
  <2>3. q[Len(q)] = "csw" BY <2>2
  <2>4. \A i \in 1 .. Len(q) : q[i] = "data" => i + 1 = Len(q) BY <1>3, <2>2 DEF NoData
  <2>5. ReadShape(q) BY <2>3, <2>4 DEF ReadShape
  <2>. QED BY <2>5 DEF q
<1>4. ASSUME NoData(r) PROVE LastData(r \o <<"cbw", "data">>)
  <2>. DEFINE q == r \o <<"cbw", "data">>
  <2>1. <<"cbw", "data">> \in Seq(Trb) BY DEF Trb
  <2>2. /\ Len(q) = Len(r) + 2 /\ Len(r) \in Nat
        /\ \A i \in 1 .. Len(r) + 2 : q[i] = IF i <= Len(r) THEN r[i] ELSE
                                         IF i = Len(r) + 1 THEN "cbw" ELSE "data"
    BY <2>1
  <2>. HIDE DEF q
  <2>4. LastData(q) BY <1>4, <2>2 DEF NoData, LastData
  <2>. QED BY <2>4 DEF q
<1>. QED BY <1>1, <1>2, <1>3, <1>4

\* What every step of the disk leaves of the rings.
LEMMA DeviceRings ==
    ASSUME UsbType, DeviceDoes
    PROVE  /\ Stopped => Stopped'
           /\ OutH => OutH' /\ OutR' = OutR
           /\ InH => InH' /\ InR' = InR
           /\ NoData(OutR) => NoData(OutR')
           /\ NoData(InR) => NoData(InR')
           /\ ReadShape(InR) => ReadShape(InR')
           /\ LastData(OutR) => LastData(OutR')
           /\ xhc'.cbw = xhc.cbw
<1>1. RanOut \/ RanIn \/ HaltOut \/ HaltIn
  BY DEF DeviceDoes, CbwTaken, DataTaken, CbwForData, StopOut, StopIn, DataSent, DataTooLong, CswSent
<1>2. OutR \in Seq(Trb) /\ InR \in Seq(Trb) BY UsbFields
<1>3. CASE RanOut BY <1>2, <1>3, TailShape DEF RanOut, Stopped
<1>4. CASE RanIn BY <1>2, <1>4, TailShape DEF RanIn, Stopped
<1>5. CASE HaltOut BY <1>5 DEF HaltOut, Stopped
<1>6. CASE HaltIn BY <1>6 DEF HaltIn, Stopped
<1>. QED BY <1>1, <1>3, <1>4, <1>5, <1>6

\* The page still holds the block the call asked for.
LEMMA ReadBackKept ==
    ASSUME xhc'.bounce = OnDisk(bot.lba), disk' = disk, perLba' = perLba, bot'.lba = bot.lba
    PROVE  ReadBack'
BY DEF ReadBack, OnDisk

\* Whose command the disk works on after its steps.
LEMMA DeviceMine ==
    ASSUME UsbType, DeviceDoes
    PROVE  /\ OutH /\ ~ Mine => ~ Mine'
           /\ Mine' /\ dev'.mine = TRUE => CbwTaken \/ (SameCommand /\ dev.mine = TRUE)
<1>1. CASE CbwTaken BY <1>1 DEF CbwTaken, RanOut
<1>2. CASE DataTaken \/ CbwForData
  BY <1>2 DEF DataTaken, CbwForData, SameCommand, SamePage, Mine, RanOut
<1>3. CASE StopOut \/ StopIn BY <1>3 DEF StopOut, StopIn, SamePage, Mine, SameCommand
<1>4. CASE DataSent \/ DataTooLong BY <1>4 DEF DataSent, DataTooLong, SameCommand, Mine
<1>5. CASE CswSent
  <2>1. dev'.mine = FALSE BY <1>5 DEF CswSent, NoCommand
  <2>2. xhc'.csw.mine = dev.mine \/ xhc'.csw = xhc.csw BY <1>5 DEF CswSent
  <2>. QED BY <2>1, <2>2 DEF Mine
<1>. QED BY <1>1, <1>2, <1>3, <1>4, <1>5 DEF DeviceDoes

\* How a command comes to be done, or its status to have passed.
NewOutcome ==
    \/ DataTaken /\ dev.mine = TRUE /\ bot.kind = "write"
    \/ /\ DataSent /\ dev.mine = TRUE /\ bot.kind = "read" /\ dev.kind = "read"
       /\ dev.lba = bot.lba /\ InR[1] = "data"
    \/ DataTooLong /\ bot.kind = "read"
    \/ CswSent /\ InR[1] = "csw" /\ Done

\* In no other way.
LEMMA NewlyDone ==
    ASSUME UsbType, CommandPart, DeviceDoes, bot.pc = "wait", bot.kind \in {"read", "write"},
           (Done' /\ ~ Done) \/ (Passed' /\ ~ Passed)
    PROVE  NewOutcome
<1>1. /\ dev.mine = TRUE => dev.kind = bot.kind /\ dev.lba = bot.lba
      /\ dev.phase = "in" => dev.kind \in {"read", "sense"}
      /\ dev.phase = "out" => dev.kind = "write"
  BY DEF CommandPart, UsbType, DevType
<1>2. CASE CbwTaken BY <1>2 DEF CbwTaken, SamePage, Done, Passed, NewOutcome
<1>3. CASE DataTaken BY <1>1, <1>3 DEF DataTaken, SamePage, SameCommand, Done, Passed, NewOutcome
<1>4. CASE CbwForData BY <1>4 DEF CbwForData, SamePage, Done, Passed, NewOutcome
<1>5. CASE StopOut \/ StopIn BY <1>5 DEF StopOut, StopIn, SamePage, Done, Passed, NewOutcome
<1>6. CASE DataSent BY <1>1, <1>6 DEF DataSent, SameCommand, Done, Passed, NewOutcome
<1>7. CASE CswSent
  <2>1. dev'.mine = FALSE BY <1>7 DEF CswSent, NoCommand
  <2>. QED BY <2>1, <1>7 DEF CswSent, Done, Passed, NewOutcome
<1>8. CASE DataTooLong BY <1>1, <1>8 DEF DataTooLong, SameCommand, Done, Passed, NewOutcome
<1>. QED BY <1>8, <1>2, <1>3, <1>4, <1>5, <1>6, <1>7 DEF DeviceDoes

\* A step of the disk keeps the shape of the rings.
LEMMA ShapeDevice ==
    ASSUME UsbType, UsbType', PipePart, ShapePart, DeviceDoes, bot' = bot, perLba' = perLba
    PROVE  ShapePart'
<1>1. RestShape' BY DeviceRings DEF ShapePart, RestShape, Resting
<1>2. WaitShape' BY DeviceRings, DeviceMine DEF ShapePart, WaitShape
<1>3. RecoverShape' BY DeviceRings DEF ShapePart, RecoverShape
<1>4. CommandPart'
  <2>1. SUFFICES ASSUME bot.pc = "wait"
                 PROVE  /\ xhc'.cbw.kind = bot.kind /\ xhc'.cbw.lba = bot.lba
                        /\ dev'.mine = TRUE => dev'.kind = bot.kind /\ dev'.lba = bot.lba
    BY DEF CommandPart
  <2>2. /\ xhc.cbw.kind = bot.kind /\ xhc.cbw.lba = bot.lba
        /\ dev.mine = TRUE => dev.kind = bot.kind /\ dev.lba = bot.lba
    BY <2>1 DEF ShapePart, CommandPart
  <2>3. dev'.mine = TRUE => CbwTaken \/ (SameCommand /\ dev.mine = TRUE) BY DeviceMine DEF Mine
  <2>. QED BY <2>2, <2>3, DeviceRings DEF CbwTaken, SameCommand
<1>5. ASSUME bot.pc = "wait", bot.kind \in {"read", "write"}, (Done' /\ ~ Done) \/ (Passed' /\ ~ Passed)
      PROVE  NewOutcome
  BY <1>5, NewlyDone DEF ShapePart
<1>6. OutR \in Seq(Trb) /\ InR \in Seq(Trb) BY UsbFields
<1>7. ASSUME bot.pc = "wait", bot.kind = "read" 
      PROVE  /\ Done' => InH' \/ (InR' = <<"csw">> /\ ReadBack')
             /\ Passed' => InR' = << >> /\ ReadBack'
  <2>1. /\ Done => InH \/ (InR = <<"csw">> /\ ReadBack)
        /\ Passed => InR = << >> /\ ReadBack
    BY <1>7 DEF ShapePart, ReadDone
  <2>2. InH \/ (OutH /\ ~ Mine) \/ (ReadShape(InR) /\ NoData(OutR))
    BY <1>7 DEF ShapePart, WaitShape
  <2>3. ASSUME Done', ~ Done PROVE InH' \/ (InR' = <<"csw">> /\ ReadBack')
    <3>1. CASE DataSent /\ dev.mine = TRUE /\ dev.kind = "read" /\ dev.lba = bot.lba /\ InR[1] = "data"
      <4>1. InR # << >> /\ ~ InH /\ InR' = Tail(InR) BY <3>1 DEF DataSent, RanIn
      <4>2. ReadShape(InR) BY <4>1, <3>1, <2>2 DEF Mine
      <4>3. Tail(InR) = <<"csw">> BY <4>1, <4>2, <3>1, <1>6, TailShape
      <4>4. xhc'.bounce = OnDisk(bot.lba) /\ disk' = disk BY <3>1 DEF DataSent
      <4>. QED BY <4>1, <4>3, <4>4, ReadBackKept
    <3>2. CASE DataTooLong BY <3>2 DEF DataTooLong, HaltIn
    <3>3. bot.kind \in {"read", "write"} /\ bot.kind # "write" BY <1>7
    <3>4. \/ DataSent /\ dev.mine = TRUE /\ dev.kind = "read" /\ dev.lba = bot.lba /\ InR[1] = "data"
          \/ DataTooLong
      BY <3>3, <2>3, <1>5, <1>7 DEF NewOutcome
    <3>. QED BY <3>1, <3>2, <3>4
  <2>4. ASSUME Passed', ~ Passed PROVE InR' = << >> /\ ReadBack'
    <3>1. CASE CswSent /\ InR[1] = "csw" /\ Done
      <4>1. ~ InH /\ InR' = Tail(InR) /\ xhc'.bounce = xhc.bounce /\ disk' = disk
        BY <3>1 DEF CswSent, RanIn
      <4>2. InR = <<"csw">> /\ ReadBack BY <4>1, <3>1, <2>1
      <4>3. xhc'.bounce = OnDisk(bot.lba) BY <4>1, <4>2 DEF ReadBack
      <4>4. Tail(<<"csw">>) = << >> OBVIOUS
      <4>. QED BY <4>1, <4>2, <4>3, <4>4, ReadBackKept
    <3>2. CASE DataSent \/ DataTooLong
      BY <3>2, <2>4 DEF DataSent, DataTooLong, Passed
    <3>. QED BY <3>1, <3>2, <2>4, <1>5, <1>7 DEF NewOutcome
  <2>5. ASSUME Done', Done PROVE InH' \/ (InR' = <<"csw">> /\ ReadBack')
    <3>1. CASE InH BY <3>1, DeviceRings
    <3>2. CASE InR = <<"csw">> /\ ReadBack
      <4>1. StopOut \/ StopIn
        BY <2>5 DEF DeviceDoes, Done, CbwTaken, DataTaken, CbwForData, DataSent, DataTooLong, CswSent, NoCommand
      <4>2. InR' = InR /\ xhc'.bounce = xhc.bounce /\ disk' = disk
        BY <4>1 DEF StopOut, StopIn, HaltOut, HaltIn, SamePage
      <4>3. xhc'.bounce = OnDisk(bot.lba) BY <4>2, <3>2 DEF ReadBack
      <4>. QED BY <4>2, <4>3, <3>2, ReadBackKept
    <3>. QED BY <3>1, <3>2, <2>1, <2>5
  <2>6. ASSUME Passed', Passed PROVE InR' = << >> /\ ReadBack'
    <3>1. InR = << >> /\ ReadBack /\ ~ InH /\ Mine BY <2>1, <2>6 DEF PipePart, Mine, Passed
    <3>2. OutH \/ NoData(OutR) BY <2>2, <3>1
    <3>3. ASSUME DataTaken PROVE FALSE
      <4>1. ~ OutH /\ OutR # << >> /\ OutR[1] = "data" BY <3>3 DEF DataTaken, RanOut
      <4>2. 1 \in 1 .. Len(OutR) BY <4>1, <1>6
      <4>. QED BY <4>1, <4>2, <3>2 DEF NoData
    <3>4. CbwTaken \/ CbwForData \/ StopOut
      BY <3>1, <3>3 DEF DeviceDoes, DataSent, DataTooLong, CswSent, StopIn, RanIn, HaltIn
    <3>5. InR' = InR /\ xhc'.bounce = xhc.bounce /\ disk' = disk
      BY <3>4 DEF CbwTaken, CbwForData, StopOut, RanOut, HaltOut, SamePage
    <3>6. xhc'.bounce = OnDisk(bot.lba) BY <3>1, <3>5 DEF ReadBack
    <3>. QED BY <3>1, <3>5, <3>6, ReadBackKept
  <2>. QED BY <2>3, <2>4, <2>5, <2>6
<1>8. ASSUME bot.pc = "wait", bot.kind = "write"
      PROVE  (Done' => InH' \/ NoData(OutR')) /\ (Passed' => NoData(OutR'))
  <2>1. (Done => InH \/ NoData(OutR)) /\ (Passed => NoData(OutR))
    BY <1>8 DEF ShapePart, WriteDone
  <2>2. InH \/ (OutH /\ ~ Mine) \/ LastData(OutR) BY <1>8 DEF ShapePart, WaitShape
  <2>3. ASSUME Done', ~ Done PROVE InH' \/ NoData(OutR')
    <3>1. CASE DataTaken /\ dev.mine = TRUE
      <4>1. OutR # << >> /\ OutR[1] = "data" /\ ~ OutH /\ OutR' = Tail(OutR) /\ InH' = InH
        BY <3>1 DEF DataTaken, RanOut
      <4>2. CASE InH BY <4>1, <4>2
      <4>3. CASE LastData(OutR)
        <5>1. Tail(OutR) = << >> BY <4>1, <4>3, <1>6, TailShape
        <5>. QED BY <5>1, <4>1, <1>6, QueuedShape
      <4>. QED BY <4>1, <4>2, <4>3, <2>2
    <3>2. CASE DataTooLong BY <3>2 DEF DataTooLong, HaltIn
    <3>3. bot.kind \in {"read", "write"} /\ bot.kind # "read" BY <1>8
    <3>4. (DataTaken /\ dev.mine = TRUE) \/ DataTooLong BY <3>3, <2>3, <1>5, <1>8 DEF NewOutcome
    <3>. QED BY <3>1, <3>2, <3>4
  <2>4. ASSUME Passed', ~ Passed PROVE NoData(OutR')
    <3>1. CASE CswSent /\ Done
      <4>1. ~ InH BY <3>1 DEF CswSent, RanIn
      <4>. QED BY <4>1, <3>1, <2>1, DeviceRings
    <3>2. CASE DataTaken \/ DataTooLong
      BY <3>2, <2>4 DEF DataTaken, SamePage, DataTooLong, Passed
    <3>. QED BY <3>1, <3>2, <2>4, <1>5, <1>8 DEF NewOutcome
  <2>. QED BY <2>1, <2>3, <2>4, DeviceRings
<1>9. ReadDone' BY <1>7 DEF ReadDone
<1>10. WriteDone' BY <1>8 DEF WriteDone
<1>. QED BY <1>1, <1>2, <1>3, <1>4, <1>9, <1>10 DEF ShapePart

\* A step of the driver, or of the layer above, does too.
LEMMA ShapeDriver ==
    ASSUME UsbType, UsbType', PipePart, ShapePart, DriverDoes \/ LunQuiet, perLba' = perLba
    PROVE  ShapePart'
<1>0. OutR \in Seq(Trb) /\ InR \in Seq(Trb) BY UsbFields
<1>1. CASE Queued
  <2>1. /\ bot.pc = "queue" /\ bot'.pc = "wait" /\ bot'.kind = bot.kind /\ bot'.lba = bot.lba
        /\ OutR' = OutR \o Trbs(bot.kind).out /\ InR' = InR \o Trbs(bot.kind).in
        /\ OutH' = OutH /\ InH' = InH
        /\ xhc'.cbw.kind = bot.kind /\ xhc'.cbw.lba = bot.lba
        /\ xhc'.csw.mine = FALSE /\ dev'.mine = FALSE
    BY <1>1 DEF Queued, SameCall
  <2>2. bot.kind \in {"read", "write", "sense"} BY <2>1 DEF UsbType, BotType, Active
  <2>3. ~ Mine' /\ ~ Done' /\ ~ Passed' BY <2>1 DEF Mine, Done, Passed
  <2>4. Stopped \/ (NoData(OutR) /\ NoData(InR)) BY <2>1 DEF ShapePart, RestShape, Resting
  <2>5. RestShape'
    <3>1. SUFFICES ASSUME bot.kind = "sense" PROVE NoData(OutR') /\ NoData(InR')
      BY <2>1 DEF RestShape, Resting
    <3>2. OutR = << >> /\ InR = << >> BY <2>1, <3>1 DEF PipePart, Empty
    <3>3. OutR' = <<"cbw">> /\ InR' = <<"sense", "csw">> BY <2>1, <3>1, <3>2, TrbsIs
    <3>. QED BY <3>3, <1>0, QueuedShape
  <2>6. WaitShape'
    <3>1. SUFFICES ASSUME bot.kind # "sense"
                   PROVE  \/ InH' \/ (OutH' /\ ~ Mine')
                          \/ bot.kind = "read" /\ ReadShape(InR') /\ NoData(OutR')
                          \/ bot.kind = "write" /\ LastData(OutR') /\ NoData(InR')
      BY <2>1 DEF WaitShape
    <3>2. CASE Stopped BY <2>1, <2>3, <3>2 DEF Stopped
    <3>3. CASE NoData(OutR) /\ NoData(InR) /\ bot.kind = "read"
      <4>1. OutR' = OutR \o <<"cbw">> /\ InR' = InR \o <<"data", "csw">> BY <2>1, <3>3, TrbsIs
      <4>2. NoData(OutR') /\ ReadShape(InR') BY <4>1, <3>3, <1>0, QueuedShape
      <4>. QED BY <4>2, <3>3
    <3>4. CASE NoData(OutR) /\ NoData(InR) /\ bot.kind = "write"
      <4>1. OutR' = OutR \o <<"cbw", "data">> /\ InR' = InR \o <<"csw">> BY <2>1, <3>4, TrbsIs
      <4>2. LastData(OutR') /\ NoData(InR') BY <4>1, <3>4, <1>0, QueuedShape
      <4>. QED BY <4>2, <3>4
    <3>. QED BY <3>1, <3>2, <3>3, <3>4, <2>2, <2>4
  <2>7. RecoverShape' /\ CommandPart' /\ ReadDone' /\ WriteDone'
    BY <2>1, <2>3 DEF RecoverShape, CommandPart, ReadDone, WriteDone
  <2>. QED BY <2>5, <2>6, <2>7 DEF ShapePart
<1>2. CASE PollOk
  <2>1. /\ bot.pc = "wait" /\ bot'.pc = "wait" /\ bot'.kind = bot.kind /\ bot'.lba = bot.lba
        /\ SameRings /\ SamePage /\ SameDisk
    BY <1>2 DEF PollOk, SameCall
  <2>2. Mine' = Mine /\ Done' = Done /\ Passed' = Passed /\ Stopped' = Stopped
    BY <2>1 DEF SamePage, SameDisk, Mine, Done, Passed, Stopped, SameRings
  <2>3. ReadBack => ReadBack'
    <3>1. ASSUME ReadBack PROVE ReadBack'
      <4>1. xhc'.bounce = OnDisk(bot.lba) BY <3>1, <2>1 DEF SamePage, ReadBack
      <4>. QED BY <4>1, <2>1, ReadBackKept DEF SameDisk
    <3>. QED BY <3>1
  <2>4. RestShape' /\ WaitShape' /\ RecoverShape'
    BY <2>1, <2>2 DEF ShapePart, RestShape, WaitShape, RecoverShape, SameRings, Resting
  <2>5. CommandPart' BY <2>1 DEF ShapePart, CommandPart, SameRings, SameDisk
  <2>6. ReadDone' BY <2>1, <2>2, <2>3 DEF ShapePart, ReadDone, SameRings
  <2>7. WriteDone' BY <2>1, <2>2 DEF ShapePart, WriteDone, SameRings
  <2>. QED BY <2>4, <2>5, <2>6, <2>7 DEF ShapePart
<1>3. ASSUME bot'.pc \notin {"wait", "recover_out"}, Resting' => Stopped' \/ (NoData(OutR') /\ NoData(InR'))
      PROVE  ShapePart'
  BY <1>3 DEF ShapePart, RestShape, WaitShape, RecoverShape, CommandPart, ReadDone, WriteDone
<1>4. ASSUME bot.pc = "wait", bot'.pc = "recover_out", bot'.kind = bot.kind, bot.kind # "sense", SameRings
      PROVE  ShapePart'
  <2>1. bot.kind = "read" => Stopped \/ NoData(OutR)
    BY <1>4 DEF ShapePart, WaitShape, Stopped
  <2>2. RecoverShape' BY <1>4, <2>1 DEF RecoverShape, Stopped, SameRings
  <2>. QED BY <2>2, <1>4 DEF ShapePart, RestShape, WaitShape, CommandPart, ReadDone, WriteDone, Resting
<1>5. CASE PollError
  <2>1. xhc.ev \in Seq(Event) /\ xhc.ev # << >> BY <1>5, UsbFields DEF PollError
  <2>2. 1 \in 1 .. Len(xhc.ev) /\ xhc.ev[1] \in Event BY <2>1
  <2>3. xhc.ev[1].ep \in Eps BY <2>2 DEF Event
  <2>4. Stopped BY <2>2, <2>3, <1>5 DEF PollError, PipePart, ErrorsHalt, Stopped, Eps
  <2>5. Stopped' BY <2>4, <1>5 DEF PollError, SameRings, Stopped
  <2>6. bot'.pc \notin {"wait", "recover_out"} BY <1>5 DEF PollError, Again, GaveUp
  <2>. QED BY <2>5, <2>6, <1>3
<1>6. CASE TimedOut \/ Finished
  <2>1. SameRings /\ bot.pc = "wait" BY <1>6, SameXhc DEF TimedOut, Finished
  <2>2. CASE bot.kind = "sense"
    <3>1. bot'.pc \notin {"wait", "recover_out"} BY <2>2, <1>6 DEF TimedOut, Finished, Again, GaveUp
    <3>2. Stopped \/ (NoData(OutR) /\ NoData(InR)) BY <2>1, <2>2 DEF ShapePart, RestShape
    <3>3. Stopped' \/ (NoData(OutR') /\ NoData(InR')) BY <3>2, <2>1 DEF SameRings, Stopped
    <3>. QED BY <3>1, <3>3, <1>3
  <2>3. CASE bot.kind # "sense" /\ ToRecover
    BY <2>1, <2>3, <1>4 DEF ToRecover
  <2>4. CASE /\ Finished /\ bot.kind # "sense" /\ xhc.csw.mine = TRUE /\ xhc.csw.ok = TRUE
             /\ bot'.pc = "ok"
    <3>1. Passed /\ Mine BY <2>4 DEF Passed, Mine
    <3>2. CASE bot.kind = "read"
      <4>1. InR = << >> BY <2>1, <3>1, <3>2 DEF ShapePart, ReadDone
      <4>2. ~ InH BY <4>1 DEF PipePart
      <4>3. NoData(OutR) BY <2>1, <3>1, <3>2, <4>2 DEF ShapePart, WaitShape
      <4>4. NoData(InR) BY <4>1, <1>0, QueuedShape
      <4>. QED BY <4>3, <4>4, <2>1, <2>4, <1>3 DEF SameRings
    <3>3. CASE bot.kind = "write"
      <4>1. NoData(OutR) BY <2>1, <3>1, <3>3 DEF ShapePart, WriteDone
      <4>2. InH \/ NoData(InR) BY <2>1, <3>1, <3>3 DEF ShapePart, WaitShape
      <4>. QED BY <4>1, <4>2, <2>1, <2>4, <1>3 DEF SameRings, Stopped
    <3>. QED BY <3>2, <3>3, <2>4, <2>1 DEF UsbType, BotType, Active
  <2>. QED BY <2>2, <2>3, <2>4, <1>6 DEF TimedOut, Finished
<1>7. CASE OutRecovered BY <1>7, <1>3 DEF OutRecovered, Resting
<1>8. CASE InRecovered
  <2>1. OutR' = << >> /\ InR' = << >> BY <1>8 DEF InRecovered, PipePart
  <2>2. NoData(OutR') /\ NoData(InR') BY <2>1, <1>0, QueuedShape
  <2>3. bot'.pc \notin {"wait", "recover_out"} BY <1>8 DEF InRecovered, Again, SenseNext, GaveUp
  <2>. QED BY <2>2, <2>3, <1>3
<1>9. CASE LunQuiet
  <2>1. SameRings /\ SamePage /\ SameDisk BY <1>9, SameXhc DEF LunQuiet
  <2>2. CASE bot' = bot
    <3>1. xhc' = xhc /\ dev' = dev /\ disk' = disk BY <1>9 DEF LunQuiet, SameDisk
    <3>. QED BY <3>1, <2>2 DEF ShapePart, RestShape, WaitShape, RecoverShape, CommandPart, ReadDone, WriteDone,
                Resting, Stopped, Mine, Done, Passed, ReadBack, OnDisk, OutR, InR, OutH, InH
  <2>3. CASE bot' # bot
    <3>1. bot'.pc \notin {"wait", "recover_out"} /\ Resting BY <2>3, <1>9 DEF LunQuiet, Resting
    <3>2. Stopped \/ (NoData(OutR) /\ NoData(InR)) BY <3>1 DEF ShapePart, RestShape
    <3>3. Stopped' \/ (NoData(OutR') /\ NoData(InR')) BY <3>2, <2>1 DEF SameRings, Stopped
    <3>. QED BY <3>1, <3>3, <1>3
  <2>. QED BY <2>2, <2>3
<1>. QED BY <1>1, <1>2, <1>5, <1>6, <1>7, <1>8, <1>9 DEF DriverDoes

-----------------------------------------------------------------------------
(* The request and the call it has placed                                  *)

RqFieldNames == {"op", "via", "secs", "val", "todo", "buf"}

RqType ==
    /\ DOMAIN rq = RqFieldNames
    /\ rq.secs \subseteq Sectors /\ rq.todo \subseteq rq.secs
    /\ rq.op # "none" => DOMAIN rq.buf = Sectors
    /\ \/ rq = NoRequest
       \/ rq.op \in {"read", "write"} /\ rq.secs # {} /\ reply = NoRequest
    /\ DOMAIN cache = 0 .. CacheLines - 1

CallPart ==
    /\ bot.pc # "idle" => rq.todo # {}
    /\ bot.pc \notin {"idle", "failed"} =>
          bot.lba = Target /\ (bot.op = "write" => rq.op = "write")
    /\ rq.op = "write" => cache = NoCache /\ pin = NoPin

LinkPart == RqType /\ CallPart

SameRequest == rq' = rq /\ pin' = pin /\ cache' = cache /\ reply' = reply /\ want' = want

\* The blocks of the sectors are numbered, and a sector is found in its block.
LEMMA LbaIs ==
    ASSUME UsbType, NEW s \in Sectors
    PROVE  /\ s \in Nat /\ Lba(s) \in Nat /\ Pos(s) \in 1 .. perLba
           /\ Lba(s) * perLba + Pos(s) - 1 = s
<1>1. s \in Nat /\ perLba \in Nat \ {0} BY DiskAssumption DEF UsbType
<1>2. s \div perLba \in Nat /\ s % perLba \in 0 .. perLba - 1 BY <1>1
<1>3. (s \div perLba) * perLba + (s % perLba) = s BY <1>1
<1>4. (s \div perLba) * perLba \in Nat BY <1>1, <1>2
<1>. QED BY <1>1, <1>2, <1>3, <1>4 DEF Lba, Pos

\* The first sector left belongs to the request.
LEMMA FirstIs ==
    ASSUME RqType, rq.todo # {}
    PROVE  First \in rq.todo /\ First \in Sectors /\ First \in Nat
<1>1. rq.todo \in SUBSET Nat BY DiskAssumption DEF RqType
<1>2. \E x \in rq.todo : \A y \in rq.todo : x <= y BY <1>1, LeastNatural
<1>3. First \in rq.todo BY <1>2 DEF First, Min
<1>. QED BY <1>3, <1>1 DEF RqType

\* The sectors handled next belong to the request and to the block of the call.
LEMMA ChunkIs ==
    ASSUME RqType, rq.todo # {}
    PROVE  /\ Chunk \subseteq rq.todo /\ First \in Chunk
           /\ \A s \in Chunk : s \in Sectors /\ Lba(s) = Target
           /\ rq.op = "write" => Chunk = {s \in rq.todo : Lba(s) = Target}
<1>1. First \in rq.todo /\ First \in Sectors BY FirstIs
<1>2. rq.todo \subseteq Sectors BY DEF RqType
<1>3. CASE Cached BY <1>1, <1>2, <1>3 DEF Chunk, Cached, Target
<1>4. CASE ~ Cached BY <1>1, <1>2, <1>4 DEF Chunk, Block, Target
<1>. QED BY <1>3, <1>4

\* A call is placed.
LEMMA CallIs ==
    ASSUME NEW op \in {"read", "write"}, NEW l \in Nat, NEW data, bot' = Call(op, l, data)
    PROVE  /\ BotType' /\ bot'.pc = "queue" /\ bot'.op = op /\ bot'.kind = op /\ bot'.lba = l
           /\ bot'.data = data
<1>1. NoCall.seen \in [Eps -> Nat] BY DEF NoCall
<1>2. /\ bot'.pc = "queue" /\ bot'.op = op /\ bot'.kind = op /\ bot'.lba = l /\ bot'.data = data
      /\ bot'.seen = NoCall.seen
      /\ DOMAIN bot' = {"pc", "op", "kind", "lba", "data", "try", "round", "stage", "cmpl", "seen"}
  BY DEF Call, NoCall
<1>. QED BY <1>1, <1>2 DEF BotType, Active, Recovering

\* The outcome of a call was taken.
LEMMA NoCallIs ==
    ASSUME bot' = NoCall
    PROVE  BotType' /\ bot'.pc = "idle"
BY DEF NoCall, BotType, Active, Recovering

\* The layer above leaves the driver, the controller and the disk in a state they know.
LEMMA QuietType ==
    ASSUME UsbType, BotType', UNCHANGED <<perLba, disk, dev, xhc, senseLost>>
    PROVE  UsbType'
<1>1. XhcType' /\ DevType' BY DEF UsbType, XhcType, DevType, OutR
<1>. QED BY <1>1 DEF UsbType

\* A request arrives.
Submitted ==
    /\ rq = NoRequest /\ bot.pc = "idle" /\ reply' = NoRequest /\ bot' = bot
    /\ rq'.op \in {"read", "write"} /\ rq'.todo = rq'.secs
    /\ rq'.op = "read" => cache' = cache /\ pin' = pin
    /\ rq'.op = "write" => cache' = NoCache /\ pin' = NoPin
    /\ \A s \in Sectors : want'[s] = IF rq'.op = "write" /\ s \in rq'.secs THEN Unknown ELSE want[s]

\* Part of a request is done: the sectors T are left of it.
Left(T) ==
    /\ rq'.op = rq.op /\ rq'.secs = rq.secs /\ rq'.val = rq.val /\ rq'.via = rq.via
    /\ rq'.todo = T /\ DOMAIN rq' = RqFieldNames
    /\ reply' = reply /\ pin' = pin /\ want' = want

PinServed ==
    /\ bot.pc = "idle" /\ bot' = bot /\ rq.op = "read" /\ pin # NoPin /\ rq.secs \subseteq PinSectors /\ Left({})
    /\ DOMAIN rq'.buf = Sectors /\ \A s \in rq.secs : rq'.buf[s] = pin[s]
    /\ cache' = cache

CacheServed ==
    /\ bot.pc = "idle" /\ bot' = bot /\ rq.op = "read" /\ rq.todo # {} /\ cache[Line(First)].tag = First
    /\ Left(rq.todo \ {First})
    /\ DOMAIN rq'.buf = Sectors
    /\ \A s \in rq.secs : rq'.buf[s] = IF s = First THEN cache[Line(First)].val ELSE rq.buf[s]
    /\ cache' = cache

CallPlaced ==
    /\ bot.pc = "idle" /\ rq.todo # {} /\ bot'.pc = "queue" /\ bot'.kind = bot'.op
    /\ bot'.lba = Target /\ SameRequest
    /\ \/ bot'.op = "read"
       \/ bot'.op = "write" /\ rq.op = "write" /\ ~ Partial /\ bot'.data = Fill(rq.val)

BlockTaken ==
    /\ bot.pc = "ok" /\ bot.op = "read" /\ rq.op = "read" /\ bot'.pc = "idle"
    /\ Left(rq.todo \ Chunk)
    /\ DOMAIN rq'.buf = Sectors
    /\ \A s \in rq.secs : rq'.buf[s] = IF s \in Chunk THEN bot.data[Pos(s)] ELSE rq.buf[s]
    /\ \/ cache' = cache
       \/ cache' = [cache EXCEPT ![Line(First)] = [tag |-> First, val |-> bot.data[Pos(First)]]]

Patched ==
    [i \in 1 .. perLba |-> IF Target * perLba + i - 1 \in Chunk THEN rq.val ELSE bot.data[i]]

WrittenBack ==
    /\ bot.pc = "ok" /\ bot.op = "read" /\ rq.op = "write" /\ SameRequest
    /\ bot'.pc = "queue" /\ bot'.kind = bot'.op
    /\ bot'.op = "write" /\ bot'.lba = Target /\ bot'.data = Patched

BlockStored ==
    /\ bot.pc = "ok" /\ bot.op = "write" /\ bot'.pc = "idle" /\ Left(rq.todo \ Chunk)
    /\ rq'.buf = rq.buf /\ cache' = cache

GivenUp ==
    /\ bot.pc = "failed" /\ bot'.pc = "idle" /\ rq' = NoRequest /\ reply'.op = "failed" /\ pin' = pin
    /\ cache' = cache \/ cache' = [cache EXCEPT ![Line(First)] = NoLine]
    /\ \A s \in Sectors : want'[s] = IF LeftData /\ rq.op = "write" /\ Lba(s) = Target
                                     THEN Unknown ELSE want[s]

Answered ==
    /\ rq # NoRequest /\ rq.todo = {} /\ bot.pc = "idle" /\ bot' = bot /\ rq' = NoRequest
    /\ pin' = pin /\ cache' = cache
    /\ (rq.op = "read" /\ reply' = rq) \/ (rq.op = "write" /\ reply'.op = "write")
    /\ \A s \in Sectors : want'[s] = IF rq.op = "write" /\ s \in rq.secs THEN rq.val ELSE want[s]

LunDoes ==
    \/ Submitted \/ PinServed \/ CacheServed \/ CallPlaced \/ BlockTaken \/ WrittenBack
    \/ BlockStored \/ GivenUp \/ Answered

LunFrame == UNCHANGED <<perLba, disk, dev, xhc, senseLost>>

\* A request of the guest.
LEMMA SubmitDoes ==
    ASSUME UsbType, LinkPart, NEW op \in {"read", "write"}, NEW via, NEW secs \in Requests, NEW v,
           Submit(op, via, secs, v)
    PROVE  Submitted /\ RqType' /\ LunFrame /\ BotType'
<1>. DEFINE b == [s \in Sectors |-> 0]
<1>1. /\ rq = NoRequest /\ reply' = NoRequest /\ UNCHANGED usb
      /\ rq' = [op |-> op, via |-> via, secs |-> secs, val |-> v, todo |-> secs, buf |-> b]
      /\ cache' = IF op = "write" THEN NoCache ELSE cache
      /\ pin' = IF op = "write" THEN NoPin ELSE pin
      /\ want' = [s \in Sectors |-> IF op = "write" /\ s \in secs THEN Unknown ELSE want[s]]
  BY DEF Submit
<1>2. DOMAIN b = Sectors OBVIOUS
<1>. HIDE DEF b
<1>3. /\ rq'.op = op /\ rq'.secs = secs /\ rq'.todo = secs /\ rq'.buf = b
      /\ DOMAIN rq' = RqFieldNames
  BY <1>1 DEF RqFieldNames
<1>4. secs \subseteq Sectors /\ secs # {}
  <2>1. PICK s0 \in Sectors, n \in 1 .. 2 : secs = {a \in Sectors : a >= s0 /\ a < s0 + n}
    BY DEF Requests
  <2>2. s0 \in Nat BY DiskAssumption
  <2>3. s0 \in secs BY <2>1, <2>2
  <2>. QED BY <2>1, <2>3
<1>5. bot.pc = "idle"
  <2>1. rq.todo = {} BY <1>1 DEF NoRequest
  <2>. QED BY <2>1 DEF LinkPart, CallPart
<1>6. LunFrame /\ bot' = bot BY <1>1 DEF usb, LunFrame
<1>7. BotType' BY <1>6 DEF UsbType, BotType, Active, Recovering
<1>8. \A s \in Sectors : want'[s] = IF op = "write" /\ s \in secs THEN Unknown ELSE want[s] BY <1>1
<1>9. DOMAIN cache' = 0 .. CacheLines - 1 BY <1>1 DEF NoCache, LinkPart, RqType
<1>10. RqType' BY <1>1, <1>2, <1>3, <1>4, <1>9 DEF RqType
<1>11. Submitted BY <1>1, <1>3, <1>5, <1>6, <1>8 DEF Submitted
<1>. QED BY <1>6, <1>7, <1>10, <1>11

\* Part of a request was done.
LEMMA LeftType ==
    ASSUME LinkPart, NEW T \in SUBSET rq.todo, Left(T), rq.op # "none",
           DOMAIN rq'.buf = Sectors, DOMAIN cache' = DOMAIN cache
    PROVE  RqType'
<1>1. rq # NoRequest BY DEF NoRequest
<1>2. reply = NoRequest /\ rq.op \in {"read", "write"} /\ rq.secs # {} BY <1>1 DEF LinkPart, RqType
<1>. QED BY <1>1, <1>2 DEF LinkPart, RqType, Left

\* The fields of a request after two of them were set.
LEMMA RqExcept ==
    ASSUME LinkPart, NEW T, NEW b, rq' = [rq EXCEPT !.todo = T, !.buf = b],
           reply' = reply, pin' = pin, want' = want
    PROVE  Left(T) /\ rq'.buf = b
<1>1. DOMAIN rq = {"op", "via", "secs", "val", "todo", "buf"} BY DEF LinkPart, RqType, RqFieldNames
<1>. QED BY <1>1 DEF Left, RqFieldNames

\* A BlockIo read within the pinned prefix, or of a cached sector.
LEMMA ServedDoes ==
    ASSUME UsbType, LinkPart, PinRead \/ CacheHit
    PROVE  (PinServed \/ CacheServed) /\ RqType' /\ LunFrame /\ BotType'
<1>1. /\ rq.op = "read" /\ rq.todo # {} /\ bot.pc = "idle" /\ UNCHANGED usb
      /\ reply' = reply /\ pin' = pin /\ want' = want /\ cache' = cache
  BY DEF PinRead, CacheHit, Cached
<1>2. LunFrame /\ bot' = bot BY <1>1 DEF usb, LunFrame
<1>3. BotType' BY <1>2 DEF UsbType, BotType, Active, Recovering
<1>4. rq.secs \subseteq Sectors /\ rq.todo \subseteq rq.secs /\ DOMAIN rq.buf = Sectors
  BY <1>1 DEF LinkPart, RqType
<1>5. CASE PinRead
  <2>. DEFINE b == [s \in Sectors |-> IF s \in rq.secs THEN pin[s] ELSE rq.buf[s]]
  <2>1. rq' = [rq EXCEPT !.todo = {}, !.buf = b] /\ pin # NoPin /\ rq.secs \subseteq PinSectors
    BY <1>5 DEF PinRead, PinServes
  <2>2. DOMAIN b = Sectors /\ \A s \in rq.secs : b[s] = pin[s] BY <1>4
  <2>. HIDE DEF b
  <2>3. Left({}) /\ rq'.buf = b BY <2>1, <1>1, RqExcept
  <2>4. RqType' BY <2>2, <2>3, <1>1, LeftType
  <2>5. PinServed BY <2>1, <2>2, <2>3, <1>1, <1>2 DEF PinServed
  <2>. QED BY <2>4, <2>5, <1>2, <1>3
<1>6. CASE CacheHit
  <2>. DEFINE b == [rq.buf EXCEPT ![First] = cache[Line(First)].val]
              T == rq.todo \ {First}
  <2>1. rq' = [rq EXCEPT !.todo = T, !.buf = b] /\ cache[Line(First)].tag = First
    <3>1. DOMAIN rq = {"op", "via", "secs", "val", "todo", "buf"} BY DEF LinkPart, RqType, RqFieldNames
    <3>2. rq' = [rq EXCEPT !.todo = @ \ {First}, !.buf[First] = cache[Line(First)].val]
          /\ cache[Line(First)].tag = First
      BY <1>6 DEF CacheHit
    <3>. QED BY <3>1, <3>2
  <2>2. DOMAIN b = Sectors
        /\ \A s \in rq.secs : b[s] = IF s = First THEN cache[Line(First)].val ELSE rq.buf[s]
    BY <1>4
  <2>. HIDE DEF b, T
  <2>3. Left(T) /\ rq'.buf = b BY <2>1, <1>1, RqExcept
  <2>4. T \in SUBSET rq.todo BY DEF T
  <2>5. RqType' BY <2>2, <2>3, <2>4, <1>1, LeftType
  <2>6. CacheServed BY <2>1, <2>2, <2>3, <1>1, <1>2 DEF CacheServed, T
  <2>. QED BY <2>5, <2>6, <1>2, <1>3
<1>. QED BY <1>5, <1>6

\* A call is placed, for a block or to write a patched one back.
LEMMA PlacedDoes ==
    ASSUME UsbType, LinkPart, StartBlock \/ WriteBack
    PROVE  (CallPlaced \/ WrittenBack) /\ RqType' /\ LunFrame /\ BotType'
<1>1. LunFrame /\ SameRequest BY DEF StartBlock, WriteBack, LunFrame, SameRequest
<1>2. RqType' BY <1>1 DEF LinkPart, RqType, SameRequest
<1>3. rq.todo # {}
  BY DEF StartBlock, WriteBack, LinkPart, CallPart
<1>4. Target \in Nat BY <1>3, FirstIs, LbaIs DEF Target, LinkPart
<1>5. CASE StartBlock
  <2>1. /\ bot.pc = "idle"
        /\ \/ bot' = Call("read", Target, << >>)
           \/ bot' = Call("write", Target, Fill(rq.val)) /\ rq.op # "read" /\ ~ Partial
    BY <1>5 DEF StartBlock
  <2>2. rq.op \in {"read", "write"}
    <3>1. rq # NoRequest BY <1>3 DEF NoRequest
    <3>. QED BY <3>1 DEF LinkPart, RqType
  <2>3. CASE bot' = Call("read", Target, << >>)
    <3>1. BotType' /\ bot'.pc = "queue" /\ bot'.op = "read" /\ bot'.lba = Target /\ bot'.kind = "read"
      BY <2>3, <1>4, CallIs
    <3>. QED BY <3>1, <2>1, <1>1, <1>2, <1>3 DEF CallPlaced
  <2>4. CASE bot' = Call("write", Target, Fill(rq.val)) /\ rq.op # "read" /\ ~ Partial
    <3>. DEFINE d == Fill(rq.val)
    <3>0. bot' = Call("write", Target, d) BY <2>4
    <3>. HIDE DEF d
    <3>1. BotType' /\ bot'.pc = "queue" /\ bot'.op = "write" /\ bot'.lba = Target /\ bot'.data = d
          /\ bot'.kind = "write"
      BY <3>0, <1>4, CallIs
    <3>2. CallPlaced BY <3>1, <2>1, <2>2, <2>4, <1>1, <1>3 DEF CallPlaced, d
    <3>. QED BY <3>1, <3>2, <1>1, <1>2
  <2>. QED BY <2>1, <2>3, <2>4
<1>6. CASE WriteBack
  <2>. DEFINE d == Patched
  <2>1. bot.pc = "ok" /\ bot.op = "read" /\ rq.op = "write" /\ bot' = Call("write", Target, d)
    BY <1>6 DEF WriteBack, Patched
  <2>. HIDE DEF d
  <2>2. BotType' /\ bot'.pc = "queue" /\ bot'.op = "write" /\ bot'.lba = Target /\ bot'.data = d
          /\ bot'.kind = "write"
    BY <2>1, <1>4, CallIs
  <2>3. WrittenBack BY <2>1, <2>2, <1>1 DEF WrittenBack, d
  <2>. QED BY <2>2, <2>3, <1>1, <1>2
<1>. QED BY <1>5, <1>6

\* The outcome of a call is taken.
LEMMA TakenDoes ==
    ASSUME UsbType, LinkPart, BlockRead \/ BlockWritten
    PROVE  (BlockTaken \/ BlockStored) /\ RqType' /\ LunFrame /\ BotType'
<1>1. /\ LunFrame /\ bot' = NoCall /\ bot.pc = "ok" /\ reply' = reply /\ pin' = pin /\ want' = want
  BY DEF BlockRead, BlockWritten, LunFrame
<1>2. BotType' /\ bot'.pc = "idle" BY <1>1, NoCallIs
<1>3. rq.todo # {} BY <1>1 DEF LinkPart, CallPart
<1>4. Chunk \subseteq rq.todo /\ First \in Nat BY <1>3, ChunkIs, FirstIs DEF LinkPart
<1>5. rq.op \in {"read", "write"}
  <2>1. rq # NoRequest BY <1>3 DEF NoRequest
  <2>. QED BY <2>1 DEF LinkPart, RqType
<1>6. rq.secs \subseteq Sectors /\ rq.todo \subseteq rq.secs /\ DOMAIN rq.buf = Sectors
      /\ DOMAIN rq = {"op", "via", "secs", "val", "todo", "buf"}
  BY <1>5 DEF LinkPart, RqType, RqFieldNames
<1>7. CASE BlockRead
  <2>. DEFINE b == [s \in Sectors |-> IF s \in Chunk THEN bot.data[Pos(s)] ELSE rq.buf[s]]
              T == rq.todo \ Chunk
  <2>1. rq' = [rq EXCEPT !.todo = T, !.buf = b] /\ bot.op = "read" /\ rq.op = "read"
    BY <1>7 DEF BlockRead
  <2>2. DOMAIN b = Sectors
        /\ \A s \in rq.secs : b[s] = IF s \in Chunk THEN bot.data[Pos(s)] ELSE rq.buf[s]
    BY <1>6
  <2>3. \/ cache' = cache
        \/ cache' = [cache EXCEPT ![Line(First)] = [tag |-> First, val |-> bot.data[Pos(First)]]]
    BY <1>7 DEF BlockRead
  <2>. HIDE DEF b, T
  <2>4. Left(T) /\ rq'.buf = b BY <2>1, <1>1, RqExcept
  <2>5. T \in SUBSET rq.todo BY DEF T
  <2>6. DOMAIN cache' = DOMAIN cache BY <2>3
  <2>7. RqType' BY <2>2, <2>4, <2>5, <2>6, <1>5, LeftType
  <2>8. BlockTaken BY <2>1, <2>2, <2>3, <2>4, <1>1, <1>2 DEF BlockTaken, T
  <2>. QED BY <2>7, <2>8, <1>1, <1>2
<1>8. CASE BlockWritten
  <2>. DEFINE T == rq.todo \ Chunk
  <2>1. rq' = [rq EXCEPT !.todo = T] /\ bot.op = "write" /\ cache' = cache
    BY <1>8 DEF BlockWritten
  <2>. HIDE DEF T
  <2>2. Left(T) /\ rq'.buf = rq.buf BY <2>1, <1>1, <1>6 DEF Left, RqFieldNames
  <2>3. T \in SUBSET rq.todo BY DEF T
  <2>4. RqType' BY <2>1, <2>2, <2>3, <1>5, <1>6, LeftType
  <2>5. BlockStored BY <2>1, <2>2, <1>1, <1>2 DEF BlockStored, T
  <2>. QED BY <2>4, <2>5, <1>1, <1>2
<1>. QED BY <1>7, <1>8

\* The request ends.
LEMMA EndDoes ==
    ASSUME UsbType, LinkPart, BlockFailed \/ Answer
    PROVE  (GivenUp \/ Answered) /\ RqType' /\ LunFrame /\ BotType'
<1>1. rq' = NoRequest BY DEF BlockFailed, Answer
<1>2. DOMAIN cache' = DOMAIN cache => RqType'
  BY <1>1 DEF LinkPart, RqType, NoRequest, RqFieldNames
<1>3. CASE BlockFailed
  <2>1. /\ LunFrame /\ bot' = NoCall /\ bot.pc = "failed" /\ pin' = pin
        /\ reply' = [NoRequest EXCEPT !.op = "failed"]
        /\ cache' = cache \/ cache' = [cache EXCEPT ![Line(First)] = NoLine]
        /\ want' = [s \in Sectors |-> IF LeftData /\ rq.op = "write" /\ Lba(s) = Target
                                  THEN Unknown ELSE want[s]]
    BY <1>3 DEF BlockFailed, LunFrame
  <2>2. BotType' /\ bot'.pc = "idle" BY <2>1, NoCallIs
  <2>3. reply'.op = "failed" BY <2>1 DEF NoRequest
  <2>4. DOMAIN cache' = DOMAIN cache BY <2>1
  <2>5. \A s \in Sectors : want'[s] = IF LeftData /\ rq.op = "write" /\ Lba(s) = Target
                                    THEN Unknown ELSE want[s]
    BY <2>1
  <2>6. GivenUp BY <2>1, <2>2, <2>3, <2>5, <1>1 DEF GivenUp
  <2>. QED BY <2>1, <2>2, <2>4, <2>6, <1>2
<1>4. CASE Answer
  <2>1. /\ rq # NoRequest /\ rq.todo = {} /\ UNCHANGED usb /\ pin' = pin /\ cache' = cache
        /\ reply' = IF rq.op = "read" THEN rq ELSE [NoRequest EXCEPT !.op = "write"]
        /\ want' = [s \in Sectors |-> IF rq.op = "write" /\ s \in rq.secs THEN rq.val ELSE want[s]]
    BY <1>4 DEF Answer
  <2>2. LunFrame /\ bot' = bot BY <2>1 DEF usb, LunFrame
  <2>3. BotType' BY <2>2 DEF UsbType, BotType, Active, Recovering
  <2>4. bot.pc = "idle" BY <2>1 DEF LinkPart, CallPart
  <2>5. rq.op \in {"read", "write"} BY <2>1 DEF LinkPart, RqType
  <2>6. (rq.op = "read" /\ reply' = rq) \/ (rq.op = "write" /\ reply'.op = "write")
    BY <2>1, <2>5 DEF NoRequest
  <2>7. \A s \in Sectors : want'[s] = IF rq.op = "write" /\ s \in rq.secs THEN rq.val ELSE want[s]
    BY <2>1
  <2>8. Answered BY <2>1, <2>2, <2>4, <2>6, <2>7, <1>1 DEF Answered
  <2>. QED BY <2>1, <2>2, <2>3, <2>8, <1>2
<1>. QED BY <1>3, <1>4

\* What the layer above can do.
LEMMA LunStepDoes ==
    ASSUME UsbType, LinkPart, Guest \/ Lun
    PROVE  LunDoes /\ RqType' /\ LunFrame /\ UsbType' /\ LunQuiet
<1>1. LunDoes /\ RqType' /\ LunFrame /\ BotType'
  <2>1. CASE Guest
    <3>1. PICK op \in {"read", "write"}, via \in {"virtio", "blockio"}, secs \in Requests, v \in Vals \cup {0} :
             Submit(op, via, secs, v)
      BY <2>1 DEF Guest
    <3>. QED BY <3>1, SubmitDoes DEF LunDoes
  <2>2. CASE Lun
    BY <2>2, ServedDoes, PlacedDoes, TakenDoes, EndDoes DEF Lun, LunDoes
  <2>. QED BY <2>1, <2>2
<1>2. UsbType' BY <1>1, QuietType DEF LunFrame
<1>3. LunQuiet BY <1>1 DEF LunQuiet, LunDoes, LunFrame, SameDisk, Submitted, PinServed, CacheServed, CallPlaced,
         BlockTaken, WrittenBack, BlockStored, GivenUp, Answered
<1>. QED BY <1>1, <1>2, <1>3

\* The block of a call depends on what is left of the request.
LEMMA SameTarget ==
    ASSUME rq'.todo = rq.todo, perLba' = perLba
    PROVE  Target' = Target
BY DEF Target, Lba, First, Min

\* A call belongs to what is left of the request, whatever step is taken.
LEMMA LinkStep ==
    ASSUME UsbType, UsbType', LinkPart, perLba' = perLba,
           \/ SameRequest /\ (DriverDoes \/ (DeviceDoes /\ bot' = bot))
           \/ LunDoes /\ RqType'
    PROVE  LinkPart'
<1>1. CASE SameRequest /\ (DriverDoes \/ (DeviceDoes /\ bot' = bot))
  <2>1. RqType' BY <1>1 DEF LinkPart, RqType, SameRequest
  <2>2. Target' = Target BY <1>1, SameTarget DEF SameRequest
  <2>3. \/ bot' = bot
        \/ /\ bot.pc \notin {"idle", "failed"}
           /\ (bot'.lba = bot.lba /\ bot'.op = bot.op) \/ bot'.pc = "failed"
    BY <1>1 DEF DriverDoes, Queued, PollOk, PollError, TimedOut, Finished, OutRecovered, InRecovered,
                Again, SenseNext, ToRecover, SameCall, GaveUp
  <2>4. CallPart' BY <1>1, <2>2, <2>3 DEF LinkPart, CallPart, SameRequest
  <2>. QED BY <2>1, <2>4 DEF LinkPart
<1>2. CASE LunDoes /\ RqType'
  <2>1. CASE Submitted BY <2>1, <1>2 DEF Submitted, LinkPart, CallPart
  <2>2. CASE PinServed \/ CacheServed
    BY <2>2, <1>2 DEF PinServed, CacheServed, Left, LinkPart, CallPart
  <2>3. CASE CallPlaced \/ WrittenBack
    <3>1. Target' = Target BY <2>3, SameTarget DEF CallPlaced, WrittenBack, SameRequest
    <3>2. rq.todo # {} BY <2>3 DEF CallPlaced, WrittenBack, LinkPart, CallPart
    <3>. QED BY <3>1, <3>2, <2>3, <1>2 DEF CallPlaced, WrittenBack, SameRequest, LinkPart, CallPart
  <2>4. CASE BlockTaken BY <2>4, <1>2 DEF BlockTaken, Left, LinkPart, CallPart
  <2>5. CASE BlockStored BY <2>5, <1>2 DEF BlockStored, Left, LinkPart, CallPart
  <2>6. CASE GivenUp \/ Answered
    <3>1. rq'.op = "none" BY <2>6 DEF GivenUp, Answered, NoRequest
    <3>. QED BY <3>1, <2>6, <1>2 DEF GivenUp, Answered, LinkPart, CallPart
  <2>. QED BY <2>1, <2>2, <2>3, <2>4, <2>5, <2>6, <1>2 DEF LunDoes
<1>. QED BY <1>1, <1>2

-----------------------------------------------------------------------------
(* What has been read is what the disk holds, and nothing queued can       *)
(* change the disk for as long as it is kept                               *)

HeldAbove ==
    \/ \E n \in DOMAIN cache : cache[n].tag # -1
    \/ pin # NoPin
    \/ rq.op = "read" /\ rq.todo # rq.secs
    \/ reply.op = "read"

Held == HeldAbove \/ (bot.pc = "ok" /\ bot.op = "read")

TrueAbove ==
    /\ \A n \in DOMAIN cache : cache[n].tag # -1 => cache[n].val = disk[cache[n].tag]
    /\ pin # NoPin => \A s \in PinSectors : pin[s] = disk[s]
    /\ rq.op = "read" => \A s \in rq.secs \ rq.todo : rq.buf[s] = disk[s]
    /\ ReadIsTrue

TruthPart ==
    /\ Held => NoData(OutR)
    /\ TrueAbove
    /\ bot.pc = "ok" /\ bot.op = "read" => bot.data = OnDisk(bot.lba)

\* The block that a passed read brought, or one in memory, sector by sector.
LEMMA OnDiskIs ==
    ASSUME UsbType, NEW s \in Sectors
    PROVE  OnDisk(Lba(s))[Pos(s)] = disk[s]
<1>1. /\ Lba(s) \in Nat /\ Pos(s) \in 1 .. perLba /\ Lba(s) * perLba + Pos(s) - 1 = s BY LbaIs
<1>. QED BY <1>1 DEF OnDisk

\* While nothing is queued that the disk could store, the disk does not change.
LEMMA DiskSame ==
    ASSUME UsbType, DeviceDoes, NoData(OutR)
    PROVE  disk' = disk
<1>1. ASSUME DataTaken PROVE FALSE
  <2>1. OutR # << >> /\ OutR[1] = "data" BY <1>1 DEF DataTaken, RanOut
  <2>2. 1 \in 1 .. Len(OutR) BY <2>1, UsbFields
  <2>. QED BY <2>1, <2>2 DEF NoData
<1>. QED BY <1>1 DEF DeviceDoes, CbwTaken, CbwForData, StopOut, StopIn, DataSent, DataTooLong, CswSent

\* Steps below the request keep what was read true.
LEMMA TruthUsb ==
    ASSUME UsbType, UsbType', PipePart, ShapePart, LinkPart, TruthPart, perLba' = perLba, SameRequest,
           DriverDoes \/ (DeviceDoes /\ bot' = bot)
    PROVE  TruthPart'
<1>0. OutR \in Seq(Trb) BY UsbFields
<1>1. HeldAbove' = HeldAbove BY DEF HeldAbove, SameRequest
<1>2. ASSUME disk' = disk PROVE TrueAbove'
  BY <1>2 DEF TruthPart, TrueAbove, SameRequest, ReadIsTrue
<1>3. CASE DeviceDoes /\ bot' = bot
  <2>1. Held' = Held BY <1>1, <1>3 DEF Held
  <2>2. CASE Held
    <3>1. NoData(OutR) /\ NoData(OutR') BY <2>2, <1>3, DeviceRings DEF TruthPart
    <3>2. disk' = disk BY <3>1, <1>3, DiskSame
    <3>3. bot.pc = "ok" /\ bot.op = "read" => bot'.data = OnDisk(bot.lba)'
      BY <3>2, <1>3 DEF TruthPart, OnDisk
    <3>. QED BY <3>1, <3>2, <3>3, <1>2, <1>3 DEF TruthPart
  <2>3. CASE ~ Held
    <3>1. ~ Held' BY <2>1, <2>3
    <3>2. TrueAbove'
      BY <3>1 DEF Held, HeldAbove, TrueAbove, ReadIsTrue
    <3>. QED BY <3>1, <3>2 DEF TruthPart, Held
  <2>. QED BY <2>2, <2>3
<1>4. CASE DriverDoes
  <2>1. disk' = disk
    BY <1>4 DEF DriverDoes, Queued, PollOk, PollError, TimedOut, Finished, OutRecovered, InRecovered, SameDisk
  <2>2. TrueAbove' BY <2>1, <1>2
  <2>3. CASE Finished /\ bot'.pc = "ok"
    <3>1. /\ bot.pc = "wait" /\ bot.kind = bot.op /\ Passed /\ xhc' = xhc /\ bot'.op = bot.op
          /\ bot'.lba = bot.lba /\ (bot.op = "read" => bot'.data = xhc.bounce)
      BY <2>3 DEF Finished, Passed, Again, GaveUp, ToRecover, UsbType, BotType, Active
    <3>2. OutR' = OutR BY <3>1 DEF OutR
    <3>3. CASE bot.op = "read"
      <4>1. InR = << >> /\ ReadBack BY <3>1, <3>3 DEF ShapePart, ReadDone
      <4>2. ~ InH /\ Mine BY <4>1, <3>1 DEF PipePart, Mine, Passed
      <4>3. NoData(OutR) BY <4>2, <3>1, <3>3 DEF ShapePart, WaitShape
      <4>4. bot'.data = OnDisk(bot.lba) BY <4>1, <3>1, <3>3 DEF ReadBack
      <4>5. OnDisk(bot.lba)' = OnDisk(bot.lba) BY <2>1, <3>1 DEF OnDisk
      <4>. QED BY <4>3, <4>4, <4>5, <3>2, <2>2 DEF TruthPart
    <3>4. CASE bot.op = "write"
      <4>1. NoData(OutR) BY <3>1, <3>4 DEF ShapePart, WriteDone
      <4>. QED BY <4>1, <3>1, <3>2, <3>4, <2>2 DEF TruthPart
    <3>. QED BY <3>3, <3>4, <3>1 DEF UsbType, BotType, Active
  <2>4. CASE ~ (Finished /\ bot'.pc = "ok")
    <3>1. bot'.pc # "ok"
      BY <1>4, <2>4 DEF DriverDoes, Queued, PollOk, PollError, TimedOut, OutRecovered, InRecovered,
                        Again, SenseNext, ToRecover, GaveUp
    <3>2. Held' => HeldAbove BY <3>1, <1>1 DEF Held
    <3>3. ASSUME HeldAbove PROVE NoData(OutR')
      <4>1. NoData(OutR) BY <3>3 DEF TruthPart, Held
      <4>2. CASE Queued
        <5>1. bot.kind # "write"
          <6>1. SUFFICES ASSUME bot.kind = "write" PROVE FALSE OBVIOUS
          <6>2. bot.op = "write" /\ bot.pc = "queue" BY <6>1, <4>2 DEF Queued, UsbType, BotType, Active
          <6>3. rq.op = "write" /\ cache = NoCache /\ pin = NoPin BY <6>2 DEF LinkPart, CallPart
          <6>4. rq # NoRequest /\ NoRequest.op = "none" BY <6>3 DEF NoRequest
          <6>5. reply.op = "none" BY <6>3, <6>4 DEF LinkPart, RqType
          <6>6. \A n \in DOMAIN cache : cache[n].tag = -1 BY <6>3 DEF NoCache, NoLine
          <6>. QED BY <6>3, <6>5, <6>6, <3>3 DEF HeldAbove
        <5>2. bot.kind \in {"read", "sense"} BY <5>1, <4>2 DEF Queued, UsbType, BotType, Active
        <5>3. OutR' = OutR \o <<"cbw">> BY <5>2, <4>2, TrbsIs DEF Queued
        <5>. QED BY <5>3, <4>1, <1>0, QueuedShape
      <4>3. CASE PollOk \/ PollError \/ TimedOut \/ Finished
        <5>1. OutR' = OutR
          BY <4>3, SameXhc DEF PollOk, PollError, TimedOut, Finished, SameRings
        <5>. QED BY <5>1, <4>1
      <4>4. CASE OutRecovered
        BY <4>4, <1>0, QueuedShape DEF OutRecovered
      <4>5. CASE InRecovered BY <4>5, <4>1 DEF InRecovered
      <4>. QED BY <4>2, <4>3, <4>4, <4>5, <1>4 DEF DriverDoes
    <3>. QED BY <3>1, <3>2, <3>3, <2>2 DEF TruthPart
  <2>. QED BY <2>3, <2>4
<1>. QED BY <1>3, <1>4

\* So do the steps of the request.
LEMMA TruthLun ==
    ASSUME UsbType, UsbType', LinkPart, LinkPart', TruthPart, LunDoes, LunFrame
    PROVE  TruthPart'
<1>1. perLba' = perLba /\ disk' = disk /\ OutR' = OutR BY DEF LunFrame, OutR
<1>2. ASSUME HeldAbove' => Held, TrueAbove', bot'.pc # "ok"
      PROVE  TruthPart'
  BY <1>1, <1>2 DEF TruthPart, Held
<1>3. NoRequest.op = "none" /\ NoRequest.secs = NoRequest.todo /\ NoRequest.secs = {} BY DEF NoRequest
<1>4. \A n \in DOMAIN NoCache : NoCache[n].tag = -1 BY DEF NoCache, NoLine
<1>5. CASE Submitted
  <2>1. HeldAbove' => Held
    <3>1. reply'.op = "none" /\ rq'.todo = rq'.secs BY <1>3, <1>5 DEF Submitted
    <3>2. CASE rq'.op = "read" BY <3>1, <3>2, <1>5 DEF Submitted, HeldAbove, Held
    <3>3. CASE rq'.op = "write"
      <4>1. cache' = NoCache /\ pin' = NoPin BY <3>3, <1>5 DEF Submitted
      <4>. QED BY <3>1, <3>3, <4>1, <1>4 DEF HeldAbove
    <3>. QED BY <3>2, <3>3, <1>5 DEF Submitted
  <2>2. TrueAbove'
    <3>1. reply'.op = "none" /\ rq'.todo = rq'.secs BY <1>3, <1>5 DEF Submitted
    <3>2. CASE rq'.op = "read"
      BY <3>1, <3>2, <1>1, <1>5 DEF Submitted, TrueAbove, ReadIsTrue, TruthPart
    <3>3. CASE rq'.op = "write"
      <4>1. cache' = NoCache /\ pin' = NoPin BY <3>3, <1>5 DEF Submitted
      <4>. QED BY <3>1, <3>3, <4>1, <1>4 DEF TrueAbove, ReadIsTrue
    <3>. QED BY <3>2, <3>3, <1>5 DEF Submitted
  <2>. QED BY <2>1, <2>2, <1>2, <1>5 DEF Submitted
<1>6. CASE PinServed
  <2>1. /\ bot.pc = "idle" /\ bot' = bot /\ rq.op = "read" /\ pin # NoPin /\ rq.secs \subseteq PinSectors
        /\ \A s \in rq.secs : rq'.buf[s] = pin[s]
        /\ cache' = cache /\ pin' = pin /\ reply' = reply /\ rq'.op = rq.op /\ rq'.secs = rq.secs
    BY <1>6 DEF PinServed, Left
  <2>2. \A s \in PinSectors : pin[s] = disk[s] BY <2>1 DEF TruthPart, TrueAbove
  <2>3. TrueAbove' BY <2>1, <2>2, <1>1 DEF TruthPart, TrueAbove, ReadIsTrue
  <2>4. Held BY <2>1 DEF Held, HeldAbove
  <2>. QED BY <2>1, <2>3, <2>4, <1>2
<1>7. CASE CacheServed
  <2>1. /\ bot.pc = "idle" /\ bot' = bot /\ rq.op = "read" /\ rq.todo # {} /\ cache[Line(First)].tag = First
        /\ \A s \in rq.secs : rq'.buf[s] = IF s = First THEN cache[Line(First)].val ELSE rq.buf[s]
        /\ cache' = cache /\ pin' = pin /\ reply' = reply /\ rq'.op = rq.op /\ rq'.secs = rq.secs
        /\ rq'.todo = rq.todo \ {First}
    BY <1>7 DEF CacheServed, Left
  <2>2. First \in Nat BY <2>1, FirstIs DEF LinkPart
  <2>3. Line(First) \in DOMAIN cache
    BY <2>2, CacheAssumption DEF Line, LinkPart, RqType
  <2>4. First # -1 BY <2>2
  <2>5. cache[Line(First)].val = disk[First] BY <2>1, <2>3, <2>4 DEF TruthPart, TrueAbove
  <2>6. \A s \in rq'.secs \ rq'.todo : rq'.buf[s] = disk[s]
    <3>1. TAKE s \in rq'.secs \ rq'.todo
    <3>2. CASE s = First BY <3>2, <2>1, <2>5
    <3>3. CASE s # First
      <4>1. s \in rq.secs \ rq.todo BY <3>3, <2>1
      <4>. QED BY <4>1, <3>3, <2>1 DEF TruthPart, TrueAbove
    <3>. QED BY <3>2, <3>3
  <2>7. TrueAbove' BY <2>1, <2>6, <1>1 DEF TruthPart, TrueAbove, ReadIsTrue
  <2>8. Held BY <2>1, <2>3, <2>4 DEF Held, HeldAbove
  <2>. QED BY <2>1, <2>7, <2>8, <1>2
<1>8. CASE CallPlaced \/ WrittenBack
  <2>1. SameRequest /\ bot'.pc = "queue" BY <1>8 DEF CallPlaced, WrittenBack
  <2>2. HeldAbove' = HeldAbove BY <2>1 DEF HeldAbove, SameRequest
  <2>3. TrueAbove' BY <2>1, <1>1 DEF TruthPart, TrueAbove, SameRequest, ReadIsTrue
  <2>. QED BY <2>1, <2>2, <2>3, <1>2 DEF Held
<1>9. CASE BlockTaken
  <2>1. /\ bot.pc = "ok" /\ bot.op = "read" /\ rq.op = "read" /\ bot'.pc = "idle"
        /\ \A s \in rq.secs : rq'.buf[s] = IF s \in Chunk THEN bot.data[Pos(s)] ELSE rq.buf[s]
        /\ pin' = pin /\ reply' = reply /\ rq'.op = rq.op /\ rq'.secs = rq.secs
        /\ rq'.todo = rq.todo \ Chunk
    BY <1>9 DEF BlockTaken, Left
  <2>2. rq.todo # {} /\ bot.lba = Target BY <2>1 DEF LinkPart, CallPart
  <2>3. /\ Chunk \subseteq rq.todo /\ First \in Chunk
        /\ \A s \in Chunk : s \in Sectors /\ Lba(s) = Target
    BY <2>2, ChunkIs DEF LinkPart
  <2>4. bot.data = OnDisk(Target) BY <2>1, <2>2 DEF TruthPart
  <2>5. \A s \in Chunk : bot.data[Pos(s)] = disk[s]
    <3>1. TAKE s \in Chunk
    <3>2. OnDisk(Lba(s))[Pos(s)] = disk[s] BY <2>3, OnDiskIs
    <3>. QED BY <3>2, <2>3, <2>4
  <2>6. \A s \in rq'.secs \ rq'.todo : rq'.buf[s] = disk[s]
    <3>1. TAKE s \in rq'.secs \ rq'.todo
    <3>2. CASE s \in Chunk BY <3>2, <2>1, <2>5
    <3>3. CASE s \notin Chunk
      <4>1. s \in rq.secs \ rq.todo BY <3>3, <2>1
      <4>. QED BY <4>1, <3>3, <2>1 DEF TruthPart, TrueAbove
    <3>. QED BY <3>2, <3>3
  <2>7. \A n \in DOMAIN cache' : cache'[n].tag # -1 => cache'[n].val = disk[cache'[n].tag]
    <3>1. CASE cache' = cache BY <3>1 DEF TruthPart, TrueAbove
    <3>2. CASE cache' = [cache EXCEPT ![Line(First)] = [tag |-> First, val |-> bot.data[Pos(First)]]]
      <4>. DEFINE e == [tag |-> First, val |-> bot.data[Pos(First)]]
      <4>1. e.tag = First /\ e.val = disk[First] BY <2>3, <2>5
      <4>. HIDE DEF e
      <4>2. cache' = [cache EXCEPT ![Line(First)] = e] BY <3>2 DEF e
      <4>3. TAKE n \in DOMAIN cache'
      <4>4. n \in DOMAIN cache /\ (cache'[n] = e \/ cache'[n] = cache[n]) BY <4>2, <4>3
      <4>5. cache[n].tag # -1 => cache[n].val = disk[cache[n].tag] BY <4>4 DEF TruthPart, TrueAbove
      <4>. QED BY <4>1, <4>4, <4>5
    <3>. QED BY <3>1, <3>2, <1>9 DEF BlockTaken
  <2>8. TrueAbove' BY <2>1, <2>6, <2>7, <1>1 DEF TruthPart, TrueAbove, ReadIsTrue
  <2>9. Held BY <2>1 DEF Held
  <2>. QED BY <2>1, <2>8, <2>9, <1>2
<1>10. CASE BlockStored
  <2>1. /\ bot.pc = "ok" /\ bot.op = "write" /\ bot'.pc = "idle" /\ cache' = cache /\ pin' = pin
        /\ reply' = reply /\ rq'.op = rq.op
    BY <1>10 DEF BlockStored, Left
  <2>2. rq.op = "write" /\ cache = NoCache /\ pin = NoPin BY <2>1 DEF LinkPart, CallPart
  <2>3. reply.op = "none" BY <2>2, <1>3 DEF LinkPart, RqType
  <2>4. ~ HeldAbove' BY <2>1, <2>2, <2>3, <1>4 DEF HeldAbove
  <2>5. TrueAbove' BY <2>1, <2>2, <2>3, <1>4 DEF TrueAbove, ReadIsTrue
  <2>. QED BY <2>1, <2>4, <2>5, <1>2
<1>11. CASE GivenUp
  <2>1. /\ bot'.pc = "idle" /\ rq' = NoRequest /\ reply'.op = "failed" /\ pin' = pin
        /\ cache' = cache \/ cache' = [cache EXCEPT ![Line(First)] = NoLine]
    BY <1>11 DEF GivenUp
  <2>2. NoLine.tag = -1 BY DEF NoLine
  <2>3. \A n \in DOMAIN cache' : n \in DOMAIN cache /\ (cache'[n] = cache[n] \/ cache'[n] = NoLine)
    BY <2>1
  <2>4. HeldAbove' => Held BY <2>1, <2>2, <2>3, <1>3 DEF HeldAbove, Held
  <2>5. TrueAbove'
    <3>1. \A n \in DOMAIN cache' : cache'[n].tag # -1 => cache'[n].val = disk[cache'[n].tag]
      BY <2>2, <2>3 DEF TruthPart, TrueAbove
    <3>. QED BY <3>1, <2>1, <1>1, <1>3 DEF TruthPart, TrueAbove, ReadIsTrue
  <2>. QED BY <2>1, <2>4, <2>5, <1>2
<1>12. CASE Answered
  <2>1. /\ rq # NoRequest /\ rq.todo = {} /\ bot.pc = "idle" /\ bot' = bot /\ rq' = NoRequest
        /\ pin' = pin /\ cache' = cache
        /\ (rq.op = "read" /\ reply' = rq) \/ (rq.op = "write" /\ reply'.op = "write")
    BY <1>12 DEF Answered
  <2>2. rq.secs # {} BY <2>1 DEF LinkPart, RqType
  <2>3. HeldAbove' => Held BY <2>1, <2>2, <1>3 DEF HeldAbove, Held
  <2>4. reply'.op = "read" => \A s \in reply'.secs : reply'.buf[s] = disk[s]
    BY <2>1 DEF TruthPart, TrueAbove
  <2>5. TrueAbove' BY <2>1, <2>4, <1>1, <1>3 DEF TruthPart, TrueAbove, ReadIsTrue
  <2>. QED BY <2>1, <2>3, <2>5, <1>2
<1>. QED BY <1>5, <1>6, <1>7, <1>8, <1>9, <1>10, <1>11, <1>12 DEF LunDoes

-----------------------------------------------------------------------------
(* What is stored, for as long as no REQUEST SENSE was given up: a data    *)
(* TRB left on the OUT ring can only reach a block whose contents the      *)
(* guest cannot rely on, or store there what the block must hold anyway    *)

AllCsw(r) == \A i \in 1 .. Len(r) : r[i] = "csw"

PagePart ==
    bot.pc \in {"wait", "recover_out"} /\ bot.kind = "write" =>
        /\ Stopped \/ AllCsw(InR)
        /\ OutH \/ xhc.bounce = bot.data

\* The disk may store the page in block l.
Exposed(l) ==
    /\ ~ OutH
    /\ \/ OutR # << >> /\ OutR[1] = "data" /\ dev.phase = "out" /\ l = dev.lba
       \/ ~ NoData(OutR) /\ xhc.cbw.kind = "write" /\ l = xhc.cbw.lba

\* Nobody relies on the block.
Lost(l) ==
    /\ rq.op = "write" => rq.todo = rq.secs
    /\ \A s \in Sectors : Lba(s) = l => want[s] = Unknown

\* The page is the block as the call wants it.
Ours(l) == bot.op = "write" /\ Active /\ l = bot.lba /\ xhc.bounce = bot.data

\* The call was given up, and the page agrees with what is relied on.
Fresh(l) ==
    /\ bot.pc = "failed" /\ rq.op = "write" /\ l = Target
    /\ \A s \in Sectors : Lba(s) = l /\ want[s] # Unknown => xhc.bounce[Pos(s)] = want[s]

SafePart == \A l \in Nat : Exposed(l) => Lost(l) \/ Ours(l) \/ Fresh(l)

BlockIs == \A s \in Sectors : Lba(s) = bot.lba => disk[s] = bot.data[Pos(s)]

WrittenPart == bot.pc = "wait" /\ bot.kind = "write" /\ (Done \/ Passed) => BlockIs

RequestPart ==
    rq.op = "write" =>
        /\ \A s \in rq.secs : want[s] = Unknown
        /\ \A s \in rq.secs \ rq.todo : disk[s] = rq.val /\ \A t \in rq.todo : Lba(s) # Lba(t)

DataPart ==
    Active /\ bot.op = "write" => \A s \in Sectors : Lba(s) = bot.lba =>
        /\ want[s] # Unknown => bot.data[Pos(s)] = want[s]
        /\ s \in Chunk => bot.data[Pos(s)] = rq.val

StoredPart == bot.pc = "ok" /\ bot.op = "write" => \A s \in Chunk : disk[s] = rq.val

WantPart == \A s \in Sectors : want[s] # Unknown => disk[s] = want[s]

StoreBody ==
    /\ PagePart /\ SafePart /\ WrittenPart /\ RequestPart /\ DataPart /\ StoredPart /\ WantPart

StorePart == senseLost = FALSE => StoreBody

CountBody ==
    /\ bot.pc = "wait" => Balanced \/ Blocked
    /\ Resting => Empty \/ Stopped
    /\ bot.pc = "ok" => Empty

\* The status alone, or nothing, leaves the data page as it is.
LEMMA BounceSame ==
    ASSUME DeviceDoes, InH \/ InR[1] = "csw"
    PROVE  xhc'.bounce = xhc.bounce
<1>1. CASE CbwTaken \/ DataTaken \/ CbwForData \/ StopOut \/ StopIn
  BY <1>1 DEF CbwTaken, DataTaken, CbwForData, StopOut, StopIn, SamePage
<1>2. CASE DataSent BY <1>2 DEF DataSent, RanIn
<1>3. CASE DataTooLong BY <1>3 DEF DataTooLong, HaltIn
<1>4. CASE CswSent BY <1>4 DEF CswSent, RanIn
<1>. QED BY <1>1, <1>2, <1>3, <1>4 DEF DeviceDoes

\* A ring with a data TRB on it is not empty.
LEMMA DataOnRing ==
    ASSUME UsbType, NEW l, Exposed(l)
    PROVE  ~ NoData(OutR) /\ OutR # << >> /\ ~ OutH
<1>1. OutR \in Seq(Trb) BY UsbFields
<1>2. ~ OutH BY DEF Exposed
<1>3. ASSUME OutR # << >>, OutR[1] = "data" PROVE ~ NoData(OutR)
  <2>1. 1 \in 1 .. Len(OutR) BY <1>1, <1>3
  <2>. QED BY <2>1, <1>3 DEF NoData
<1>4. NoData(<< >>) BY <1>1, QueuedShape
<1>5. ~ NoData(OutR) BY <1>3 DEF Exposed
<1>. QED BY <1>2, <1>4, <1>5

\* The IN pipe does not touch the page while a write's data is queued.
LEMMA PageKept ==
    ASSUME UsbType, PipePart, ShapePart, CountBody, PagePart, DeviceDoes, ~ OutH,
           \/ bot.pc \in {"wait", "recover_out"} /\ bot.kind = "write"
           \/ ~ NoData(OutR) /\ ((Active /\ bot.op = "write") \/ bot.pc = "failed")
    PROVE  xhc'.bounce = xhc.bounce
<1>0. OutR \in Seq(Trb) /\ InR \in Seq(Trb) BY UsbFields
<1>1. CASE bot.pc \in {"wait", "recover_out"} /\ bot.kind = "write"
  <2>1. InH \/ AllCsw(InR) BY <1>1 DEF PagePart, Stopped
  <2>2. CASE InH BY <2>2, BounceSame
  <2>3. CASE AllCsw(InR) /\ InR # << >>
    <3>1. 1 \in 1 .. Len(InR) BY <2>3, <1>0
    <3>2. InR[1] = "csw" BY <3>1, <2>3 DEF AllCsw
    <3>. QED BY <3>2, BounceSame
  <2>4. CASE InR = << >>
    BY <2>4 DEF DeviceDoes, CbwTaken, DataTaken, CbwForData, StopOut, StopIn, SamePage, DataSent, DataTooLong,
                CswSent, RanIn, HaltIn
  <2>. QED BY <2>1, <2>2, <2>3, <2>4
<1>2. CASE /\ ~ NoData(OutR) /\ ((Active /\ bot.op = "write") \/ bot.pc = "failed")
           /\ ~ (bot.pc \in {"wait", "recover_out"} /\ bot.kind = "write")
  <2>1. NoData(<< >>) BY <1>0, QueuedShape
  <2>2. OutR # << >> BY <2>1, <1>2
  <2>3. bot.pc # "recover_in" BY <2>2 DEF PipePart
  <2>4. Resting \/ (bot.pc = "wait" /\ bot.kind = "sense")
    BY <1>2, <2>3 DEF Resting, Active, UsbType, BotType, Recovering
  <2>5. InH BY <2>4, <1>2 DEF ShapePart, RestShape, Stopped
  <2>. QED BY <2>5, BounceSame
<1>. QED BY <1>1, <1>2

\* The sectors of the call depend on the request.
LEMMA SameChunk ==
    ASSUME rq' = rq, perLba' = perLba
    PROVE  Chunk' = Chunk /\ Target' = Target
BY DEF Chunk, Cached, Block, Target, Lba, First, Min

\* The disk exposes no other block than it did.
LEMMA ExposedKept ==
    ASSUME UsbType, DeviceDoes, NEW l \in Nat, Exposed(l)', OutR' # << >>, ~ NoData(OutR'), ~ OutH'
    PROVE  Exposed(l)
<1>1. ~ OutH /\ ~ NoData(OutR) /\ xhc'.cbw = xhc.cbw BY DeviceRings
<1>2. CASE ~ NoData(OutR') /\ xhc'.cbw.kind = "write" /\ l = xhc'.cbw.lba
  BY <1>1, <1>2 DEF Exposed
<1>3. CASE OutR' # << >> /\ OutR'[1] = "data" /\ dev'.phase = "out" /\ l = dev'.lba
  <2>1. CASE CbwTaken BY <2>1, <1>1, <1>3 DEF CbwTaken, Exposed
  <2>2. CASE StopIn BY <2>2, <1>1, <1>3 DEF StopIn, HaltIn, Exposed
  <2>3. CASE StopOut BY <2>3 DEF StopOut, HaltOut
  <2>4. CASE DataTaken \/ CbwForData \/ DataSent \/ DataTooLong \/ CswSent
    BY <2>4, <1>3 DEF DataTaken, CbwForData, DataSent, DataTooLong, CswSent, NoCommand
  <2>. QED BY <2>1, <2>2, <2>3, <2>4 DEF DeviceDoes
<1>. QED BY <1>2, <1>3 DEF Exposed

\* What the disk stores breaks nothing the guest relies on.
LEMMA StoreDevice ==
    ASSUME UsbType, UsbType', PipePart, ShapePart, LinkPart, CountBody, StoreBody, DeviceDoes,
           bot' = bot, SameRequest, perLba' = perLba
    PROVE  StoreBody'
<1>0. OutR \in Seq(Trb) /\ InR \in Seq(Trb) BY UsbFields
<1>1. /\ rq' = rq /\ want' = want /\ Chunk' = Chunk /\ Target' = Target /\ Active' = Active
  BY SameChunk DEF SameRequest, Active
<1>2. PagePart'
  <2>1. SUFFICES ASSUME bot.pc \in {"wait", "recover_out"}, bot.kind = "write"
                 PROVE  (Stopped' \/ AllCsw(InR')) /\ (OutH' \/ xhc'.bounce = bot.data)
    BY DEF PagePart
  <2>2. (Stopped \/ AllCsw(InR)) /\ (OutH \/ xhc.bounce = bot.data) BY <2>1 DEF StoreBody, PagePart
  <2>3. OutH' \/ xhc'.bounce = bot.data
    <3>1. CASE OutH BY <3>1, DeviceRings
    <3>2. CASE ~ OutH BY <3>2, <2>1, <2>2, PageKept DEF StoreBody
    <3>. QED BY <3>1, <3>2
  <2>4. AllCsw(InR) => AllCsw(InR')
    <3>1. InR' = InR \/ (InR # << >> /\ InR' = Tail(InR))
      BY DEF DeviceDoes, CbwTaken, DataTaken, CbwForData, StopOut, StopIn, DataSent, DataTooLong, CswSent,
             RanIn, RanOut, HaltOut, HaltIn
    <3>2. ASSUME InR # << >>, AllCsw(InR) PROVE AllCsw(Tail(InR))
      <4>. DEFINE q == Tail(InR)
      <4>1. \A i \in 1 .. Len(q) : q[i] = InR[i + 1] /\ i + 1 \in 1 .. Len(InR) BY <3>2, <1>0
      <4>. QED BY <4>1, <3>2 DEF AllCsw
    <3>. QED BY <3>1, <3>2
  <2>. QED BY <2>2, <2>3, <2>4, DeviceRings
<1>3. SafePart'
  <2>1. SUFFICES ASSUME NEW l \in Nat, Exposed(l)'
                 PROVE  Lost(l)' \/ Ours(l)' \/ Fresh(l)'
    BY DEF SafePart
  <2>2. ~ NoData(OutR') /\ OutR' # << >> /\ ~ OutH'
    <3>1. OutR' \in Seq(Trb) BY DEF UsbType, XhcType, OutR, Eps
    <3>2. ~ OutH' BY <2>1 DEF Exposed
    <3>3. ASSUME OutR' # << >>, OutR'[1] = "data" PROVE ~ NoData(OutR')
      <4>1. 1 \in 1 .. Len(OutR') BY <3>1, <3>3
      <4>. QED BY <4>1, <3>3 DEF NoData
    <3>4. NoData(<< >>) BY <1>0, QueuedShape
    <3>5. ~ NoData(OutR') BY <2>1, <3>3 DEF Exposed
    <3>. QED BY <3>2, <3>4, <3>5
  <2>3. Exposed(l) BY <2>1, <2>2, ExposedKept
  <2>4. ~ NoData(OutR) /\ ~ OutH BY <2>3, DataOnRing
  <2>5. Lost(l) \/ Ours(l) \/ Fresh(l) BY <2>3 DEF StoreBody, SafePart
  <2>6. CASE Lost(l) BY <2>6, <1>1 DEF Lost, Lba
  <2>7. CASE Ours(l)
    <3>1. xhc'.bounce = xhc.bounce BY <2>4, <2>7, PageKept DEF StoreBody, Ours
    <3>. QED BY <3>1, <2>7, <1>1 DEF Ours
  <2>8. CASE Fresh(l)
    <3>1. xhc'.bounce = xhc.bounce BY <2>4, <2>8, PageKept DEF StoreBody, Fresh
    <3>. QED BY <3>1, <2>8, <1>1 DEF Fresh, Lba, Pos
  <2>. QED BY <2>5, <2>6, <2>7, <2>8
<1>4. ASSUME disk' # disk
      PROVE  /\ DataTaken /\ Exposed(dev.lba) /\ dev.lba \in Nat
             /\ \A s \in Sectors : disk'[s] = IF Lba(s) = dev.lba THEN xhc.bounce[Pos(s)] ELSE disk[s]
  <2>1. DataTaken /\ disk' = Stored
    BY <1>4 DEF DeviceDoes, CbwTaken, DataTaken, CbwForData, StopOut, StopIn, DataSent, DataTooLong, CswSent
  <2>2. Exposed(dev.lba) BY <2>1 DEF DataTaken, RanOut, Exposed
  <2>3. dev.lba \in Nat BY DEF UsbType, DevType
  <2>. QED BY <2>1, <2>2, <2>3 DEF Stored
<1>5. WrittenPart'
  <2>1. SUFFICES ASSUME bot.pc = "wait", bot.kind = "write", Done' \/ Passed' PROVE BlockIs'
    BY DEF WrittenPart
  <2>2. CASE (Done' /\ ~ Done) \/ (Passed' /\ ~ Passed)
    <3>1. (DataTaken /\ dev.mine = TRUE) \/ (CswSent /\ Done)
      BY <2>1, <2>2, NewlyDone DEF ShapePart, NewOutcome
    <3>2. CASE CswSent /\ Done
      <4>1. BlockIs BY <3>2, <2>1 DEF StoreBody, WrittenPart
      <4>2. disk' = disk BY <3>2 DEF CswSent
      <4>. QED BY <4>1, <4>2 DEF BlockIs, Lba, Pos
    <3>3. CASE DataTaken /\ dev.mine = TRUE
      <4>1. ~ OutH /\ ~ Done BY <3>3 DEF DataTaken, RanOut, Done
      <4>2. dev.lba = bot.lba /\ xhc.bounce = bot.data
        BY <4>1, <3>3, <2>1 DEF ShapePart, CommandPart, StoreBody, PagePart
      <4>3. CASE disk' = Stored
        <5>1. \A s \in Sectors : Lba(s) = bot.lba => disk'[s] = bot.data[Pos(s)]
          BY <4>2, <4>3 DEF Stored
        <5>. QED BY <5>1 DEF BlockIs, Lba, Pos
      <4>4. CASE dev'.ok = FALSE
        <5>1. Passed' /\ ~ Done' BY <4>4, <2>1 DEF Done
        <5>2. Passed BY <5>1, <3>3 DEF DataTaken, SamePage, Passed
        <5>. QED BY <5>1, <5>2, <2>2
      <4>. QED BY <4>3, <4>4, <3>3 DEF DataTaken
    <3>. QED BY <3>1, <3>2, <3>3
  <2>3. CASE Done \/ Passed
    <3>1. BlockIs BY <2>1, <2>3 DEF StoreBody, WrittenPart
    <3>2. disk' = disk
      <4>1. SUFFICES ASSUME disk' # disk PROVE FALSE OBVIOUS
      <4>2. DataTaken BY <4>1, <1>4
      <4>3. ~ Done BY <4>2 DEF DataTaken, Done
      <4>4. NoData(OutR) BY <4>3, <2>1, <2>3 DEF ShapePart, WriteDone
      <4>. QED BY <4>1, <4>4, DiskSame
    <3>. QED BY <3>1, <3>2 DEF BlockIs, Lba, Pos
  <2>. QED BY <2>1, <2>2, <2>3
<1>6. ASSUME disk' # disk
      PROVE  Lost(dev.lba) \/ Ours(dev.lba) \/ Fresh(dev.lba)
  <2>1. Exposed(dev.lba) /\ dev.lba \in Nat BY <1>4, <1>6
  <2>. QED BY <2>1 DEF StoreBody, SafePart
<1>7. RequestPart'
  <2>1. SUFFICES ASSUME rq.op = "write", NEW s \in rq.secs \ rq.todo, disk' # disk PROVE disk'[s] = rq.val
    BY <1>1 DEF RequestPart, StoreBody, Lba
  <2>2. disk[s] = rq.val /\ \A t \in rq.todo : Lba(s) # Lba(t) BY <2>1 DEF StoreBody, RequestPart
  <2>3. s \in Sectors BY <2>1 DEF LinkPart, RqType
  <2>4. Lba(s) # dev.lba
    <3>1. CASE Lost(dev.lba) BY <3>1, <2>1 DEF Lost
    <3>2. CASE Ours(dev.lba) \/ Fresh(dev.lba)
      <4>1. dev.lba = Target /\ rq.todo # {}
        BY <3>2 DEF Ours, Fresh, Active, LinkPart, CallPart
      <4>2. First \in rq.todo BY <4>1, FirstIs DEF LinkPart
      <4>. QED BY <4>1, <4>2, <2>2 DEF Target
    <3>. QED BY <3>1, <3>2, <2>1, <1>6
  <2>. QED BY <2>1, <2>2, <2>3, <2>4, <1>4
<1>8. DataPart' BY <1>1 DEF StoreBody, DataPart, Lba, Pos
<1>9. StoredPart'
  <2>1. Empty => ~ DeviceDoes
    BY DEF Empty, DeviceDoes, CbwTaken, DataTaken, CbwForData, StopOut, StopIn, DataSent, DataTooLong, CswSent,
           RanIn, RanOut, HaltOut, HaltIn
  <2>2. bot.pc # "ok" BY <2>1 DEF CountBody
  <2>. QED BY <2>2 DEF StoredPart
<1>10. WantPart'
  <2>1. SUFFICES ASSUME NEW s \in Sectors, want[s] # Unknown, disk' # disk PROVE disk'[s] = want[s]
    BY <1>1 DEF WantPart, StoreBody
  <2>2. disk[s] = want[s] BY <2>1 DEF StoreBody, WantPart
  <2>3. CASE Lba(s) # dev.lba BY <2>1, <2>2, <2>3, <1>4
  <2>4. CASE Lba(s) = dev.lba
    <3>1. disk'[s] = xhc.bounce[Pos(s)] BY <2>1, <2>4, <1>4
    <3>2. xhc.bounce[Pos(s)] = want[s]
      <4>1. CASE Lost(dev.lba) BY <4>1, <2>1, <2>4 DEF Lost
      <4>2. CASE Ours(dev.lba) BY <4>2, <2>1, <2>4 DEF Ours, StoreBody, DataPart
      <4>3. CASE Fresh(dev.lba) BY <4>3, <2>1, <2>4 DEF Fresh
      <4>. QED BY <4>1, <4>2, <4>3, <2>1, <1>6
    <3>. QED BY <3>1, <3>2
  <2>. QED BY <2>3, <2>4
<1>. QED BY <1>2, <1>3, <1>5, <1>7, <1>8, <1>9, <1>10 DEF StoreBody

\* Nothing is stored in a step that moves no data, and what the block must hold stays the
\* same: only the page and the call are to be looked at.
LEMMA StoreSame ==
    ASSUME UsbType, LinkPart, StoreBody, disk' = disk, SameRequest, perLba' = perLba,
           PagePart', SafePart', WrittenPart', StoredPart',
           Active' /\ bot'.op = "write" =>
               Active /\ bot.op = "write" /\ bot'.lba = bot.lba /\ bot'.data = bot.data
    PROVE  StoreBody'
<1>1. rq' = rq /\ want' = want /\ Chunk' = Chunk BY SameChunk DEF SameRequest
<1>2. RequestPart' BY <1>1 DEF StoreBody, RequestPart, Lba
<1>3. DataPart' BY <1>1 DEF StoreBody, DataPart, Lba, Pos
<1>4. WantPart' BY <1>1 DEF StoreBody, WantPart
<1>. QED BY <1>2, <1>3, <1>4 DEF StoreBody

\* A block that was safe stays so when the call is tried again, recovered or given up.
LEMMA SafeDriver ==
    ASSUME UsbType, LinkPart, StoreBody, SameRings, SamePage, SameDisk, SameRequest, perLba' = perLba,
           bot.pc = "wait", (SameCall /\ Active') \/ GaveUp
    PROVE  SafePart'
<1>1. rq' = rq /\ want' = want /\ Target' = Target BY SameChunk DEF SameRequest
<1>2. Active /\ bot.op \in {"read", "write"} BY DEF UsbType, BotType, Active
<1>3. SUFFICES ASSUME NEW l \in Nat, Exposed(l)'
               PROVE  Lost(l)' \/ Ours(l)' \/ Fresh(l)'
  BY DEF SafePart
<1>4. Exposed(l) BY <1>3 DEF Exposed, SameRings, SameDisk
<1>5. CASE Lost(l) BY <1>5, <1>1 DEF Lost, Lba
<1>6. CASE Ours(l) /\ SameCall /\ Active' BY <1>6 DEF Ours, SameCall, SamePage
<1>7. CASE Ours(l) /\ GaveUp
  <2>1. bot.op = "write" /\ l = bot.lba /\ xhc.bounce = bot.data BY <1>7 DEF Ours
  <2>2. rq.op = "write" /\ l = Target BY <2>1 DEF LinkPart, CallPart
  <2>3. \A s \in Sectors : Lba(s) = l /\ want[s] # Unknown => xhc.bounce[Pos(s)] = want[s]
    BY <2>1, <1>2 DEF StoreBody, DataPart
  <2>. QED BY <2>2, <2>3, <1>1, <1>7 DEF GaveUp, Fresh, SamePage, Lba, Pos
<1>8. ~ Fresh(l) BY DEF Fresh
<1>. QED BY <1>4, <1>5, <1>6, <1>7, <1>8 DEF StoreBody, SafePart

\* No block is exposed by an empty OUT ring.
LEMMA SafeEmpty == ASSUME OutR' = << >> PROVE SafePart'
<1>1. NoData(<< >>) BY DEF NoData
<1>. QED BY <1>1 DEF SafePart, Exposed

\* The driver keeps what is stored.
LEMMA StoreDriver ==
    ASSUME UsbType, UsbType', PipePart, ShapePart, LinkPart, CountBody, StoreBody, DriverDoes,
           senseLost' = FALSE, senseLost \in BOOLEAN, SameRequest, perLba' = perLba
    PROVE  StoreBody'
<1>0. OutR \in Seq(Trb) /\ InR \in Seq(Trb) BY UsbFields
<1>1. rq' = rq /\ want' = want /\ Chunk' = Chunk /\ Target' = Target BY SameChunk DEF SameRequest
<1>2. CASE Queued
  <2>1. /\ bot.pc = "queue" /\ bot'.pc = "wait" /\ bot'.kind = bot.kind /\ SameCall
        /\ OutR' = OutR \o Trbs(bot.kind).out /\ InR' = InR \o Trbs(bot.kind).in
        /\ OutH' = OutH /\ InH' = InH
        /\ xhc'.cbw.kind = bot.kind /\ xhc'.cbw.lba = bot.lba
        /\ (bot.kind = "write" => xhc'.bounce = bot.data)
        /\ xhc'.csw.mine = FALSE /\ dev'.mine = FALSE /\ dev'.phase = dev.phase /\ dev'.lba = dev.lba
        /\ disk' = disk
    BY <1>2 DEF Queued
  <2>2. bot.kind \in {"read", "write", "sense"} /\ Active /\ Active' /\ bot.kind \in {bot.op, "sense"}
    BY <2>1 DEF UsbType, BotType, Active
  <2>3. ~ Done' /\ ~ Passed' BY <2>1 DEF Done, Passed
  <2>4. Empty \/ Stopped BY <2>1 DEF CountBody, Resting
  <2>5. PagePart'
    <3>1. SUFFICES ASSUME bot.kind = "write" PROVE Stopped' \/ AllCsw(InR')
      BY <2>1 DEF PagePart, SameCall
    <3>2. CASE Stopped BY <3>2, <2>1 DEF Stopped
    <3>3. CASE Empty
      <4>1. InR' = << >> \o <<"csw">> BY <2>1, <3>1, <3>3, TrbsIs DEF Empty
      <4>2. << >> \o <<"csw">> = <<"csw">> OBVIOUS
      <4>3. AllCsw(<<"csw">>) BY DEF AllCsw
      <4>. QED BY <4>1, <4>2, <4>3
    <3>. QED BY <3>2, <3>3, <2>4
  <2>6. SafePart'
    <3>1. SUFFICES ASSUME NEW l \in Nat, Exposed(l)'
                   PROVE  Lost(l)' \/ Ours(l)' \/ Fresh(l)'
      BY DEF SafePart
    <3>2. CASE xhc'.cbw.kind = "write" /\ l = xhc'.cbw.lba
      <4>1. bot.kind = "write" /\ bot.op = "write" BY <3>2, <2>1, <2>2
      <4>. QED BY <4>1, <3>2, <2>1, <2>2 DEF Ours, SameCall
    <3>3. CASE OutR' # << >> /\ OutR'[1] = "data" /\ dev'.phase = "out" /\ l = dev'.lba
      <4>1. OutR # << >> /\ OutR[1] = "data"
        <5>1. Trbs(bot.kind).out \in {<<"cbw">>, <<"cbw", "data">>} BY <2>2, TrbsIs
        <5>2. Trbs(bot.kind).out \in Seq(Trb) BY <2>2, TrbsType
        <5>3. CASE OutR = << >>
          <6>1. OutR' = Trbs(bot.kind).out BY <5>2, <5>3, <2>1
          <6>2. OutR'[1] = "cbw" BY <6>1, <5>1
          <6>. QED BY <6>2, <3>3
        <5>4. CASE OutR # << >>
          <6>1. 1 \in 1 .. Len(OutR) BY <5>4, <1>0
          <6>2. OutR'[1] = OutR[1] BY <6>1, <5>2, <2>1, <1>0
          <6>. QED BY <6>2, <5>4, <3>3
        <5>. QED BY <5>3, <5>4
      <4>2. Exposed(l) BY <4>1, <3>1, <3>3, <2>1 DEF Exposed
      <4>3. Lost(l) \/ Ours(l) BY <4>2, <2>1 DEF StoreBody, SafePart, Fresh
      <4>4. CASE Lost(l) BY <4>4, <1>1 DEF Lost, Lba
      <4>5. CASE Ours(l)
        <5>1. bot.kind # "sense" BY <4>1, <2>1 DEF PipePart, Empty
        <5>2. bot.kind = "write" BY <5>1, <4>5, <2>2 DEF Ours
        <5>. QED BY <5>2, <4>5, <2>1, <2>2 DEF Ours, SameCall
      <4>. QED BY <4>3, <4>4, <4>5
    <3>. QED BY <3>1, <3>2, <3>3 DEF Exposed
  <2>7. WrittenPart' /\ StoredPart' BY <2>1, <2>3 DEF WrittenPart, StoredPart
  <2>. QED BY <2>1, <2>2, <2>5, <2>6, <2>7, StoreSame DEF SameCall
<1>3. CASE PollOk
  <2>1. /\ bot.pc = "wait" /\ bot'.pc = "wait" /\ bot'.kind = bot.kind /\ SameCall
        /\ SameRings /\ SamePage /\ SameDisk
    BY <1>3 DEF PollOk
  <2>2. Done' = Done /\ Passed' = Passed /\ Active' /\ Active
    BY <2>1 DEF Done, Passed, SameDisk, SamePage, Active
  <2>3. PagePart' BY <2>1 DEF StoreBody, PagePart, SameCall, SameRings, SamePage, Stopped
  <2>4. SafePart' BY <2>1, <2>2, SafeDriver
  <2>5. WrittenPart' BY <2>1, <2>2 DEF StoreBody, WrittenPart, BlockIs, SameCall, SameDisk, Lba, Pos
  <2>6. StoredPart' BY <2>1 DEF StoredPart
  <2>. QED BY <2>1, <2>2, <2>3, <2>4, <2>5, <2>6, StoreSame DEF SameCall, SameDisk
<1>4. ASSUME bot.pc = "wait", SameRings, SamePage, SameDisk, Again \/ GaveUp
      PROVE  StoreBody'
  <2>1. bot'.pc \in {"queue", "failed"} /\ ((SameCall /\ Active') \/ GaveUp)
    BY <1>4 DEF Again, GaveUp, Active
  <2>2. PagePart' /\ WrittenPart' /\ StoredPart' BY <2>1 DEF PagePart, WrittenPart, StoredPart
  <2>3. SafePart' BY <1>4, <2>1, SafeDriver
  <2>4. Active BY <1>4 DEF Active
  <2>. QED BY <2>1, <2>2, <2>3, <2>4, <1>4, StoreSame DEF SameCall, SameDisk, GaveUp, Active
<1>5. ASSUME bot.pc = "wait", SameRings, SamePage, SameDisk, ToRecover
      PROVE  StoreBody'
  <2>1. bot'.pc = "recover_out" /\ bot'.kind = bot.kind /\ SameCall /\ Active' /\ Active
    BY <1>5 DEF ToRecover, Active
  <2>2. PagePart' BY <2>1, <1>5 DEF StoreBody, PagePart, SameRings, SamePage, SameCall, Stopped
  <2>3. WrittenPart' /\ StoredPart' BY <2>1 DEF WrittenPart, StoredPart
  <2>4. SafePart' BY <1>5, <2>1, SafeDriver
  <2>. QED BY <2>1, <2>2, <2>3, <2>4, <1>5, StoreSame DEF SameCall, SameDisk
<1>6. CASE PollError
  <2>1. bot.pc = "wait" /\ SameRings /\ SamePage /\ SameDisk /\ (Again \/ GaveUp) BY <1>6 DEF PollError
  <2>. QED BY <2>1, <1>4
<1>7. CASE TimedOut
  <2>1. bot.pc = "wait" /\ xhc' = xhc /\ SameDisk /\ ToRecover BY <1>7 DEF TimedOut
  <2>. QED BY <2>1, <1>5, SameXhc
<1>8. CASE Finished
  <2>1. bot.pc = "wait" /\ Enough /\ xhc' = xhc /\ SameDisk BY <1>8 DEF Finished
  <2>2. CASE Again \/ GaveUp BY <2>1, <2>2, <1>4, SameXhc
  <2>3. CASE ToRecover BY <2>1, <2>3, <1>5, SameXhc
  <2>4. CASE /\ bot.kind # "sense" /\ xhc.csw.mine = TRUE /\ xhc.csw.ok = TRUE
             /\ bot'.pc = "ok" /\ bot'.op = bot.op /\ bot'.lba = bot.lba
    <3>1. Empty BY <2>1, EnoughIsEmpty DEF CountBody
    <3>2. SafePart' BY <3>1, <2>1, SafeEmpty, SameXhc DEF Empty, SameRings
    <3>3. PagePart' /\ WrittenPart' /\ ~ Active' BY <2>4 DEF PagePart, WrittenPart, Active
    <3>4. StoredPart'
      <4>1. SUFFICES ASSUME bot.op = "write" PROVE \A s \in Chunk : disk[s] = rq.val
        BY <2>1, <2>4, <1>1 DEF StoredPart, SameDisk
      <4>2. bot.kind = "write" /\ Passed /\ Active
        BY <4>1, <2>1, <2>4 DEF UsbType, BotType, Active, Passed
      <4>3. BlockIs BY <4>2, <2>1 DEF StoreBody, WrittenPart
      <4>4. rq.todo # {} /\ bot.lba = Target BY <2>1 DEF LinkPart, CallPart
      <4>5. \A s \in Chunk : s \in Sectors /\ Lba(s) = bot.lba BY <4>4, ChunkIs DEF LinkPart
      <4>6. \A s \in Chunk : bot.data[Pos(s)] = rq.val BY <4>1, <4>2, <4>5 DEF StoreBody, DataPart
      <4>. QED BY <4>3, <4>5, <4>6 DEF BlockIs
    <3>. QED BY <3>2, <3>3, <3>4, <2>1, StoreSame DEF SameDisk
  <2>. QED BY <2>2, <2>3, <2>4, <1>8 DEF Finished
<1>9. CASE OutRecovered
  <2>1. /\ bot.pc = "recover_out" /\ bot'.pc = "recover_in" /\ SameCall /\ OutR' = << >> /\ disk' = disk
    BY <1>9 DEF OutRecovered, SameDisk
  <2>2. PagePart' /\ WrittenPart' /\ StoredPart' /\ Active BY <2>1 DEF PagePart, WrittenPart, StoredPart, Active
  <2>3. SafePart' BY <2>1, SafeEmpty
  <2>. QED BY <2>1, <2>2, <2>3, StoreSame DEF SameCall
<1>10. CASE InRecovered
  <2>1. /\ bot.pc = "recover_in" /\ (Again \/ SenseNext \/ GaveUp) /\ OutR' = OutR /\ disk' = disk
    BY <1>10 DEF InRecovered, SameDisk
  <2>2. /\ bot'.pc \in {"queue", "failed"} /\ Active
        /\ Active' => SameCall
    BY <2>1 DEF Again, SenseNext, GaveUp, Active
  <2>3. PagePart' /\ WrittenPart' /\ StoredPart' BY <2>2 DEF PagePart, WrittenPart, StoredPart
  <2>4. OutR' = << >> BY <2>1 DEF PipePart
  <2>5. SafePart' BY <2>4, SafeEmpty
  <2>. QED BY <2>1, <2>2, <2>3, <2>5, StoreSame DEF SameCall
<1>. QED BY <1>2, <1>3, <1>6, <1>7, <1>8, <1>9, <1>10 DEF DriverDoes

\* The layer above keeps what is stored, and only relies on what it was told is.
LEMMA StoreLun ==
    ASSUME UsbType, UsbType', RqType', LinkPart, TruthPart, CountBody, StoreBody, LunDoes, LunFrame
    PROVE  StoreBody'
<1>1. /\ perLba' = perLba /\ disk' = disk /\ dev' = dev /\ xhc' = xhc /\ OutR' = OutR /\ OutH' = OutH
  BY DEF LunFrame, OutR, OutH
<1>2. \A s : Lba(s)' = Lba(s) /\ Pos(s)' = Pos(s) BY <1>1 DEF Lba, Pos
<1>3. \A l \in Nat : Exposed(l)' => Exposed(l) BY <1>1 DEF Exposed
<1>4. bot'.pc \in {"idle", "queue"}
  BY DEF LunDoes, Submitted, PinServed, CacheServed, CallPlaced, BlockTaken, WrittenBack, BlockStored,
         GivenUp, Answered
<1>5. PagePart' /\ WrittenPart' /\ StoredPart' BY <1>4 DEF PagePart, WrittenPart, StoredPart
<1>6. bot.pc = "idle" => \A l \in Nat : Exposed(l) => Lost(l)
  BY DEF StoreBody, SafePart, Ours, Fresh, Active
<1>7. bot.pc = "ok" => SafePart'
  <2>1. bot.pc = "ok" => OutR' = << >> BY <1>1 DEF CountBody, Empty
  <2>. QED BY <2>1, SafeEmpty
<1>8. bot'.pc = "idle" => DataPart' BY DEF DataPart, Active
<1>9. CASE Submitted
  <2>1. /\ rq = NoRequest /\ bot.pc = "idle" /\ bot' = bot /\ rq'.todo = rq'.secs
        /\ \A s \in Sectors : want'[s] = IF rq'.op = "write" /\ s \in rq'.secs THEN Unknown ELSE want[s]
    BY <1>9 DEF Submitted
  <2>2. ASSUME NEW l \in Nat, Lost(l) PROVE Lost(l)' BY <2>1, <2>2, <1>2 DEF Lost
  <2>3. SafePart' BY <2>1, <2>2, <1>3, <1>6 DEF SafePart
  <2>4. rq'.op = "write" => rq'.secs \subseteq Sectors
    BY DEF RqType
  <2>5. RequestPart' BY <2>1, <2>4, <1>9 DEF RequestPart
  <2>6. WantPart' BY <2>1, <1>1 DEF StoreBody, WantPart
  <2>. QED BY <2>1, <2>3, <2>5, <2>6, <1>5, <1>8 DEF StoreBody
<1>10. CASE PinServed \/ CacheServed
  <2>1. bot.pc = "idle" /\ bot' = bot /\ rq.op = "read" /\ rq'.op = rq.op /\ want' = want
    BY <1>10 DEF PinServed, CacheServed, Left
  <2>2. ASSUME NEW l \in Nat, Lost(l) PROVE Lost(l)' BY <2>1, <2>2, <1>2 DEF Lost
  <2>3. SafePart' BY <2>1, <2>2, <1>3, <1>6 DEF SafePart
  <2>4. RequestPart' BY <2>1 DEF RequestPart
  <2>5. WantPart' BY <2>1, <1>1 DEF StoreBody, WantPart
  <2>. QED BY <2>1, <2>3, <2>4, <2>5, <1>5, <1>8 DEF StoreBody
<1>11. CASE CallPlaced
  <2>1. /\ bot.pc = "idle" /\ rq.todo # {} /\ bot'.pc = "queue" /\ bot'.lba = Target /\ rq' = rq /\ want' = want
        /\ bot'.op = "read" \/ (rq.op = "write" /\ ~ Partial /\ bot'.data = Fill(rq.val))
    BY <1>11 DEF CallPlaced, SameRequest
  <2>2. ASSUME NEW l \in Nat, Lost(l) PROVE Lost(l)' BY <2>1, <2>2, <1>2 DEF Lost
  <2>3. SafePart' BY <2>1, <2>2, <1>3, <1>6 DEF SafePart
  <2>4. RequestPart' BY <2>1, <1>1, <1>2 DEF StoreBody, RequestPart
  <2>5. WantPart' BY <2>1, <1>1 DEF StoreBody, WantPart
  <2>6. DataPart'
    <3>1. SUFFICES ASSUME bot'.op = "write", NEW s \in Sectors, Lba(s) = Target
                   PROVE  want[s] = Unknown /\ bot'.data[Pos(s)] = rq.val
      BY <2>1, <1>2 DEF DataPart
    <3>2. rq.op = "write" /\ ~ Partial /\ bot'.data = Fill(rq.val) BY <2>1, <3>1
    <3>3. s \in Chunk BY <3>1, <3>2 DEF Partial, Block
    <3>4. s \in rq.secs BY <3>3, <2>1, ChunkIs DEF LinkPart, RqType
    <3>5. want[s] = Unknown BY <3>2, <3>4 DEF StoreBody, RequestPart
    <3>6. Pos(s) \in 1 .. perLba BY LbaIs
    <3>. QED BY <3>2, <3>5, <3>6 DEF Fill
  <2>. QED BY <2>3, <2>4, <2>5, <2>6, <1>5 DEF StoreBody
<1>12. CASE BlockTaken
  <2>1. bot.pc = "ok" /\ bot'.pc = "idle" /\ rq.op = "read" /\ rq'.op = rq.op /\ want' = want
    BY <1>12 DEF BlockTaken, Left
  <2>2. RequestPart' BY <2>1 DEF RequestPart
  <2>3. WantPart' BY <2>1, <1>1 DEF StoreBody, WantPart
  <2>. QED BY <2>1, <2>2, <2>3, <1>5, <1>7, <1>8 DEF StoreBody
<1>13. CASE WrittenBack
  <2>1. /\ bot.pc = "ok" /\ bot.op = "read" /\ rq.op = "write" /\ rq' = rq /\ want' = want
        /\ bot'.lba = Target /\ bot'.data = Patched
    BY <1>13 DEF WrittenBack, SameRequest
  <2>2. RequestPart' BY <2>1, <1>1, <1>2 DEF StoreBody, RequestPart
  <2>3. WantPart' BY <2>1, <1>1 DEF StoreBody, WantPart
  <2>4. rq.todo # {} /\ bot.lba = Target BY <2>1 DEF LinkPart, CallPart
  <2>5. Chunk' = Chunk BY <2>1, <1>1, SameChunk
  <2>6. DataPart'
    <3>1. SUFFICES ASSUME NEW s \in Sectors, Lba(s) = Target
                   PROVE  /\ want[s] # Unknown => bot'.data[Pos(s)] = want[s]
                          /\ s \in Chunk => bot'.data[Pos(s)] = rq.val
      BY <2>1, <2>5, <1>2 DEF DataPart
    <3>2. Pos(s) \in 1 .. perLba /\ Target * perLba + Pos(s) - 1 = s BY <3>1, LbaIs
    <3>3. bot'.data[Pos(s)] = IF s \in Chunk THEN rq.val ELSE bot.data[Pos(s)]
      BY <3>2, <2>1 DEF Patched
    <3>4. s \in Chunk => want[s] = Unknown
      <4>1. s \in Chunk => s \in rq.secs BY <2>4, ChunkIs DEF LinkPart, RqType
      <4>. QED BY <4>1, <2>1 DEF StoreBody, RequestPart
    <3>5. bot.data[Pos(s)] = disk[s]
      <4>1. bot.data = OnDisk(Lba(s)) BY <2>1, <2>4, <3>1 DEF TruthPart
      <4>. QED BY <4>1, OnDiskIs
    <3>6. want[s] # Unknown => disk[s] = want[s] BY DEF StoreBody, WantPart
    <3>. QED BY <3>3, <3>4, <3>5, <3>6
  <2>. QED BY <2>1, <2>2, <2>3, <2>6, <1>5, <1>7 DEF StoreBody
<1>14. CASE BlockStored
  <2>1. /\ bot.pc = "ok" /\ bot.op = "write" /\ bot'.pc = "idle" /\ rq'.op = rq.op /\ rq'.secs = rq.secs
        /\ rq'.val = rq.val /\ rq'.todo = rq.todo \ Chunk /\ want' = want
    BY <1>14 DEF BlockStored, Left
  <2>2. rq.op = "write" /\ rq.todo # {} BY <2>1 DEF LinkPart, CallPart
  <2>3. Chunk = {s \in rq.todo : Lba(s) = Target} BY <2>2, ChunkIs DEF LinkPart
  <2>4. ASSUME NEW s \in rq.secs \ (rq.todo \ Chunk)
        PROVE  disk[s] = rq.val /\ \A t \in rq.todo \ Chunk : Lba(s) # Lba(t)
    <3>1. CASE s \in Chunk
      <4>1. disk[s] = rq.val BY <3>1, <2>1 DEF StoreBody, StoredPart
      <4>. QED BY <4>1, <3>1, <2>3
    <3>2. CASE s \notin Chunk
      <4>1. s \in rq.secs \ rq.todo BY <3>2, <2>4
      <4>. QED BY <4>1, <2>2 DEF StoreBody, RequestPart
    <3>. QED BY <3>1, <3>2
  <2>5. RequestPart'
    <3>1. \A s \in rq.secs : want[s] = Unknown BY <2>2 DEF StoreBody, RequestPart
    <3>. QED BY <3>1, <2>1, <2>4, <1>1, <1>2 DEF RequestPart
  <2>6. WantPart' BY <2>1, <1>1 DEF StoreBody, WantPart
  <2>. QED BY <2>1, <2>5, <2>6, <1>5, <1>7, <1>8 DEF StoreBody
<1>15. CASE GivenUp
  <2>1. /\ bot.pc = "failed" /\ bot'.pc = "idle" /\ rq' = NoRequest
        /\ \A s \in Sectors : want'[s] = IF LeftData /\ rq.op = "write" /\ Lba(s) = Target
                                     THEN Unknown ELSE want[s]
    BY <1>15 DEF GivenUp
  <2>2. rq'.op = "none" BY <2>1 DEF NoRequest
  <2>3. SafePart'
    <3>1. SUFFICES ASSUME NEW l \in Nat, Exposed(l) PROVE Lost(l)' BY <1>3 DEF SafePart
    <3>2. LeftData BY <3>1, DataOnRing DEF LeftData, NoData, OutR
    <3>3. Lost(l) \/ Fresh(l) BY <3>1, <2>1 DEF StoreBody, SafePart, Ours, Active
    <3>4. CASE Lost(l) BY <3>4, <2>1, <2>2, <1>2 DEF Lost
    <3>5. CASE Fresh(l) BY <3>2, <3>5, <2>1, <2>2, <1>2 DEF Lost, Fresh
    <3>. QED BY <3>3, <3>4, <3>5
  <2>4. RequestPart' BY <2>2 DEF RequestPart
  <2>5. WantPart' BY <2>1, <1>1 DEF StoreBody, WantPart
  <2>. QED BY <2>1, <2>3, <2>4, <2>5, <1>5, <1>8 DEF StoreBody
<1>16. CASE Answered
  <2>1. /\ rq # NoRequest /\ rq.todo = {} /\ bot.pc = "idle" /\ bot' = bot /\ rq' = NoRequest
        /\ \A s \in Sectors : want'[s] = IF rq.op = "write" /\ s \in rq.secs THEN rq.val ELSE want[s]
    BY <1>16 DEF Answered
  <2>2. rq'.op = "none" BY <2>1 DEF NoRequest
  <2>3. rq.secs # {} BY <2>1 DEF LinkPart, RqType
  <2>4. SafePart'
    <3>1. SUFFICES ASSUME NEW l \in Nat, Exposed(l) PROVE Lost(l)' BY <1>3 DEF SafePart
    <3>2. Lost(l) /\ rq.op # "write" BY <3>1, <2>1, <2>3, <1>6 DEF Lost
    <3>. QED BY <3>2, <2>1, <2>2, <1>2 DEF Lost
  <2>5. RequestPart' BY <2>2 DEF RequestPart
  <2>6. WantPart'
    <3>1. rq.op = "write" => \A s \in rq.secs : disk[s] = rq.val BY <2>1 DEF StoreBody, RequestPart
    <3>. QED BY <3>1, <2>1, <1>1 DEF StoreBody, WantPart
  <2>. QED BY <2>1, <2>4, <2>5, <2>6, <1>5, <1>8 DEF StoreBody
<1>. QED BY <1>9, <1>10, <1>11, <1>12, <1>13, <1>14, <1>15, <1>16 DEF LunDoes

-----------------------------------------------------------------------------
(* Theorems about the guest's USB disk                                     *)

LunInv ==
    /\ UsbType /\ PipePart /\ CountPart /\ ShapePart
    /\ LinkPart /\ TruthPart /\ StorePart

\* The disk at power-on.
LEMMA LunInvInit == ASSUME LunInit PROVE LunInv
<1>1. /\ perLba \in PerLbas /\ disk = [s \in Sectors |-> 0] /\ dev = NoCommand /\ bot = NoCall
      /\ xhc = [ring |-> [ep \in Eps |-> << >>], halted |-> [ep \in Eps |-> FALSE],
                ev |-> << >>, cbw |-> [kind |-> "none", lba |-> 0],
                bounce |-> [i \in 1 .. perLba |-> 0], csw |-> NoCsw]
      /\ senseLost = FALSE /\ cache = NoCache /\ rq = NoRequest /\ reply = NoRequest
      /\ want = [s \in Sectors |-> 0] /\ pin \in {NoPin, [s \in PinSectors |-> 0]}
  BY DEF LunInit, UsbInit
<1>2. << >> \in Seq(Trb) /\ << >> \in Seq(Event) OBVIOUS
<1>3. OutR = << >> /\ InR = << >> /\ OutH = FALSE /\ InH = FALSE /\ xhc.ev = << >>
  BY <1>1 DEF OutR, InR, OutH, InH, Eps
<1>4. bot.pc = "idle" BY <1>1 DEF NoCall
<1>5. NoData(<< >>) BY DEF NoData
<1>6. UsbType
  <2>1. XhcType
    <3>1. /\ DOMAIN xhc = {"ring", "halted", "ev", "cbw", "bounce", "csw"}
          /\ xhc.ring = [ep \in Eps |-> << >>] /\ xhc.halted = [ep \in Eps |-> FALSE] /\ xhc.csw = NoCsw
          /\ xhc.cbw = [kind |-> "none", lba |-> 0]
      BY <1>1
    <3>2. xhc.ring \in [Eps -> Seq(Trb)] /\ xhc.halted \in [Eps -> BOOLEAN] BY <3>1, <1>2
    <3>3. xhc.csw \in [mine : BOOLEAN, ok : BOOLEAN] BY <3>1 DEF NoCsw
    <3>4. xhc.cbw \in [kind : Kinds, lba : Nat] BY <3>1 DEF Kinds
    <3>. QED BY <3>1, <3>2, <3>3, <3>4, <1>2, <1>3 DEF XhcType
  <2>2. DevType BY <1>1 DEF DevType, NoCommand, Kinds
  <2>3. BotType BY <1>1 DEF NoCall, BotType, Active, Recovering
  <2>. QED BY <2>1, <2>2, <2>3, <1>1, DiskAssumption DEF UsbType
<1>7. PipePart BY <1>3, <1>4 DEF PipePart, ErrorsHalt, Empty
<1>8. CountPart BY <1>3, <1>4 DEF CountPart, Empty
<1>9. ShapePart
  BY <1>3, <1>4, <1>5 DEF ShapePart, RestShape, WaitShape, RecoverShape, CommandPart, ReadDone, WriteDone
<1>10. LinkPart
  BY <1>1, <1>4 DEF LinkPart, RqType, CallPart, NoRequest, NoCache, RqFieldNames
<1>11. TruthPart
  <2>1. \A n \in DOMAIN cache : cache[n].tag = -1 BY <1>1 DEF NoCache, NoLine
  <2>2. rq.op = "none" /\ reply.op = "none" BY <1>1 DEF NoRequest
  <2>3. pin # NoPin => \A s \in PinSectors : pin[s] = disk[s] BY <1>1, CacheAssumption
  <2>. QED BY <2>1, <2>2, <2>3, <1>3, <1>4, <1>5 DEF TruthPart, TrueAbove, ReadIsTrue
<1>12. StorePart
  <2>1. rq.op = "none" BY <1>1 DEF NoRequest
  <2>2. PagePart /\ WrittenPart /\ RequestPart /\ DataPart /\ StoredPart
    BY <2>1, <1>4 DEF PagePart, WrittenPart, RequestPart, DataPart, StoredPart, Active
  <2>3. SafePart BY <1>3, <1>5 DEF SafePart, Exposed
  <2>4. WantPart BY <1>1 DEF WantPart
  <2>. QED BY <2>2, <2>3, <2>4 DEF StorePart, StoreBody
<1>. QED BY <1>6, <1>7, <1>8, <1>9, <1>10, <1>11, <1>12 DEF LunInv

\* Every step of the guest, the disk layer, the driver, the controller and the disk.
LEMMA LunInvStep == ASSUME LunInv, LunNext PROVE LunInv'
<1>0. UsbType /\ PipePart /\ CountPart /\ ShapePart /\ LinkPart /\ TruthPart /\ StorePart BY DEF LunInv
<1>1. senseLost \in BOOLEAN BY <1>0 DEF UsbType
<1>2. CASE Guest \/ Lun
  <2>1. LunDoes /\ RqType' /\ LunFrame /\ UsbType' /\ LunQuiet BY <1>0, <1>2, LunStepDoes
  <2>2. UsbDoes /\ perLba' = perLba /\ senseLost' = senseLost BY <2>1 DEF UsbDoes, LunFrame
  <2>3. PipePart' /\ CountPart' BY <1>0, <2>1, <2>2, PipeStep, CountStep
  <2>4. ShapePart' BY <1>0, <2>1, <2>2, ShapeDriver
  <2>5. LinkPart' BY <1>0, <2>1, <2>2, LinkStep
  <2>6. TruthPart' BY <1>0, <2>1, <2>5, TruthLun
  <2>7. StorePart'
    <3>1. SUFFICES ASSUME senseLost = FALSE PROVE StoreBody' BY <2>2 DEF StorePart
    <3>2. StoreBody /\ CountBody BY <1>0, <3>1 DEF StorePart, CountPart, CountBody
    <3>. QED BY <1>0, <2>1, <3>2, StoreLun
  <2>. QED BY <2>1, <2>3, <2>4, <2>5, <2>6, <2>7 DEF LunInv
<1>3. CASE Usb /\ DriverStep
  <2>0. SameRequest BY <1>3 DEF Usb, SameRequest
  <2>1. DriverDoes /\ UsbType' /\ perLba' = perLba BY <1>0, <1>3, DriverStepDoes
  <2>2. UsbDoes BY <2>1 DEF UsbDoes
  <2>3. PipePart' /\ CountPart' BY <1>0, <2>1, <2>2, PipeStep, CountStep
  <2>4. ShapePart' BY <1>0, <2>1, ShapeDriver
  <2>5. LinkPart' BY <1>0, <2>0, <2>1, LinkStep
  <2>6. TruthPart' BY <1>0, <2>0, <2>1, TruthUsb
  <2>7. StorePart'
    <3>1. SUFFICES ASSUME senseLost' = FALSE PROVE StoreBody' BY DEF StorePart
    <3>2. senseLost = FALSE
      <4>1. senseLost' = senseLost \/ senseLost' = (senseLost \/ bot.kind = "sense") \/ senseLost' = TRUE
        BY <2>1 DEF DriverDoes, Queued, PollOk, PollError, TimedOut, Finished, OutRecovered, InRecovered
      <4>. QED BY <4>1, <3>1, <1>1
    <3>3. StoreBody /\ CountBody BY <1>0, <3>2 DEF StorePart, CountPart, CountBody
    <3>. QED BY <1>0, <1>1, <2>0, <2>1, <3>1, <3>3, StoreDriver
  <2>. QED BY <2>1, <2>3, <2>4, <2>5, <2>6, <2>7 DEF LunInv
<1>4. CASE Usb /\ DeviceStep
  <2>0. SameRequest BY <1>4 DEF Usb, SameRequest
  <2>1. DeviceDoes /\ UsbType' /\ perLba' = perLba /\ bot' = bot /\ senseLost' = senseLost
    BY <1>0, <1>4, DeviceStepDoes
  <2>2. UsbDoes BY <2>1 DEF UsbDoes
  <2>3. PipePart' /\ CountPart' BY <1>0, <2>1, <2>2, PipeStep, CountStep
  <2>4. ShapePart' BY <1>0, <2>1, ShapeDevice
  <2>5. LinkPart' BY <1>0, <2>0, <2>1, LinkStep
  <2>6. TruthPart' BY <1>0, <2>0, <2>1, TruthUsb
  <2>7. StorePart'
    <3>1. SUFFICES ASSUME senseLost = FALSE PROVE StoreBody' BY <2>1 DEF StorePart
    <3>2. StoreBody /\ CountBody BY <1>0, <3>1 DEF StorePart, CountPart, CountBody
    <3>. QED BY <1>0, <2>0, <2>1, <3>2, StoreDevice
  <2>. QED BY <2>1, <2>3, <2>4, <2>5, <2>6, <2>7 DEF LunInv
<1>. QED BY <1>2, <1>3, <1>4 DEF LunNext, Usb

\* A step that changes nothing.
LEMMA LunInvStutter == ASSUME LunInv, UNCHANGED lunVars PROVE LunInv'
<1>1. UNCHANGED <<perLba, disk, dev, xhc, bot, senseLost>> /\ SameRequest
  BY DEF lunVars, usb, SameRequest
<1>2. UsbType /\ PipePart /\ CountPart /\ ShapePart /\ LinkPart /\ TruthPart /\ StorePart BY DEF LunInv
<1>3. BotType' BY <1>1, <1>2 DEF UsbType, BotType, Active, Recovering
<1>4. UsbType' /\ LunQuiet BY <1>1, <1>2, <1>3, QuietType DEF LunQuiet, SameDisk
<1>5. UsbDoes /\ perLba' = perLba BY <1>1, <1>4 DEF UsbDoes
<1>6. PipePart' /\ CountPart' BY <1>2, <1>4, <1>5, PipeStep, CountStep
<1>7. ShapePart' BY <1>2, <1>4, <1>5, ShapeDriver
<1>8. Target' = Target /\ Chunk' = Chunk BY <1>1, SameChunk DEF SameRequest
<1>9. LinkPart' BY <1>1, <1>2, <1>8 DEF LinkPart, RqType, CallPart, SameRequest
<1>10. TruthPart'
  BY <1>1, <1>2 DEF TruthPart, TrueAbove, Held, HeldAbove, ReadIsTrue, SameRequest, OutR, OnDisk
<1>11. StorePart'
  <2>1. SUFFICES ASSUME senseLost = FALSE PROVE StoreBody' BY <1>1 DEF StorePart
  <2>2. StoreBody BY <1>2, <2>1 DEF StorePart
  <2>3. SameRings /\ SamePage BY <1>1, SameXhc
  <2>4. Active' = Active BY <1>1 DEF Active
  <2>5. PagePart' BY <1>1, <2>2, <2>3 DEF StoreBody, PagePart, SameRings, SamePage, Stopped
  <2>6. SafePart'
    <3>1. SUFFICES ASSUME NEW l \in Nat, Exposed(l)' PROVE Lost(l)' \/ Ours(l)' \/ Fresh(l)'
      BY DEF SafePart
    <3>2. Exposed(l) BY <3>1, <2>3, <1>1 DEF Exposed, SameRings
    <3>3. Lost(l) \/ Ours(l) \/ Fresh(l) BY <3>2, <2>2 DEF StoreBody, SafePart
    <3>. QED BY <3>3, <2>4, <1>1, <1>8 DEF Lost, Ours, Fresh, SameRequest, Lba, Pos
  <2>7. WrittenPart' BY <1>1, <2>2 DEF StoreBody, WrittenPart, Done, Passed, BlockIs, Lba, Pos
  <2>8. StoredPart' BY <1>1, <1>8, <2>2 DEF StoreBody, StoredPart, SameRequest
  <2>. QED BY <1>1, <1>2, <2>2, <2>4, <2>5, <2>6, <2>7, <2>8, StoreSame
<1>. QED BY <1>4, <1>6, <1>7, <1>9, <1>10, <1>11 DEF LunInv

\* The invariant holds throughout, for every disk, block size, number of tries and of
\* faults, cache size and pinned prefix.
LEMMA LunInvariance == LunSpec => []LunInv
<1>1. LunInit => LunInv BY LunInvInit
<1>2. LunInv /\ [LunNext]_lunVars => LunInv' BY LunInvStep, LunInvStutter
<1>. QED BY <1>1, <1>2, PTL DEF LunSpec

\* A command is queued behind leftovers of an earlier one only while an endpoint is
\* halted, until a REQUEST SENSE is given up: CleanOrHalted of recover_pipes and the
\* retry loop of usb_bot_rw.
THEOREM UsbCleanOrHalted == LunSpec => []CleanOrHalted
<1>1. LunInv => CleanOrHalted
  <2>1. SUFFICES ASSUME LunInv, senseLost = FALSE, bot.pc \in {"idle", "queue", "ok"} PROVE CleanOrHalted
    BY DEF CleanOrHalted, LunInv, UsbType
  <2>2. Empty \/ Stopped BY <2>1 DEF LunInv, CountPart, Resting
  <2>. QED BY <2>2 DEF CleanOrHalted, Empty, Stopped, OutR, InR, OutH, InH, Eps
<1>. QED BY <1>1, LunInvariance, PTL

\* A read answered with success returned what the disk holds, whatever was retried,
\* recovered or given up before it, through the pin, the cache or the driver.
THEOREM UsbReadIsTrue == LunSpec => []ReadIsTrue
<1>1. LunInv => ReadIsTrue BY DEF LunInv, TruthPart, TrueAbove
<1>. QED BY <1>1, LunInvariance, PTL

\* What an acknowledged write stored stays on the disk until another write to the sector
\* is issued, for as long as no REQUEST SENSE was given up.
THEOREM UsbAckedUnlessSenseLost == LunSpec => []AckedUnlessSenseLost
<1>1. LunInv => AckedUnlessSenseLost
  <2>1. SUFFICES ASSUME LunInv, senseLost = FALSE PROVE AckedUnlessSenseLost
    BY DEF AckedUnlessSenseLost, LunInv, UsbType
  <2>2. WantPart BY <2>1 DEF LunInv, StorePart, StoreBody
  <2>. QED BY <2>2 DEF WantPart, AckedUnlessSenseLost
<1>. QED BY <1>1, LunInvariance, PTL

-----------------------------------------------------------------------------
(* The interrupt chips *)

Vectors == {TimerVector, SelfVector, PinVector(VIRTIO_PIC_IRQ), PinVector(PIT_IOAPIC_GSI)}

ChipFields == {"mirr", "mimr", "misr", "sirr", "simr", "sisr", "pins", "remote", "hold", "once",
               "yield", "since", "irr", "isr", "self"}

\* Only the timer and the shared line are wired; the local APIC knows four vectors.
ChipOk(c) ==
    /\ DOMAIN c = ChipFields
    /\ c.mirr \subseteq {PIT_IRQ, PIC_SLAVE_IRQ} /\ c.misr \subseteq {PIT_IRQ, PIC_SLAVE_IRQ}
    /\ c.sirr \subseteq {VIRTIO_PIC_IRQ} /\ c.sisr \subseteq {VIRTIO_PIC_IRQ}
    /\ c.irr \subseteq Vectors /\ c.isr \subseteq Vectors

\* The shared line is high at both interrupt controllers.
Raised(c) == VIRTIO_PIC_IRQ \in c.pins /\ VIRTIO_PIC_IRQ \in c.sirr /\ PIC_SLAVE_IRQ \in c.mirr

SameService(c, d) == d.sisr = c.sisr /\ d.misr = c.misr /\ d.isr = c.isr

\* A step of the chips that takes nothing into service and does not lower the line.
ChipKept(c, d) == ChipOk(d) /\ SameService(c, d) /\ (Raised(c) => Raised(d))

\* Raising the shared line.
LEMMA RaiseVirtioDoes ==
    ASSUME NEW c, ChipOk(c)
    PROVE  ChipKept(c, RaiseVirtio(c)) /\ Raised(RaiseVirtio(c))
BY DEF ChipOk, ChipKept, SameService, Raised, RaiseVirtio, RaisePic, ChipFields,
       VIRTIO_PIC_IRQ, PIC_SLAVE_IRQ, PIT_IRQ

\* Raising the timer's line.
LEMMA RaisePitDoes ==
    ASSUME NEW c, ChipOk(c)
    PROVE  ChipKept(c, RaisePit(c))
BY DEF ChipOk, ChipKept, SameService, Raised, RaisePit, RaisePic, ChipFields, PIT_IOAPIC_GSI,
       VIRTIO_PIC_IRQ, PIC_SLAVE_IRQ, PIT_IRQ

\* Lowering the shared line.
LEMMA LowerVirtioDoes ==
    ASSUME NEW c, ChipOk(c)
    PROVE  ChipOk(LowerVirtio(c)) /\ SameService(c, LowerVirtio(c))
BY DEF ChipOk, SameService, LowerVirtio, LowerPic, Cascade, ChipFields,
       VIRTIO_PIC_IRQ, PIC_SLAVE_IRQ, PIT_IRQ

\* The flags that order the 8259's requests.
LEMMA FlagsDo ==
    ASSUME NEW c, NEW a, NEW b, ChipOk(c)
    PROVE  /\ ChipKept(c, [c EXCEPT !.hold = a])
           /\ ChipKept(c, [c EXCEPT !.hold = a, !.once = b])
BY DEF ChipOk, ChipKept, SameService, Raised, ChipFields

\* A pin becomes a request of the local APIC; a level pin stays high.
LEMMA TakeIoapicDoes ==
    ASSUME NEW c, NEW apic, ChipOk(c)
    PROVE  ChipKept(c, TakeIoapic(c, apic)) /\ PicPending(TakeIoapic(c, apic)) = PicPending(c)
<1>. DEFINE p == PeekPin(c, apic)
<1>1. p \in {None, VIRTIO_PIC_IRQ, PIT_IOAPIC_GSI} BY DEF PeekPin
<1>2. PinVector(VIRTIO_PIC_IRQ) \in Vectors /\ PinVector(PIT_IOAPIC_GSI) \in Vectors BY DEF Vectors
<1>. HIDE DEF p
<1>. DEFINE level == [c EXCEPT !.remote = @ \cup {p}, !.irr = @ \cup {PinVector(p)}]
            edge  == [c EXCEPT !.pins = @ \ {p}, !.irr = @ \cup {PinVector(p)}]
<1>3. TakeIoapic(c, apic) = IF p = None THEN c ELSE IF p \in Level THEN level ELSE edge
  BY DEF TakeIoapic, p
<1>4. p # None => PinVector(p) \in Vectors BY <1>1, <1>2
<1>5. p # None => ChipKept(c, level)
  BY <1>4 DEF ChipOk, ChipKept, SameService, Raised, ChipFields
<1>6. p # None /\ p \notin Level => ChipKept(c, edge)
  BY <1>1, <1>4 DEF ChipOk, ChipKept, SameService, Raised, ChipFields, Level, None,
                    VIRTIO_PIC_IRQ, PIT_IOAPIC_GSI
<1>7. \A d \in {c, level, edge} :
         d.mirr = c.mirr /\ d.mimr = c.mimr /\ d.misr = c.misr /\ d.sirr = c.sirr /\ d.simr = c.simr
           /\ d.sisr = c.sisr /\ d.hold = c.hold /\ d.once = c.once /\ d.yield = c.yield
  BY DEF ChipOk, ChipFields
<1>8. TakeIoapic(c, apic) \in {c, level, edge} BY <1>3
<1>9. PicPending(TakeIoapic(c, apic)) = PicPending(c) BY <1>7, <1>8 DEF PicPending, PreferPit
<1>10. ChipKept(c, c) BY DEF ChipKept, SameService
<1>. QED BY <1>3, <1>5, <1>6, <1>9, <1>10

\* The 8259 pair has nothing to offer but the timer and the shared line, the latter
\* when it is not masked.
LEMMA PicPendingIs ==
    ASSUME NEW c, ChipOk(c)
    PROVE  /\ PicPending(c) \in {None, PIT_IRQ, VIRTIO_PIC_IRQ}
           /\ PicPending(c) = VIRTIO_PIC_IRQ => VIRTIO_PIC_IRQ \in c.sirr \ c.simr
<1>. DEFINE req  == (c.mirr \ c.mimr) \ c.misr
            sreq == IF PIC_SLAVE_IRQ \in req THEN (c.sirr \ c.simr) \ c.sisr ELSE {}
            pit  == PreferPit(c) /\ PIT_IRQ \in req
            others  == req \ {PIT_IRQ, PIC_SLAVE_IRQ}
<1>1. others = {} BY DEF ChipOk
<1>2. sreq # {} => sreq = {VIRTIO_PIC_IRQ} /\ VIRTIO_PIC_IRQ \in c.sirr \ c.simr BY DEF ChipOk
<1>3. sreq # {} => Lowest(sreq) = VIRTIO_PIC_IRQ BY <1>2 DEF Lowest, VIRTIO_PIC_IRQ
<1>4. \/ PicPending(c) = Lowest(sreq) /\ sreq # {}
      \/ PicPending(c) = PIT_IRQ
      \/ PicPending(c) = Lowest(others) /\ others # {}
      \/ PicPending(c) = None
  BY Zenon DEF PicPending
<1>. HIDE DEF req, sreq, pit, others
<1>. QED BY <1>1, <1>2, <1>3, <1>4 DEF None, PIT_IRQ, VIRTIO_PIC_IRQ

\* The greatest request of the local APIC is one of its requests.
LEMMA HighestIn ==
    ASSUME NEW S, S \subseteq Vectors, S # {}
    PROVE  Highest(S) \in S
<1>1. \E x \in S : \A y \in S : x >= y
  <2>1. Vectors = {236, 246, 75, 66}
    BY DEF Vectors, TimerVector, SelfVector, PinVector, VIRTIO_PIC_IRQ, PIT_IOAPIC_GSI
  <2>2. CASE 246 \in S BY <2>1, <2>2
  <2>3. CASE 246 \notin S /\ 236 \in S BY <2>1, <2>3
  <2>4. CASE 246 \notin S /\ 236 \notin S /\ 75 \in S BY <2>1, <2>4
  <2>5. CASE 246 \notin S /\ 236 \notin S /\ 75 \notin S
    <3>1. \A y \in S : y = 66 BY <2>1, <2>5
    <3>. QED BY <3>1
  <2>. QED BY <2>2, <2>3, <2>4, <2>5
<1>. QED BY <1>1 DEF Highest

\* What is in service belongs to vector v.
ServiceIs(c, v) ==
    /\ c.sisr # {} => v = PicVector(VIRTIO_PIC_IRQ)
    /\ PIC_SLAVE_IRQ \in c.misr => v = PicVector(VIRTIO_PIC_IRQ)
    /\ PIT_IRQ \in c.misr => v = PicVector(PIT_IRQ)
    /\ c.isr \subseteq {v}

\* Without a vector nothing is in service.
LEMMA NothingInService ==
    ASSUME NEW c, ChipOk(c), ServiceIs(c, None)
    PROVE  c.sisr = {} /\ c.misr = {} /\ c.isr = {}
BY DEF ChipOk, ServiceIs, None, PicVector, Vectors, TimerVector, SelfVector, PinVector,
       VIRTIO_PIC_IRQ, PIT_IOAPIC_GSI, PIT_IRQ, PIC_SLAVE_IRQ

\* The vectors that can be injected.
Taken == Vectors \cup {PicVector(PIT_IRQ), PicVector(VIRTIO_PIC_IRQ)}

\* INTA: the 8259's request is in service, the level line stays high.
LEMMA PicTakeDoes ==
    ASSUME NEW c, NEW mounted \in BOOLEAN, ChipOk(c), ServiceIs(c, None), PicPending(c) # None
    PROVE  /\ ChipOk(PicTake(c, mounted))
           /\ Raised(c) => Raised(PicTake(c, mounted))
           /\ ServiceIs(PicTake(c, mounted), PicVector(PicPending(c)))
           /\ PicVector(PicPending(c)) \in Taken
<1>. DEFINE irq == PicPending(c)
            d   == NoteTaken(c, irq, mounted)
            lo  == [d EXCEPT !.mirr = @ \ {irq}, !.misr = @ \cup {irq}]
            hi  == [d EXCEPT !.sirr = IF irq = VIRTIO_PIC_IRQ THEN @ ELSE @ \ {irq},
                             !.sisr = @ \cup {irq}, !.misr = @ \cup {PIC_SLAVE_IRQ}]
<1>1. irq \in {PIT_IRQ, VIRTIO_PIC_IRQ} /\ (irq = VIRTIO_PIC_IRQ => VIRTIO_PIC_IRQ \in c.sirr \ c.simr)
  BY PicPendingIs
<1>2. c.sisr = {} /\ c.misr = {} /\ c.isr = {} BY NothingInService
<1>3. PicTake(c, mounted) = IF irq < 8 THEN lo ELSE Cascade(hi) BY DEF PicTake
<1>. HIDE DEF irq
<1>4. /\ DOMAIN d = ChipFields /\ d.mirr = c.mirr /\ d.misr = c.misr /\ d.sirr = c.sirr /\ d.simr = c.simr
      /\ d.sisr = c.sisr /\ d.irr = c.irr /\ d.isr = c.isr /\ d.pins = c.pins
  BY DEF NoteTaken, ChipOk, ChipFields
<1>. HIDE DEF d
<1>5. CASE irq = PIT_IRQ
  <2>1. PicTake(c, mounted) = lo BY <1>3, <1>5 DEF PIT_IRQ
  <2>2. ChipOk(lo) /\ (Raised(c) => Raised(lo)) /\ ServiceIs(lo, PicVector(irq))
    BY <1>2, <1>4, <1>5 DEF ChipOk, Raised, ServiceIs, ChipFields, PIT_IRQ, PIC_SLAVE_IRQ, VIRTIO_PIC_IRQ
  <2>. QED BY <2>1, <2>2, <1>5 DEF Taken, irq
<1>6. CASE irq = VIRTIO_PIC_IRQ
  <2>1. PicTake(c, mounted) = Cascade(hi) BY <1>3, <1>6 DEF VIRTIO_PIC_IRQ
  <2>2. VIRTIO_PIC_IRQ \in hi.sirr \ hi.simr BY <1>1, <1>4, <1>6 DEF ChipFields
  <2>3. Cascade(hi) = hi BY <2>2 DEF Cascade
  <2>4. ChipOk(hi) /\ (Raised(c) => Raised(hi)) /\ ServiceIs(hi, PicVector(irq))
    BY <1>2, <1>4, <1>6 DEF ChipOk, Raised, ServiceIs, ChipFields, PIT_IRQ, PIC_SLAVE_IRQ, VIRTIO_PIC_IRQ
  <2>. QED BY <2>1, <2>3, <2>4, <1>6 DEF Taken, irq
<1>. QED BY <1>1, <1>5, <1>6

\* A request of the local APIC is taken.
LEMMA TakeVectorDoes ==
    ASSUME NEW c, NEW v \in Vectors, ChipOk(c), ServiceIs(c, None)
    PROVE  /\ ChipOk(TakeVector(c, v)) /\ (Raised(c) => Raised(TakeVector(c, v)))
           /\ ServiceIs(TakeVector(c, v), v)
<1>1. c.sisr = {} /\ c.misr = {} /\ c.isr = {} BY NothingInService
<1>. QED BY <1>1 DEF ChipOk, TakeVector, Raised, ServiceIs, ChipFields

-----------------------------------------------------------------------------
(* The host: chips, device registers and rings *)

HostFields == {"c", "isr", "notify", "arm", "pend", "done", "count", "running", "host", "dumped",
               "inject", "reinject", "window"}

HostOk(x) ==
    /\ DOMAIN x = HostFields
    /\ ChipOk(x.c) /\ x.arm \in BOOLEAN /\ x.notify \subseteq VirtioFn
    /\ DOMAIN x.pend = Queues

\* No request is waiting and no doorbell is unread.
Still(x) == x.notify = {} /\ \A q \in Queues \ {"rx"} : x.pend[q] = 0

\* A step of the host after which everyone who was heard is heard, and so is every
\* function that set its ISR in it.
Heard(x, y) ==
    /\ HostOk(y)
    /\ Raised(x.c) => Raised(y.c)
    /\ x.arm = TRUE => y.arm = TRUE \/ Raised(y.c)
    /\ \A f \in y.isr : f \in x.isr \/ Raised(y.c) \/ y.arm = TRUE

\* A step that completes no block request unless one was waiting.
Calm(x, y) == Still(x) => Still(y) /\ y.isr \cap Blk \subseteq x.isr

Quiet(x, y) == SameService(x.c, y.c) /\ y.inject = x.inject /\ y.reinject = x.reinject

Kept(x, y) == Heard(x, y) /\ Calm(x, y) /\ Quiet(x, y)

\* Two steps in a row.
LEMMA HeardTrans ==
    ASSUME NEW x, NEW y, NEW z, Heard(x, y), Heard(y, z)
    PROVE  Heard(x, z)
BY DEF Heard

\* Two steps in a row.
LEMMA QuietTrans ==
    ASSUME NEW x, NEW y, NEW z, Quiet(x, y), Quiet(y, z)
    PROVE  Quiet(x, z)
BY DEF Quiet, SameService

\* Two steps in a row.
LEMMA KeptTrans ==
    ASSUME NEW x, NEW y, NEW z, Kept(x, y), Kept(y, z)
    PROVE  Kept(x, z)
<1>1. Calm(x, z) BY DEF Kept, Calm
<1>. QED BY <1>1, HeardTrans, QuietTrans DEF Kept

\* No step.
LEMMA KeptSame ==
    ASSUME NEW x, HostOk(x)
    PROVE  Kept(x, x)
BY DEF Kept, Heard, Calm, Quiet, SameService

\* A step that only changes the chips, and does not lower the line.
LEMMA ChipsKept ==
    ASSUME NEW x, NEW d, HostOk(x), ChipKept(x.c, d)
    PROVE  Kept(x, [x EXCEPT !.c = d]) /\ [x EXCEPT !.c = d].c = d
<1>. DEFINE y == [x EXCEPT !.c = d]
<1>1. /\ y.c = d /\ DOMAIN y = HostFields /\ y.isr = x.isr /\ y.notify = x.notify /\ y.arm = x.arm
      /\ y.pend = x.pend /\ y.inject = x.inject /\ y.reinject = x.reinject
  BY DEF HostOk, HostFields
<1>. HIDE DEF y
<1>2. HostOk(y) BY <1>1 DEF HostOk, ChipKept
<1>3. Heard(x, y) BY <1>1, <1>2 DEF Heard, ChipKept
<1>4. Calm(x, y) BY <1>1 DEF Calm, Still
<1>5. Quiet(x, y) BY <1>1 DEF Quiet, ChipKept
<1>. QED BY <1>1, <1>3, <1>4, <1>5 DEF Kept, y

\* The interrupt that waited for this exit.
LEMMA RaiseDeferredKeeps ==
    ASSUME NEW x, HostOk(x)
    PROVE  Kept(x, RaiseDeferred(x))
<1>. DEFINE d == RaiseVirtio(x.c)
            y == [x EXCEPT !.arm = FALSE, !.c = RaiseVirtio(@)]
<1>1. ChipKept(x.c, d) /\ Raised(d) BY RaiseVirtioDoes DEF HostOk
<1>2. /\ y.c = d /\ DOMAIN y = HostFields /\ y.isr = x.isr /\ y.notify = x.notify
      /\ y.pend = x.pend /\ y.inject = x.inject /\ y.reinject = x.reinject
  BY DEF HostOk, HostFields
<1>3. y.arm = FALSE BY Zenon DEF HostOk, HostFields
<1>4. RaiseDeferred(x) = x \/ RaiseDeferred(x) = y BY DEF RaiseDeferred
<1>. HIDE DEF y, d
<1>5. HostOk(y) BY <1>1, <1>2, <1>3 DEF HostOk, ChipKept
<1>6. Heard(x, y) BY <1>1, <1>2, <1>3, <1>5 DEF Heard
<1>7. Calm(x, y) BY <1>2 DEF Calm, Still
<1>8. Quiet(x, y) BY <1>1, <1>2 DEF Quiet, ChipKept
<1>9. Kept(x, y) BY <1>6, <1>7, <1>8 DEF Kept
<1>. QED BY <1>4, <1>9, KeptSame

\* Frames of the NIC: the network function's ISR, and an interrupt that waits.
LEMMA PollRxKeeps ==
    ASSUME NEW x, NEW n, HostOk(x)
    PROVE  Kept(x, PollRx(x, n))
<1>. DEFINE y == [x EXCEPT !.pend["rx"] = @ - n, !.done["rx"] = @ + n, !.isr = @ \cup {"net"}, !.arm = TRUE]
<1>1. /\ y.c = x.c /\ DOMAIN y = HostFields /\ y.isr = x.isr \cup {"net"} /\ y.notify = x.notify
      /\ y.inject = x.inject /\ y.reinject = x.reinject
  BY DEF HostOk, HostFields
<1>2. y.arm = TRUE BY Zenon DEF HostOk, HostFields
<1>3. DOMAIN y.pend = Queues /\ \A q \in Queues \ {"rx"} : y.pend[q] = x.pend[q]
  BY DEF HostOk, HostFields
<1>4. PollRx(x, n) = x \/ PollRx(x, n) = y BY DEF PollRx
<1>. HIDE DEF y
<1>5. HostOk(y) BY <1>1, <1>2, <1>3 DEF HostOk
<1>6. Heard(x, y) BY <1>1, <1>2, <1>5 DEF Heard
<1>7. Calm(x, y) BY <1>1, <1>3 DEF Calm, Still, Blk
<1>8. Quiet(x, y) BY <1>1 DEF Quiet, SameService
<1>9. Kept(x, y) BY <1>6, <1>7, <1>8 DEF Kept
<1>. QED BY <1>4, <1>9, KeptSame

\* Draining leaves less to drain.
Drained(x, y) ==
    /\ y.notify \subseteq x.notify
    /\ \A q \in Queues \ {"rx"} : x.pend[q] = 0 => y.pend[q] = 0

\* drain_disk and drain_iso: nothing to do, or every chain is completed, the ISR set and
\* the line raised.
LEMMA DrainBlkDoes ==
    ASSUME NEW x, NEW f \in Blk, HostOk(x)
    PROVE  /\ Kept(x, DrainBlk(x, f)) /\ Drained(x, DrainBlk(x, f))
           /\ f \notin DrainBlk(x, f).notify /\ DrainBlk(x, f).pend[f] = 0
<1>. DEFINE d == RaiseVirtio(x.c)
            w == [x EXCEPT !.pend[f] = 0, !.done[f] = @ + x.pend[f]]
            y == [w EXCEPT !.notify = @ \ {f}, !.isr = @ \cup {f}, !.c = RaiseVirtio(@)]
<1>0. f \in Queues \ {"rx"} BY DEF Blk, Queues
<1>1. ChipKept(x.c, d) /\ Raised(d) BY RaiseVirtioDoes DEF HostOk
<1>2. /\ DOMAIN w = HostFields /\ w.c = x.c /\ w.isr = x.isr /\ w.notify = x.notify /\ w.arm = x.arm
      /\ w.inject = x.inject /\ w.reinject = x.reinject
  BY DEF HostOk, HostFields
<1>3. DOMAIN w.pend = Queues /\ \A q \in Queues : w.pend[q] = IF q = f THEN 0 ELSE x.pend[q]
  BY <1>0 DEF HostOk, HostFields
<1>4. CASE f \notin x.notify /\ x.pend[f] = 0
  <2>1. DrainBlk(x, f) = x BY <1>4 DEF DrainBlk
  <2>. QED BY <2>1, <1>4, KeptSame DEF Drained
<1>5. CASE ~(f \notin x.notify /\ x.pend[f] = 0)
  <2>1. DrainBlk(x, f) = y BY <1>5 DEF DrainBlk, Complete
  <2>. HIDE DEF w
  <2>2. /\ y.c = d /\ DOMAIN y = HostFields /\ y.isr = x.isr \cup {f} /\ y.notify = x.notify \ {f}
        /\ y.pend = w.pend /\ y.arm = x.arm /\ y.inject = x.inject /\ y.reinject = x.reinject
    BY <1>2 DEF HostFields
  <2>. HIDE DEF y, d
  <2>3. HostOk(y) BY <1>1, <2>2, <1>3 DEF HostOk, ChipKept
  <2>4. Heard(x, y) BY <1>1, <2>2, <2>3 DEF Heard
  <2>5. Calm(x, y) BY <1>0, <1>5 DEF Calm, Still
  <2>6. Quiet(x, y) BY <1>1, <2>2 DEF Quiet, ChipKept
  <2>7. Drained(x, y) BY <2>2, <1>3 DEF Drained
  <2>8. f \notin y.notify /\ y.pend[f] = 0 BY <2>2, <1>3, <1>0
  <2>. QED BY <2>1, <2>4, <2>5, <2>6, <2>7, <2>8 DEF Kept
<1>. QED BY <1>4, <1>5

\* drain of virtio-net: the interrupt of a transmission waits for the next exit.
LEMMA DrainNetDoes ==
    ASSUME NEW x, HostOk(x)
    PROVE  /\ Kept(x, DrainNet(x)) /\ Drained(x, DrainNet(x))
           /\ "net" \notin DrainNet(x).notify /\ DrainNet(x).pend["tx"] = 0
<1>. DEFINE u == [x EXCEPT !.notify = @ \ {"net"}]
            w == [x EXCEPT !.pend["tx"] = 0, !.done["tx"] = @ + x.pend["tx"]]
            y == [w EXCEPT !.notify = @ \ {"net"}, !.isr = @ \cup {"net"}, !.arm = TRUE]
<1>0. "tx" \in Queues \ {"rx"} BY DEF Queues
<1>1. /\ DOMAIN w = HostFields /\ w.c = x.c /\ w.isr = x.isr /\ w.notify = x.notify
      /\ w.inject = x.inject /\ w.reinject = x.reinject
  BY DEF HostOk, HostFields
<1>2. DOMAIN w.pend = Queues /\ \A q \in Queues : w.pend[q] = IF q = "tx" THEN 0 ELSE x.pend[q]
  BY <1>0 DEF HostOk, HostFields
<1>3. CASE x.pend["tx"] = 0
  <2>1. DrainNet(x) = u BY <1>3 DEF DrainNet
  <2>2. /\ u.c = x.c /\ DOMAIN u = HostFields /\ u.isr = x.isr /\ u.notify = x.notify \ {"net"}
        /\ u.pend = x.pend /\ u.arm = x.arm /\ u.inject = x.inject /\ u.reinject = x.reinject
    BY DEF HostOk, HostFields
  <2>. HIDE DEF u
  <2>3. HostOk(u) BY <2>2 DEF HostOk
  <2>4. Heard(x, u) BY <2>2, <2>3 DEF Heard
  <2>5. Calm(x, u) BY <2>2 DEF Calm, Still
  <2>6. Quiet(x, u) BY <2>2 DEF Quiet, SameService
  <2>. QED BY <2>1, <2>2, <2>4, <2>5, <2>6, <1>3 DEF Kept, Drained
<1>4. CASE x.pend["tx"] # 0
  <2>1. DrainNet(x) = y BY <1>4 DEF DrainNet, Complete
  <2>. HIDE DEF w
  <2>2. /\ y.c = x.c /\ DOMAIN y = HostFields /\ y.isr = x.isr \cup {"net"} /\ y.notify = x.notify \ {"net"}
        /\ y.pend = w.pend /\ y.inject = x.inject /\ y.reinject = x.reinject
    BY <1>1 DEF HostFields
  <2>3. y.arm = TRUE BY Zenon, <1>1 DEF HostFields
  <2>. HIDE DEF y
  <2>4. HostOk(y) BY <2>2, <2>3, <1>2 DEF HostOk
  <2>5. Heard(x, y) BY <2>2, <2>3, <2>4 DEF Heard
  <2>6. Calm(x, y) BY <1>0, <1>4 DEF Calm, Still
  <2>7. Quiet(x, y) BY <2>2 DEF Quiet, SameService
  <2>8. Drained(x, y) /\ "net" \notin y.notify /\ y.pend["tx"] = 0 BY <2>2, <1>2, <1>0 DEF Drained
  <2>. QED BY <2>1, <2>5, <2>6, <2>7, <2>8 DEF Kept
<1>. QED BY <1>3, <1>4

\* drain_queue: afterwards nothing waits.
LEMMA DrainDoes ==
    ASSUME NEW x, HostOk(x)
    PROVE  Kept(x, Drain(x)) /\ Still(Drain(x))
<1>. DEFINE a == DrainBlk(x, "disk")
            b == DrainBlk(a, "iso")
            d == DrainBlk(b, "spare")
            e == DrainNet(d)
<1>0. "disk" \in Blk /\ "iso" \in Blk /\ "spare" \in Blk BY DEF Blk
<1>1. Kept(x, a) /\ "disk" \notin a.notify /\ a.pend["disk"] = 0 BY <1>0, DrainBlkDoes
<1>. HIDE DEF a
<1>2. HostOk(a) BY <1>1 DEF Kept, Heard
<1>3. Kept(a, b) /\ Drained(a, b) /\ "iso" \notin b.notify /\ b.pend["iso"] = 0 BY <1>0, <1>2, DrainBlkDoes
<1>. HIDE DEF b
<1>4. HostOk(b) BY <1>3 DEF Kept, Heard
<1>5. Kept(b, d) /\ Drained(b, d) /\ "spare" \notin d.notify /\ d.pend["spare"] = 0
  BY <1>0, <1>4, DrainBlkDoes
<1>. HIDE DEF d
<1>6. HostOk(d) BY <1>5 DEF Kept, Heard
<1>7. Kept(d, e) /\ Drained(d, e) /\ "net" \notin e.notify /\ e.pend["tx"] = 0 BY <1>6, DrainNetDoes
<1>8. Drain(x) = e BY DEF Drain, a, b, d
<1>. HIDE DEF e
<1>9. Kept(x, b) BY <1>1, <1>3, KeptTrans
<1>10. Kept(x, d) BY <1>5, <1>9, KeptTrans
<1>11. Kept(x, e) BY <1>7, <1>10, KeptTrans
<1>12. e.notify = {}
  <2>1. e.notify \subseteq VirtioFn BY <1>7 DEF Kept, Heard, HostOk
  <2>. QED BY <2>1, <1>1, <1>3, <1>5, <1>7 DEF Drained, VirtioFn
<1>13. \A q \in Queues \ {"rx"} : e.pend[q] = 0
  BY <1>1, <1>3, <1>5, <1>7 DEF Drained, Queues
<1>. QED BY <1>8, <1>11, <1>12, <1>13 DEF Still

\* A request to look at the latches again.
LEMMA ReassertKeeps ==
    ASSUME NEW x, HostOk(x)
    PROVE  Kept(x, Reassert(x)) /\ (x.isr \cap Blk # {} => Raised(Reassert(x).c))
<1>1. ChipKept(x.c, RaiseVirtio(x.c)) /\ Raised(RaiseVirtio(x.c)) BY RaiseVirtioDoes DEF HostOk
<1>2. Kept(x, [x EXCEPT !.c = RaiseVirtio(x.c)]) /\ [x EXCEPT !.c = RaiseVirtio(x.c)].c = RaiseVirtio(x.c)
  BY <1>1, ChipsKept
<1>. QED BY <1>1, <1>2, KeptSame DEF Reassert

\* The jiffies of the overlay.
LEMMA OverlayPitKeeps ==
    ASSUME NEW x, NEW paced \in BOOLEAN, HostOk(x)
    PROVE  Kept(x, OverlayPit(x, paced))
<1>. DEFINE e == Overlay /\ BothOk
            c == IF Overlay /\ BothOk /\ paced THEN RaisePit(x.c) ELSE x.c
            d == [c EXCEPT !.hold = e]
<1>1. OverlayPit(x, paced) = [x EXCEPT !.c = d] BY DEF OverlayPit
<1>2. ChipOk(x.c) BY DEF HostOk
<1>3. ChipKept(x.c, x.c) BY <1>2 DEF ChipKept, SameService
<1>4. ChipKept(x.c, c) BY <1>2, <1>3, RaisePitDoes
<1>. HIDE DEF e, c
<1>5. ChipKept(c, d) BY <1>4, FlagsDo DEF ChipKept
<1>. HIDE DEF d
<1>6. ChipKept(x.c, d) BY <1>4, <1>5 DEF ChipKept, SameService
<1>. QED BY <1>1, <1>6, ChipsKept

\* What the resume does to the lines.
LEMMA BeforeInjectKeeps ==
    ASSUME NEW x, NEW paced \in BOOLEAN, HostOk(x)
    PROVE  Kept(x, BeforeInject(x, paced))
<1>. DEFINE y == IF Overlay /\ BothOk THEN Reassert(x) ELSE x
<1>1. Kept(x, y) BY ReassertKeeps, KeptSame
<1>2. BeforeInject(x, paced) = OverlayPit(y, paced) BY DEF BeforeInject
<1>. HIDE DEF y
<1>3. Kept(y, OverlayPit(y, paced)) BY <1>1, OverlayPitKeeps DEF Kept, Heard
<1>. QED BY <1>1, <1>2, <1>3, KeptTrans
\* linux_prefer_pit_during_apk.
LEMMA PitDuringApkKeeps ==
    ASSUME NEW x, NEW paced \in BOOLEAN, HostOk(x)
    PROVE  Kept(x, PitDuringApk(x, paced))
<1>. DEFINE e == Overlay /\ BothOk
            c == IF paced THEN RaisePit(x.c) ELSE x.c
            b == TRUE
            d == [c EXCEPT !.hold = e, !.once = b]
<1>1. PitDuringApk(x, paced) = [x EXCEPT !.c = d] BY DEF PitDuringApk
<1>2. ChipOk(x.c) BY DEF HostOk
<1>3. ChipKept(x.c, x.c) BY <1>2 DEF ChipKept, SameService
<1>4. ChipKept(x.c, c) BY <1>2, <1>3, RaisePitDoes
<1>. HIDE DEF e, c, b
<1>5. ChipKept(c, d) BY <1>4, FlagsDo DEF ChipKept
<1>. HIDE DEF d
<1>6. ChipKept(x.c, d) BY <1>4, <1>5 DEF ChipKept, SameService
<1>. QED BY <1>1, <1>6, ChipsKept

\* maybe_virtio_stall_dump: the pulse raises the line for the latches it sets; without
\* the pulse no block function's latch changes.
LEMMA StallDumpDoes ==
    ASSUME NEW x, NEW quiet \in BOOLEAN, NEW paced \in BOOLEAN, HostOk(x)
    PROVE  /\ Heard(x, StallDump(x, quiet, paced)) /\ Quiet(x, StallDump(x, quiet, paced))
           /\ Still(x) => Still(StallDump(x, quiet, paced))
           /\ quiet = FALSE => Calm(x, StallDump(x, quiet, paced))
<1>. DEFINE s == StallDump(x, quiet, paced)
            p == PitDuringApk(x, TRUE)
            y == [p EXCEPT !.dumped = TRUE]
            z == [y EXCEPT !.isr = @ \cup Blk, !.c = RaiseVirtio(@)]
<1>1. Kept(x, p) BY PitDuringApkKeeps
<1>2. Kept(x, PitDuringApk(x, paced)) /\ Kept(x, x) BY PitDuringApkKeeps, KeptSame
<1>3. s = x \/ s = PitDuringApk(x, paced) \/ (quiet = TRUE /\ (s = y \/ s = z))
  BY DEF StallDump
<1>. HIDE DEF p, s
<1>4. HostOk(p) BY <1>1 DEF Kept, Heard
<1>5. /\ DOMAIN y = HostFields /\ y.c = p.c /\ y.isr = p.isr /\ y.notify = p.notify /\ y.arm = p.arm
      /\ y.pend = p.pend /\ y.inject = p.inject /\ y.reinject = p.reinject
  BY <1>4 DEF HostOk, HostFields
<1>. HIDE DEF y
<1>6. /\ DOMAIN z = HostFields /\ z.c = RaiseVirtio(p.c) /\ z.notify = p.notify /\ z.arm = p.arm
      /\ z.pend = p.pend /\ z.inject = p.inject /\ z.reinject = p.reinject
  BY <1>5 DEF HostFields
<1>. HIDE DEF z
<1>7. ChipKept(p.c, RaiseVirtio(p.c)) /\ Raised(RaiseVirtio(p.c)) BY <1>4, RaiseVirtioDoes DEF HostOk
<1>8. Heard(p, y) /\ Quiet(p, y) /\ (Still(p) => Still(y))
  <2>1. HostOk(y) BY <1>4, <1>5 DEF HostOk
  <2>. QED BY <2>1, <1>5 DEF Heard, Quiet, SameService, Still
<1>9. Heard(p, z) /\ Quiet(p, z) /\ (Still(p) => Still(z))
  <2>1. HostOk(z) BY <1>4, <1>6, <1>7 DEF HostOk, ChipKept
  <2>. QED BY <2>1, <1>6, <1>7 DEF Heard, Quiet, ChipKept, Still
<1>10. Heard(x, y) /\ Quiet(x, y) /\ Heard(x, z) /\ Quiet(x, z)
  BY <1>1, <1>8, <1>9, HeardTrans, QuietTrans DEF Kept
<1>11. Still(x) => Still(y) /\ Still(z) BY <1>1, <1>8, <1>9 DEF Kept, Calm
<1>12. CASE s = x \/ s = PitDuringApk(x, paced)
  <2>1. Kept(x, s) BY <1>2, <1>12
  <2>. QED BY <2>1 DEF Kept, Calm, s
<1>13. CASE quiet = TRUE /\ (s = y \/ s = z)
  <2>1. quiet # FALSE BY <1>13
  <2>2. Heard(x, s) /\ Quiet(x, s) /\ (Still(x) => Still(s)) BY <1>10, <1>11, <1>13
  <2>. QED BY <2>1, <2>2 DEF s
<1>. QED BY <1>3, <1>12, <1>13

-----------------------------------------------------------------------------
(* The injection *)

\* The window request, on or off.
LEMMA WindowKeeps ==
    ASSUME NEW x, HostOk(x)
    PROVE  Kept(x, Idle(x)) /\ Kept(x, Window(x))
<1>. DEFINE i == Idle(x)
            w == Window(x)
<1>1. /\ DOMAIN i = HostFields /\ i.c = x.c /\ i.isr = x.isr /\ i.notify = x.notify /\ i.arm = x.arm
      /\ i.pend = x.pend /\ i.inject = x.inject /\ i.reinject = x.reinject
  BY DEF HostOk, HostFields, Idle
<1>2. /\ DOMAIN w = HostFields /\ w.c = x.c /\ w.isr = x.isr /\ w.notify = x.notify /\ w.arm = x.arm
      /\ w.pend = x.pend /\ w.inject = x.inject /\ w.reinject = x.reinject
  BY DEF HostOk, HostFields, Window
<1>. HIDE DEF i, w
<1>3. HostOk(i) /\ HostOk(w) BY <1>1, <1>2 DEF HostOk
<1>4. Kept(x, i) BY <1>1, <1>3 DEF Kept, Heard, Calm, Still, Quiet, SameService
<1>5. Kept(x, w) BY <1>2, <1>3 DEF Kept, Heard, Calm, Still, Quiet, SameService
<1>. QED BY <1>4, <1>5 DEF i, w

\* A vector for the next VM entry, taken from chips that are d afterwards.
LEMMA EnterDoes ==
    ASSUME NEW x, NEW d, NEW v, HostOk(x), ChipOk(d), Raised(x.c) => Raised(d)
    PROVE  LET y == Enter([x EXCEPT !.c = d], v)
           IN  Heard(x, y) /\ Calm(x, y) /\ y.c = d /\ y.inject = v /\ y.reinject = x.reinject
<1>. DEFINE y == Enter([x EXCEPT !.c = d], v)
<1>1. /\ DOMAIN y = HostFields /\ y.c = d /\ y.isr = x.isr /\ y.notify = x.notify /\ y.arm = x.arm
      /\ y.pend = x.pend /\ y.inject = v /\ y.reinject = x.reinject
  BY DEF HostOk, HostFields, Enter
<1>. HIDE DEF y
<1>2. HostOk(y) BY <1>1 DEF HostOk
<1>3. Heard(x, y) /\ Calm(x, y) BY <1>1, <1>2 DEF Heard, Calm, Still
<1>. QED BY <1>1, <1>3 DEF y

\* y is x with vector y.inject taken into service.
TookOne(x, y) ==
    /\ Heard(x, y) /\ Calm(x, y) /\ y.reinject = x.reinject
    /\ y.inject \in Taken \cup {None} /\ ServiceIs(y.c, y.inject)

\* With nothing in service, a vector from one of the chips, or none.
LEMMA TakeOneDoes ==
    ASSUME NEW x, NEW timerFirst \in BOOLEAN, NEW usePic \in BOOLEAN, HostOk(x), x.inject = None,
           ServiceIs(x.c, None), usePic = TRUE => PicPending(x.c) # None,
           timerFirst = FALSE /\ usePic = FALSE => x.c.irr # {}
    PROVE  TookOne(x, TakeOne(x, timerFirst, usePic))
<1>. DEFINE s == TakeOne(x, timerFirst, usePic)
            own == SelfPending(x.c)
            top == Highest(x.c.irr)
            take(v, d) == Enter([x EXCEPT !.c = d], v)
<1>0. ChipOk(x.c) /\ Mounted \in BOOLEAN BY DEF HostOk, Mounted
<1>1. ASSUME NEW d, NEW v \in Taken, ChipOk(d), Raised(x.c) => Raised(d), ServiceIs(d, v)
      PROVE  TookOne(x, take(v, d))
  BY <1>1, EnterDoes DEF TookOne
<1>2. ASSUME NEW v \in Vectors PROVE TookOne(x, take(v, TakeVector(x.c, v)))
  <2>1. v \in Taken BY DEF Taken
  <2>. QED BY <2>1, <1>0, <1>1, TakeVectorDoes
<1>3. CASE timerFirst /\ Deliverable(x.c, TimerVector)
  <2>1. s = take(TimerVector, TakeVector(x.c, TimerVector)) BY <1>3 DEF TakeOne
  <2>2. TimerVector \in Vectors BY DEF Vectors
  <2>. QED BY <2>1, <2>2, <1>2
<1>4. CASE timerFirst /\ ~Deliverable(x.c, TimerVector)
  <2>1. s = Idle(x) BY <1>4 DEF TakeOne
  <2>2. Kept(x, Idle(x)) BY WindowKeeps
  <2>. HIDE DEF s
  <2>3. s.inject = None /\ s.reinject = x.reinject /\ SameService(x.c, s.c) BY <2>1, <2>2 DEF Kept, Quiet
  <2>4. ServiceIs(s.c, s.inject) BY <2>3 DEF ServiceIs, SameService
  <2>5. TookOne(x, s) BY <2>1, <2>2, <2>3, <2>4 DEF TookOne, Kept
  <2>. QED BY <2>5 DEF s
<1>5. CASE ~timerFirst /\ own # {}
  <2>. DEFINE w == Highest(own)
              c == [x.c EXCEPT !.self = @ \ own]
              d == TakeVector(c, w)
  <2>1. s = take(w, d) BY <1>5 DEF TakeOne
  <2>2. PICK u \in own : TRUE BY <1>5
  <2>3. own \subseteq Vectors BY <1>0 DEF SelfPending, ChipOk
  <2>4. w \in Vectors BY <1>5, <2>3, HighestIn
  <2>. HIDE DEF s, own, w
  <2>5. ChipOk(c) /\ SameService(x.c, c) /\ (Raised(x.c) => Raised(c))
    BY <1>0 DEF ChipOk, ChipFields, SameService, Raised
  <2>. HIDE DEF c
  <2>6. ServiceIs(c, None) BY <2>5 DEF ServiceIs, SameService
  <2>7. ChipOk(d) /\ (Raised(c) => Raised(d)) /\ ServiceIs(d, w) BY <2>4, <2>5, <2>6, TakeVectorDoes
  <2>8. w \in Taken BY <2>4 DEF Taken
  <2>. HIDE DEF d
  <2>9. TookOne(x, take(w, d)) BY <1>1, <2>5, <2>7, <2>8
  <2>. QED BY <2>1, <2>9 DEF s
<1>6. CASE ~timerFirst /\ own = {} /\ usePic
  <2>1. s = take(PicVector(PicPending(x.c)), PicTake(x.c, Mounted)) BY <1>6 DEF TakeOne
  <2>2. PicPending(x.c) # None BY <1>6
  <2>. QED BY <2>1, <2>2, <1>0, <1>1, PicTakeDoes
<1>7. CASE ~timerFirst /\ own = {} /\ ~usePic
  <2>1. s = take(top, TakeVector(x.c, top)) BY <1>7 DEF TakeOne
  <2>2. x.c.irr # {} /\ x.c.irr \subseteq Vectors BY <1>0, <1>7 DEF ChipOk
  <2>3. top \in Vectors BY <2>2, HighestIn
  <2>. QED BY <2>1, <2>3, <1>2
<1>. QED BY <1>3, <1>4, <1>5, <1>6, <1>7
\* What the way back to the guest does to the host x, where IF is iflag: the vector an
\* exit interrupted comes first, a vector is taken only where IF is set.
Entered(x, iflag) ==
    /\ Heard(x, h') /\ Calm(x, h') /\ h'.reinject = None
    /\ h'.inject \in Taken \cup {None, x.reinject}
    /\ iflag = FALSE /\ x.reinject = None => h'.inject = None /\ SameService(x.c, h'.c)
    /\ iflag = TRUE => ServiceIs(h'.c, h'.inject)

\* try_inject_guest_irq.
LEMMA TryInjectDoes ==
    ASSUME NEW x0, NEW iflag \in BOOLEAN, HostOk(x0), x0.inject = None, TryInject(x0, iflag),
           iflag = TRUE => ServiceIs(x0.c, x0.reinject)
    PROVE  Entered(x0, iflag)
<1>1. CASE x0.reinject # None
  <2>1. h' = Enter([x0 EXCEPT !.reinject = None], x0.reinject) BY <1>1 DEF TryInject
  <2>2. /\ DOMAIN h' = HostFields /\ h'.c = x0.c /\ h'.isr = x0.isr /\ h'.notify = x0.notify
        /\ h'.arm = x0.arm /\ h'.pend = x0.pend /\ h'.inject = x0.reinject /\ h'.reinject = None
    BY <2>1 DEF HostOk, HostFields, Enter
  <2>3. HostOk(h') BY <2>2 DEF HostOk
  <2>4. Heard(x0, h') /\ Calm(x0, h') BY <2>2, <2>3 DEF Heard, Calm, Still
  <2>. QED BY <1>1, <2>2, <2>4 DEF Entered
<1>2. CASE x0.reinject = None
  <2>1. PICK paced \in BOOLEAN :
           LET x1         == BeforeInject(x0, paced)
               picReady   == PicPending(x1.c) # None
               timerFirst == TimerVector \in x1.c.irr
               picFirst   == picReady /\ ~cfg.apic /\ ~timerFirst
               x          == IF picFirst \/ timerFirst THEN x1 ELSE [x1 EXCEPT !.c = TakeIoapic(x1.c, cfg.apic)]
               lapic      == HasDeliverable(x.c)
           IN  h' = IF ~(lapic \/ timerFirst \/ picReady) THEN Idle(x)
                    ELSE IF ~iflag THEN Window(x)
                    ELSE TakeOne(x, timerFirst, picFirst \/ (picReady /\ ~lapic))
    BY <1>2, Zenon DEF TryInject
  <2>. DEFINE x1         == BeforeInject(x0, paced)
              picReady   == PicPending(x1.c) # None
              timerFirst == TimerVector \in x1.c.irr
              picFirst   == picReady /\ ~cfg.apic /\ ~timerFirst
              d          == TakeIoapic(x1.c, cfg.apic)
              t          == [x1 EXCEPT !.c = d]
              x          == IF picFirst \/ timerFirst THEN x1 ELSE t
              lapic      == HasDeliverable(x.c)
              usePic     == picFirst \/ (picReady /\ ~lapic)
  <2>2. h' = IF ~(lapic \/ timerFirst \/ picReady) THEN Idle(x)
             ELSE IF ~iflag THEN Window(x) ELSE TakeOne(x, timerFirst, usePic)
    BY <2>1
  <2>3. Kept(x0, x1) BY BeforeInjectKeeps
  <2>4. timerFirst \in BOOLEAN /\ usePic \in BOOLEAN OBVIOUS
  <2>5. lapic => x.c.irr # {} BY DEF HasDeliverable
  <2>6. picFirst => picReady OBVIOUS
  <2>7. picReady <=> PicPending(x1.c) # None OBVIOUS
  <2>8. usePic <=> picFirst \/ (picReady /\ ~lapic) OBVIOUS
  <2>. HIDE DEF x1
  <2>9. HostOk(x1) BY <2>3 DEF Kept, Heard
  <2>10. ChipKept(x1.c, d) /\ PicPending(d) = PicPending(x1.c) BY <2>9, TakeIoapicDoes DEF HostOk
  <2>. HIDE DEF d
  <2>11. Kept(x1, t) /\ t.c = d BY <2>9, <2>10, ChipsKept
  <2>12. Kept(x0, t) BY <2>3, <2>11, KeptTrans
  <2>13. Kept(x0, x) /\ PicPending(x.c) = PicPending(x1.c) BY <2>3, <2>10, <2>11, <2>12
  <2>. HIDE DEF x, t, timerFirst, usePic, lapic, picFirst, picReady
  <2>14. HostOk(x) /\ x.inject = None /\ x.reinject = None /\ SameService(x0.c, x.c)
    BY <1>2, <2>13 DEF Kept, Heard, Quiet
  <2>15. Kept(x, Idle(x)) /\ Kept(x, Window(x)) BY <2>14, WindowKeeps
  <2>16. CASE h' = Idle(x) \/ h' = Window(x)
    <3>1. Kept(x0, h') BY <2>13, <2>15, <2>16, KeptTrans
    <3>2. h'.inject = None /\ h'.reinject = None /\ SameService(x0.c, h'.c)
      BY <3>1, <1>2 DEF Kept, Quiet
    <3>3. iflag = TRUE => ServiceIs(h'.c, None) BY <1>2, <3>2 DEF ServiceIs, SameService
    <3>. QED BY <3>1, <3>2, <3>3, <1>2 DEF Entered, Kept
  <2>17. CASE (lapic \/ timerFirst \/ picReady) /\ iflag /\ h' = TakeOne(x, timerFirst, usePic)
    <3>1. usePic = TRUE => PicPending(x.c) # None BY <2>6, <2>7, <2>8, <2>13
    <3>2. timerFirst = FALSE /\ usePic = FALSE => x.c.irr # {} BY <2>17, <2>5, <2>8, <2>4
    <3>3. iflag = TRUE /\ iflag # FALSE BY <2>17
    <3>. QED
      <4>1. ServiceIs(x.c, None) BY <3>3, <1>2, <2>14 DEF ServiceIs, SameService
      <4>2. TookOne(x, TakeOne(x, timerFirst, usePic)) BY <2>4, <2>14, <3>1, <3>2, <4>1, TakeOneDoes
      <4>3. TookOne(x, h') BY <4>2, <2>17
      <4>4. Heard(x0, h') BY <4>3, <2>13, HeardTrans DEF TookOne, Kept
      <4>5. Calm(x0, h') BY <4>3, <2>13 DEF TookOne, Kept, Calm
      <4>. QED BY <4>3, <4>4, <4>5, <2>14, <1>2, <3>3 DEF TookOne, Entered
  <2>. QED BY <2>2, <2>16, <2>17
<1>. QED BY <1>1, <1>2

\* The end of an exit of host x: nothing waits any more, and where a handler runs no
\* block function's latch is set that was not.
Resumed(x, iflag) ==
    /\ Heard(x, h') /\ Still(h') /\ h'.reinject = None
    /\ Still(x) /\ g.pc # "run" => h'.isr \cap Blk \subseteq x.isr
    /\ h'.inject \in Taken \cup {None, x.reinject}
    /\ iflag = FALSE /\ x.reinject = None => h'.inject = None /\ SameService(x.c, h'.c)
    /\ iflag = TRUE => ServiceIs(h'.c, h'.inject)

\* The end of every exit: drain, stall dump, injection.
LEMMA ResumeDoes ==
    ASSUME NEW x, NEW iflag \in BOOLEAN, HostOk(x), x.inject = None, Resume(x, iflag),
           iflag = TRUE => ServiceIs(x.c, x.reinject)
    PROVE  Resumed(x, iflag)
<1>1. PICK quiet \in {FALSE, g.pc = "run"}, paced \in {FALSE, h.dumped} :
         TryInject(StallDump(Drain(x), quiet, paced), iflag)
  BY Zenon DEF Resume
<1>2. quiet \in BOOLEAN /\ (g.pc # "run" => quiet = FALSE) OBVIOUS
<1>. DEFINE d == Drain(x)
            p == IF paced THEN TRUE ELSE FALSE
            z == StallDump(d, quiet, p)
<1>3. z = StallDump(d, quiet, paced) BY Zenon DEF StallDump, PitDuringApk
<1>4. p \in BOOLEAN OBVIOUS
<1>5. Kept(x, d) /\ Still(d) BY DrainDoes
<1>. HIDE DEF d, p
<1>6. Heard(d, z) /\ Quiet(d, z) /\ (Still(d) => Still(z)) /\ (quiet = FALSE => Calm(d, z))
  BY <1>2, <1>4, <1>5, StallDumpDoes DEF Kept, Heard
<1>7. TryInject(z, iflag) BY <1>1, <1>3 DEF d
<1>. HIDE DEF z
<1>8. Heard(x, z) /\ Quiet(x, z) BY <1>5, <1>6, HeardTrans, QuietTrans DEF Kept
<1>9. HostOk(z) /\ z.inject = None /\ z.reinject = x.reinject /\ SameService(x.c, z.c)
  BY <1>8 DEF Heard, Quiet
<1>10. iflag = TRUE => ServiceIs(z.c, z.reinject) BY <1>9 DEF ServiceIs, SameService
<1>11. Entered(z, iflag) BY <1>7, <1>9, <1>10, TryInjectDoes
<1>12. Heard(x, h') BY <1>8, <1>11, HeardTrans DEF Entered
<1>13. Still(z) BY <1>5, <1>6
<1>14. Still(h') /\ h'.isr \cap Blk \subseteq z.isr BY <1>11, <1>13 DEF Entered, Calm
<1>15. Still(x) /\ g.pc # "run" => h'.isr \cap Blk \subseteq x.isr
  <2>1. SUFFICES ASSUME Still(x), g.pc # "run" PROVE h'.isr \cap Blk \subseteq x.isr OBVIOUS
  <2>2. z.isr \cap Blk \subseteq d.isr BY <2>1, <1>2, <1>5, <1>6 DEF Calm
  <2>3. d.isr \cap Blk \subseteq x.isr BY <2>1, <1>5 DEF Kept, Calm
  <2>. QED BY <2>2, <2>3, <1>14
<1>16. iflag = FALSE /\ x.reinject = None => SameService(x.c, h'.c)
  BY <1>9, <1>11 DEF Entered, SameService
<1>. QED BY <1>9, <1>11, <1>12, <1>14, <1>15, <1>16 DEF Entered, Resumed

\* What the start of an exit leaves: the host's state but for the vector under way.
Began(x, again) ==
    /\ Heard(h, x) /\ Calm(h, x) /\ SameService(h.c, x.c)
    /\ x.inject = None /\ x.reinject = again

\* The start of every exit.
LEMMA EntryDoes ==
    ASSUME NEW n, NEW again, HostOk(h)
    PROVE  Began(EntryWith(n, again), again)
<1>. DEFINE a == RaiseDeferred(h)
            b == PollRx(a, n)
            e == EntryWith(n, again)
<1>1. Kept(h, a) BY RaiseDeferredKeeps
<1>2. e = [b EXCEPT !.inject = None, !.reinject = again] BY DEF EntryWith
<1>. HIDE DEF a, e
<1>3. Kept(a, b) BY <1>1, PollRxKeeps DEF Kept, Heard
<1>. HIDE DEF b
<1>4. Kept(h, b) BY <1>1, <1>3, KeptTrans
<1>5. HostOk(b) BY <1>4 DEF Kept, Heard
<1>6. /\ DOMAIN e = HostFields /\ e.c = b.c /\ e.isr = b.isr /\ e.notify = b.notify
      /\ e.arm = b.arm /\ e.pend = b.pend /\ e.inject = None /\ e.reinject = again
  BY <1>2, <1>5 DEF HostOk, HostFields
<1>7. HostOk(e) BY <1>5, <1>6 DEF HostOk
<1>8. Heard(h, e) BY <1>4, <1>6, <1>7 DEF Kept, Heard
<1>9. Calm(h, e) BY <1>4, <1>6 DEF Kept, Calm, Still
<1>10. SameService(h.c, e.c) BY <1>4, <1>6 DEF Kept, Quiet
<1>. QED BY <1>6, <1>8, <1>9, <1>10 DEF Began, e

\* A step after the start of an exit.
LEMMA BeganKept ==
    ASSUME NEW x, NEW y, NEW again, Began(x, again), Kept(x, y)
    PROVE  Began(y, again)
<1>1. Heard(h, y) BY HeardTrans DEF Began, Kept
<1>2. Calm(h, y) BY DEF Began, Kept, Calm
<1>. QED BY <1>1, <1>2 DEF Began, Kept, Quiet, SameService

\* The timer's count elapses.
LEMMA ExpireKeeps ==
    ASSUME NEW x, NEW elapsed, HostOk(x)
    PROVE  Kept(x, Expire(x, elapsed))
<1>. DEFINE y == [x EXCEPT !.host = FALSE, !.running = FALSE, !.c.irr = @ \cup {TimerVector}]
            d == [x.c EXCEPT !.irr = @ \cup {TimerVector}]
<1>1. Expire(x, elapsed) = x \/ Expire(x, elapsed) = y BY Zenon DEF Expire
<1>2. /\ DOMAIN y = HostFields /\ y.c = d /\ y.isr = x.isr /\ y.notify = x.notify /\ y.arm = x.arm
      /\ y.pend = x.pend /\ y.inject = x.inject /\ y.reinject = x.reinject
  BY DEF HostOk, HostFields
<1>3. ChipKept(x.c, d)
  BY DEF HostOk, ChipOk, ChipKept, ChipFields, SameService, Raised, Vectors
<1>. HIDE DEF y, d
<1>4. HostOk(y) BY <1>2, <1>3 DEF HostOk, ChipKept
<1>5. Heard(x, y) BY <1>2, <1>3, <1>4 DEF Heard, ChipKept
<1>6. Calm(x, y) /\ Quiet(x, y) BY <1>2, <1>3 DEF Calm, Still, Quiet, ChipKept
<1>. QED BY <1>1, <1>5, <1>6, KeptSame DEF Kept

\* relatch_if_idle.
LEMMA RelatchKeeps ==
    ASSUME NEW x, NEW paced, HostOk(x)
    PROVE  Kept(x, Relatch(x, paced))
<1>. DEFINE d == [x.c EXCEPT !.irr = @ \cup {TimerVector}]
<1>1. Relatch(x, paced) = x \/ Relatch(x, paced) = [x EXCEPT !.c = d] BY Zenon DEF Relatch
<1>2. ChipKept(x.c, d)
  BY DEF HostOk, ChipOk, ChipKept, ChipFields, SameService, Raised, Vectors
<1>. QED BY <1>1, <1>2, ChipsKept, KeptSame

\* A one-shot timer is started.
LEMMA StartCountdownKeeps ==
    ASSUME NEW x, HostOk(x)
    PROVE  Kept(x, StartCountdown(x))
<1>. DEFINE y == StartCountdown(x)
<1>1. /\ DOMAIN y = HostFields /\ y.c = x.c /\ y.isr = x.isr /\ y.notify = x.notify /\ y.arm = x.arm
      /\ y.pend = x.pend /\ y.inject = x.inject /\ y.reinject = x.reinject
  BY DEF HostOk, HostFields, StartCountdown
<1>. HIDE DEF y
<1>2. HostOk(y) BY <1>1 DEF HostOk
<1>3. Kept(x, y) BY <1>1, <1>2 DEF Kept, Heard, Calm, Still, Quiet, SameService
<1>. QED BY <1>3 DEF y

\* A self-IPI.
LEMMA SelfIpiKeeps ==
    ASSUME NEW x, HostOk(x)
    PROVE  Kept(x, [x EXCEPT !.c = SelfIpi(x.c, SelfVector)])
<1>1. ChipKept(x.c, SelfIpi(x.c, SelfVector))
  BY DEF HostOk, ChipOk, ChipKept, ChipFields, SameService, Raised, Vectors, SelfIpi
<1>. QED BY <1>1, ChipsKept

\* A step that only changes the chips, and may end what is in service.
LEMMA ChipsHeard ==
    ASSUME NEW x, NEW d, HostOk(x), ChipOk(d), Raised(x.c) => Raised(d)
    PROVE  LET y == [x EXCEPT !.c = d]
           IN  Heard(x, y) /\ Calm(x, y) /\ y.c = d /\ y.inject = x.inject /\ y.reinject = x.reinject
<1>. DEFINE y == [x EXCEPT !.c = d]
<1>1. /\ DOMAIN y = HostFields /\ y.c = d /\ y.isr = x.isr /\ y.notify = x.notify /\ y.arm = x.arm
      /\ y.pend = x.pend /\ y.inject = x.inject /\ y.reinject = x.reinject
  BY DEF HostOk, HostFields
<1>. HIDE DEF y
<1>2. HostOk(y) BY <1>1 DEF HostOk
<1>3. Heard(x, y) /\ Calm(x, y) BY <1>1, <1>2 DEF Heard, Calm, Still
<1>. QED BY <1>1, <1>3 DEF y

\* What the exit of a timer tick does between its start and its end.
Ticking(x, preempt, elapsed, due) ==
    LET y == Relatch(Expire(x, elapsed), due)
        c == RaisePit(y.c)
        z == [y EXCEPT !.c = [c EXCEPT !.hold = Overlay /\ BothOk, !.once = c.once \/ preempt \/ Overlay]]
    IN  IF preempt THEN RaiseDeferred(z) ELSE z

\* tick_hpet_on_exit.
LEMMA TickingKeeps ==
    ASSUME NEW x, NEW preempt \in BOOLEAN, NEW elapsed, NEW due, HostOk(x)
    PROVE  Kept(x, Ticking(x, preempt, elapsed, due))
<1>. DEFINE w == Expire(x, elapsed)
            y == Relatch(w, due)
            c == RaisePit(y.c)
            a == Overlay /\ BothOk
            b == c.once \/ preempt \/ Overlay
            d == [c EXCEPT !.hold = a, !.once = b]
            z == [y EXCEPT !.c = d]
<1>1. Ticking(x, preempt, elapsed, due) = IF preempt THEN RaiseDeferred(z) ELSE z BY DEF Ticking
<1>2. Kept(x, w) BY ExpireKeeps
<1>. HIDE DEF w
<1>3. Kept(w, y) BY <1>2, RelatchKeeps DEF Kept, Heard
<1>. HIDE DEF y
<1>4. Kept(x, y) /\ HostOk(y) BY <1>2, <1>3, KeptTrans DEF Kept, Heard
<1>5. ChipKept(y.c, c) BY <1>4, RaisePitDoes DEF HostOk
<1>. HIDE DEF a, b, c
<1>6. ChipKept(c, d) BY <1>5, FlagsDo DEF ChipKept
<1>. HIDE DEF d
<1>7. ChipKept(y.c, d) BY <1>5, <1>6 DEF ChipKept, SameService
<1>8. Kept(y, z) BY <1>4, <1>7, ChipsKept
<1>. HIDE DEF z
<1>9. Kept(x, z) BY <1>4, <1>8, KeptTrans
<1>10. Kept(z, RaiseDeferred(z)) BY <1>8, RaiseDeferredKeeps DEF Kept, Heard
<1>11. Kept(x, RaiseDeferred(z)) BY <1>9, <1>10, KeptTrans
<1>. QED BY <1>1, <1>9, <1>11

\* What a notify write does between the start and the end of its exit.
Kicking(x, f, elapsed) == Drain([Expire(x, elapsed) EXCEPT !.notify = @ \cup {f}, !.dumped = FALSE])

\* A doorbell: every queue is drained at once.
LEMMA KickingDoes ==
    ASSUME NEW x, NEW f \in VirtioFn, NEW elapsed, HostOk(x)
    PROVE  Heard(x, Kicking(x, f, elapsed)) /\ Quiet(x, Kicking(x, f, elapsed))
<1>. DEFINE w == Expire(x, elapsed)
            y == [w EXCEPT !.notify = @ \cup {f}, !.dumped = FALSE]
            z == Drain(y)
<1>1. Kept(x, w) BY ExpireKeeps
<1>2. Kicking(x, f, elapsed) = z BY DEF Kicking
<1>. HIDE DEF w
<1>3. HostOk(w) BY <1>1 DEF Kept, Heard
<1>4. /\ DOMAIN y = HostFields /\ y.c = w.c /\ y.isr = w.isr /\ y.notify = w.notify \cup {f} /\ y.arm = w.arm
      /\ y.pend = w.pend /\ y.inject = w.inject /\ y.reinject = w.reinject
  BY <1>3 DEF HostOk, HostFields
<1>. HIDE DEF y
<1>5. HostOk(y) BY <1>3, <1>4 DEF HostOk
<1>6. Heard(w, y) /\ Quiet(w, y) BY <1>4, <1>5 DEF Heard, Quiet, SameService
<1>7. Kept(y, z) BY <1>5, DrainDoes
<1>. HIDE DEF z
<1>8. Heard(x, y) /\ Quiet(x, y) BY <1>1, <1>6, HeardTrans, QuietTrans DEF Kept
<1>9. Heard(x, z) /\ Quiet(x, z) BY <1>7, <1>8, HeardTrans, QuietTrans DEF Kept
<1>. QED BY <1>2, <1>9

\* mmio_read_dev of function f's ISR: it is cleared, and the line is lowered unless a
\* block function's latch is left.
LEMMA ReadIsrDoes ==
    ASSUME NEW x, NEW f \in VirtioFn, HostOk(x)
    PROVE  LET d == Drain(x)
               y == ReadIsr(x, f)
           IN  /\ HostOk(y) /\ Quiet(x, y) /\ Still(y) /\ y.isr = d.isr \ {f}
               /\ f # "net" /\ y.isr \cap Blk # {} => Raised(y.c)
<1>. DEFINE d == Drain(x)
            y == ReadIsr(x, f)
            e == [d EXCEPT !.isr = @ \ {f}]
            low == [e EXCEPT !.c = LowerVirtio(@)]
            raised == [e EXCEPT !.c = RaiseVirtio(@)]
<1>1. Kept(x, d) /\ Still(d) BY DrainDoes
<1>2. HostOk(d) BY <1>1 DEF Kept, Heard
<1>3. \/ f = "net" /\ f \notin d.isr /\ y = d
      \/ f = "net" /\ y = low
      \/ f # "net" /\ e.isr \cap Blk = {} /\ y = low
      \/ f # "net" /\ y = raised
  <2>1. CASE f = "net"
    <3>1. y = IF "net" \in d.isr THEN [d EXCEPT !.isr = @ \ {"net"}, !.c = LowerVirtio(@)] ELSE d
      BY <2>1 DEF ReadIsr, ReadIsrNet
    <3>2. [d EXCEPT !.isr = @ \ {"net"}, !.c = LowerVirtio(@)] = low BY <2>1, <1>2 DEF HostOk, HostFields
    <3>. QED BY <3>1, <3>2, <2>1
  <2>2. CASE f # "net"
    <3>1. y = IF e.isr \cap Blk # {} THEN Reassert(e) ELSE low BY <2>2 DEF ReadIsr, ReadIsrBlk
    <3>2. e.isr \cap Blk # {} => Reassert(e) = raised BY DEF Reassert
    <3>. QED BY <3>1, <3>2, <2>2
  <2>. QED BY <2>1, <2>2
<1>. HIDE DEF d, y
<1>4. \A z \in {e, low, raised} :
         /\ DOMAIN z = HostFields /\ z.isr = d.isr \ {f} /\ z.notify = d.notify /\ z.arm = d.arm
         /\ z.pend = d.pend /\ z.inject = d.inject /\ z.reinject = d.reinject
  BY <1>2 DEF HostOk, HostFields
<1>5. e.c = d.c /\ low.c = LowerVirtio(d.c) /\ raised.c = RaiseVirtio(d.c)
  BY <1>2 DEF HostOk, HostFields
<1>. HIDE DEF e, low, raised
<1>6. ChipOk(low.c) /\ SameService(d.c, low.c) BY <1>2, <1>5, LowerVirtioDoes DEF HostOk
<1>7. ChipOk(raised.c) /\ SameService(d.c, raised.c) /\ Raised(raised.c)
  BY <1>2, <1>5, RaiseVirtioDoes DEF HostOk, ChipKept
<1>8. HostOk(low) /\ Still(low) /\ Quiet(d, low) /\ HostOk(raised) /\ Still(raised) /\ Quiet(d, raised)
  BY <1>1, <1>2, <1>4, <1>6, <1>7 DEF HostOk, Still, Quiet
<1>9. Quiet(x, d) BY <1>1 DEF Kept
<1>10. Quiet(x, low) /\ Quiet(x, raised) BY <1>8, <1>9, QuietTrans
<1>11. HostOk(y) /\ Quiet(x, y) /\ Still(y) /\ y.isr = d.isr \ {f}
  <2>1. CASE y = d /\ f \notin d.isr BY <2>1, <1>1, <1>2, <1>9
  <2>2. CASE y = low BY <2>2, <1>4, <1>8, <1>10
  <2>3. CASE y = raised BY <2>3, <1>4, <1>8, <1>10
  <2>. QED BY <1>3, <2>1, <2>2, <2>3
<1>12. f # "net" /\ y.isr \cap Blk # {} => Raised(y.c)
  <2>1. e.isr = y.isr BY <1>4, <1>11
  <2>. QED BY <2>1, <1>3, <1>7
<1>. QED BY <1>11, <1>12 DEF d, y

-----------------------------------------------------------------------------
(* The exits, one by one *)

Pcs == {"run", "mask", "eoi slave", "eoi master", "poll", "harvest", "unmask", "eoi"}

\* Where the guest's CPU is and which vector brought it there.
GuestPart ==
    /\ DOMAIN g = {"pc", "vec", "todo"}
    /\ g.pc \in Pcs /\ g.vec \in Taken \cup {None} /\ h.inject \in Taken \cup {None}
    /\ g.todo \in Seq(VirtioFn)
    /\ g.pc = "run" => g.vec = None
    /\ h.inject # None => g.pc = "run"
    /\ g.pc \in {"mask", "eoi slave", "eoi master", "unmask"} => IsPic(g.vec)
    /\ g.pc \in {"eoi slave", "poll", "harvest"} => IsVirtio(g.vec)
    /\ g.pc = "eoi" => g.vec \in Vectors
    /\ g.pc = "harvest" => g.todo # << >>
    /\ g.pc \in {"run", "unmask", "eoi"} \/ ~IsVirtio(g.vec) => g.todo = << >>

\* No request waits where an interrupt is under way: every exit drained the queues, and
\* the driver has not run since.
HostPart ==
    /\ cfg \in Configs /\ HostOk(h) /\ h.reinject = None
    /\ h.inject # None \/ g.pc # "run" => Still(h)

IoInv == HostPart /\ GuestPart /\ InServiceIsHandled

\* An exit of the guest's own code, or of a delivery to it.
RunExit ==
    /\ g.pc = "run" /\ g' = g /\ cfg' = cfg
    /\ Heard(h, h') /\ Still(h') /\ h'.reinject = None
    /\ h'.inject \in Taken \cup {None} /\ ServiceIs(h'.c, h'.inject)

\* Where the guest runs its own code, what is in service is what is injected.
LEMMA RunService ==
    ASSUME IoInv, g.pc = "run"
    PROVE  ServiceIs(h.c, h.inject)
<1>1. g.vec = None BY DEF IoInv, GuestPart
<1>2. h.c.misr \subseteq {PIT_IRQ, PIC_SLAVE_IRQ} BY DEF IoInv, HostPart, HostOk, ChipOk
<1>3. CASE h.inject = None BY <1>1, <1>3 DEF IoInv, InServiceIsHandled, ServiceIs
<1>4. CASE h.inject # None BY <1>1, <1>4 DEF IoInv, InServiceIsHandled, ServiceIs
<1>. QED BY <1>3, <1>4

\* The end of an exit that begins with x and hands y on.
LEMMA RunExitDoes ==
    ASSUME NEW x, NEW y, IoInv, g.pc = "run", g' = g, cfg' = cfg, Began(x, h.inject),
           Heard(x, y), Quiet(x, y), Resume(y, TRUE)
    PROVE  RunExit
<1>1. HostOk(y) /\ y.inject = None /\ y.reinject = h.inject /\ SameService(h.c, y.c)
  BY DEF Began, Heard, Quiet, SameService
<1>2. ServiceIs(y.c, y.reinject) BY <1>1, RunService DEF ServiceIs, SameService
<1>3. Resumed(y, TRUE) BY <1>1, <1>2, ResumeDoes
<1>4. Heard(h, y) BY HeardTrans DEF Began
<1>5. Heard(h, h') BY <1>3, <1>4, HeardTrans DEF Resumed
<1>6. h'.inject \in Taken \cup {None} BY <1>1, <1>3 DEF Resumed, IoInv, GuestPart
<1>. QED BY <1>3, <1>5, <1>6 DEF RunExit, Resumed

\* An exit of an interrupt handler.
HandlerExit ==
    /\ g.pc # "run" /\ h.inject = None /\ cfg' = cfg
    /\ Heard(h, h') /\ Still(h') /\ h'.reinject = None /\ h'.inject = None
    /\ h'.isr \cap Blk \subseteq h.isr

\* The end of such an exit that begins with x and hands y on.
LEMMA HandlerExitDoes ==
    ASSUME NEW x, NEW y, IoInv, g.pc # "run", h.inject = None, cfg' = cfg, Began(x, None),
           Heard(x, y), Calm(x, y), y.inject = x.inject, y.reinject = x.reinject, Resume(y, FALSE)
    PROVE  HandlerExit /\ SameService(y.c, h'.c)
<1>1. HostOk(y) /\ y.inject = None /\ y.reinject = None BY DEF Began, Heard
<1>2. Resumed(y, FALSE) BY <1>1, ResumeDoes
<1>3. Heard(h, y) BY HeardTrans DEF Began
<1>4. Heard(h, h') BY <1>2, <1>3, HeardTrans DEF Resumed
<1>5. Still(h) BY DEF IoInv, HostPart
<1>6. Still(y) /\ y.isr \cap Blk \subseteq h.isr BY <1>5 DEF Began, Calm
<1>7. h'.isr \cap Blk \subseteq h.isr BY <1>2, <1>6 DEF Resumed
<1>. QED BY <1>1, <1>2, <1>4, <1>7 DEF HandlerExit, Resumed

\* The same for a step between start and end that leaves the service registers alone.
LEMMA HandlerKeeps ==
    ASSUME NEW x, NEW y, IoInv, g.pc # "run", h.inject = None, cfg' = cfg, Began(x, None),
           Kept(x, y), Resume(y, FALSE)
    PROVE  HandlerExit /\ SameService(h.c, h'.c)
<1>1. HandlerExit /\ SameService(y.c, h'.c) BY HandlerExitDoes DEF Kept, Quiet
<1>. QED BY <1>1 DEF Began, Kept, Quiet, SameService

Ticked == HandlerExit /\ g' = g /\ SameService(h.c, h'.c)

\* A notify write.
LEMMA KickDoes ==
    ASSUME NEW f \in VirtioFn, IoInv, Kick(f)
    PROVE  RunExit
<1>1. PICK elapsed \in BOOLEAN, n \in Frames :
         \E x \in {EntryWith(n, None)} : Resume(Kicking(x, f, elapsed), TRUE)
  BY Zenon DEF Kick, Exit, Kicking
<1>2. g.pc = "run" /\ h.inject = None /\ g' = g /\ cfg' = cfg BY DEF Kick, Running
<1>. DEFINE x == EntryWith(n, None)
<1>3. Resume(Kicking(x, f, elapsed), TRUE) BY <1>1
<1>4. Began(x, None) BY EntryDoes DEF IoInv, HostPart
<1>. HIDE DEF x
<1>5. Heard(x, Kicking(x, f, elapsed)) /\ Quiet(x, Kicking(x, f, elapsed))
  BY <1>4, KickingDoes DEF Began, Heard
<1>. QED BY <1>2, <1>3, <1>4, <1>5, RunExitDoes

\* The preemption timer or HLT.
LEMMA TickDoes ==
    ASSUME NEW preempt \in BOOLEAN, IoInv, Tick(preempt)
    PROVE  RunExit \/ Ticked
<1>. DEFINE b == g.pc = "run"
<1>1. PICK elapsed \in BOOLEAN, due \in BOOLEAN, n \in Frames :
         \E x \in {EntryWith(n, None)} : Resume(Ticking(x, preempt, elapsed, due), b)
  BY Zenon DEF Tick, Exit, Ticking
<1>2. h.inject = None /\ g' = g /\ cfg' = cfg BY DEF Tick, Running, InHandler
<1>3. b \in BOOLEAN /\ (b = TRUE <=> g.pc = "run") /\ (b = FALSE <=> g.pc # "run") OBVIOUS
<1>. DEFINE x == EntryWith(n, None)
            y == Ticking(x, preempt, elapsed, due)
<1>4. Resume(y, b) BY <1>1
<1>5. Began(x, None) BY EntryDoes DEF IoInv, HostPart
<1>. HIDE DEF x, b
<1>6. Kept(x, y) BY <1>5, TickingKeeps DEF Began, Heard
<1>. HIDE DEF y
<1>7. CASE b = TRUE
  <2>1. Resume(y, TRUE) BY <1>4, <1>7
  <2>. QED BY <1>2, <1>3, <1>5, <1>6, <1>7, <2>1, RunExitDoes DEF Kept
<1>8. CASE b = FALSE
  <2>1. Resume(y, FALSE) BY <1>4, <1>8
  <2>. QED BY <1>2, <1>3, <1>5, <1>6, <1>8, <2>1, HandlerKeeps DEF Ticked
<1>. QED BY <1>3, <1>7, <1>8

\* The window opens, or a delivery is interrupted, or the guest programs its local APIC.
LEMMA OtherRunExits ==
    ASSUME IoInv, WindowExit \/ DeliveryExit \/ ArmTimer \/ SendSelf
    PROVE  RunExit
<1>0. HostOk(h) /\ (h.inject # None => g.pc = "run") BY DEF IoInv, HostPart, GuestPart
<1>1. CASE WindowExit
  <2>1. PICK n \in Frames : \E x \in {EntryWith(n, None)} : Resume(x, TRUE) BY <1>1, Zenon DEF WindowExit, Exit
  <2>2. g.pc = "run" /\ h.inject = None /\ g' = g /\ cfg' = cfg BY <1>1 DEF WindowExit
  <2>. DEFINE x == EntryWith(n, None)
  <2>3. Resume(x, TRUE) /\ Began(x, None) BY <1>0, <2>1, EntryDoes
  <2>. HIDE DEF x
  <2>4. Kept(x, x) BY <2>3, KeptSame DEF Began, Heard
  <2>. QED BY <2>2, <2>3, <2>4, RunExitDoes DEF Kept
<1>2. CASE DeliveryExit
  <2>1. PICK n \in Frames : Resume(EntryWith(n, h.inject), TRUE) BY <1>2 DEF DeliveryExit
  <2>2. g.pc = "run" /\ g' = g /\ cfg' = cfg BY <1>0, <1>2 DEF DeliveryExit
  <2>. DEFINE x == EntryWith(n, h.inject)
  <2>3. Resume(x, TRUE) /\ Began(x, h.inject) BY <1>0, <2>1, EntryDoes
  <2>. HIDE DEF x
  <2>4. Kept(x, x) BY <2>3, KeptSame DEF Began, Heard
  <2>. QED BY <2>2, <2>3, <2>4, RunExitDoes DEF Kept
<1>3. CASE ArmTimer
  <2>1. PICK n \in Frames : \E x \in {EntryWith(n, None)} : Resume(StartCountdown(x), TRUE)
    BY <1>3, Zenon DEF ArmTimer, Exit
  <2>2. g.pc = "run" /\ h.inject = None /\ g' = g /\ cfg' = cfg BY <1>3 DEF ArmTimer, Running
  <2>. DEFINE x == EntryWith(n, None)
  <2>3. Resume(StartCountdown(x), TRUE) /\ Began(x, None) BY <1>0, <2>1, EntryDoes
  <2>. HIDE DEF x
  <2>4. Kept(x, StartCountdown(x)) BY <2>3, StartCountdownKeeps DEF Began, Heard
  <2>. QED BY <2>2, <2>3, <2>4, RunExitDoes DEF Kept
<1>4. CASE SendSelf
  <2>1. PICK n \in Frames :
          \E x \in {EntryWith(n, None)} : Resume([x EXCEPT !.c = SelfIpi(x.c, SelfVector)], TRUE)
    BY <1>4, Zenon DEF SendSelf, Exit
  <2>2. g.pc = "run" /\ h.inject = None /\ g' = g /\ cfg' = cfg BY <1>4 DEF SendSelf, Running
  <2>. DEFINE x == EntryWith(n, None)
              y == [x EXCEPT !.c = SelfIpi(x.c, SelfVector)]
  <2>3. Resume(y, TRUE) /\ Began(x, None) BY <1>0, <2>1, EntryDoes
  <2>. HIDE DEF x
  <2>4. Kept(x, y) BY <2>3, SelfIpiKeeps DEF Began, Heard
  <2>. HIDE DEF y
  <2>. QED BY <2>2, <2>3, <2>4, RunExitDoes DEF Kept
<1>. QED BY <1>1, <1>2, <1>3, <1>4

\* The handler goes on at pc.
At(pc) == DOMAIN g' = {"pc", "vec", "todo"} /\ g'.pc = pc /\ g'.vec = g.vec /\ g'.todo = g.todo

Returned == DOMAIN g' = {"pc", "vec", "todo"} /\ g'.pc = "run" /\ g'.vec = None /\ g'.todo = << >>

Masked ==
    /\ HandlerExit /\ g.pc = "mask" /\ SameService(h.c, h'.c)
    /\ IF IsVirtio(g.vec) THEN At("eoi slave") ELSE At("eoi master")

SlaveEnded ==
    /\ HandlerExit /\ g.pc = "eoi slave" /\ At("eoi master")
    /\ h'.c.sisr = {} /\ h'.c.misr = h.c.misr /\ h'.c.isr = h.c.isr

MasterEnded ==
    /\ HandlerExit /\ g.pc = "eoi master" /\ IF IsVirtio(g.vec) THEN At("poll") ELSE At("unmask")
    /\ h'.c.misr = h.c.misr \ {IF IsVirtio(g.vec) THEN PIC_SLAVE_IRQ ELSE PIT_IRQ}
    /\ h'.c.sisr = h.c.sisr /\ h'.c.isr = h.c.isr

Unmasked == HandlerExit /\ g.pc = "unmask" /\ Returned /\ SameService(h.c, h'.c)

Ended ==
    /\ HandlerExit /\ g.pc = "eoi" /\ Returned
    /\ h'.c.isr = {} /\ h'.c.misr = h.c.misr /\ h'.c.sisr = h.c.sisr

\* The 8259's registers: mask, specific EOIs, unmask.
LEMMA PicHandlers ==
    ASSUME IoInv, PicMask \/ PicEoiSlave \/ PicEoiMaster \/ PicUnmask
    PROVE  Masked \/ SlaveEnded \/ MasterEnded \/ Unmasked
<1>0. HostOk(h) /\ DOMAIN g = {"pc", "vec", "todo"} BY DEF IoInv, HostPart, GuestPart
<1>1. ASSUME NEW x, NEW e, HostOk(x)
      PROVE  Kept(x, [x EXCEPT !.c.simr = e]) /\ Kept(x, [x EXCEPT !.c.mimr = e])
  <2>1. ChipKept(x.c, [x.c EXCEPT !.simr = e]) /\ ChipKept(x.c, [x.c EXCEPT !.mimr = e])
    BY <1>1 DEF HostOk, ChipOk, ChipKept, ChipFields, SameService, Raised
  <2>. QED BY <1>1, <2>1, ChipsKept
<1>2. ASSUME NEW x, NEW y, Began(x, None), HostOk(x) => Kept(x, y), Resume(y, FALSE), InHandler, cfg' = cfg
      PROVE  HandlerExit /\ SameService(h.c, h'.c)
  BY <1>2, HandlerKeeps DEF Began, Heard, InHandler
<1>3. CASE PicMask
  <2>. DEFINE M(x) == IF IsVirtio(g.vec) THEN [x EXCEPT !.c.simr = {VIRTIO_PIC_IRQ}]
                                        ELSE [x EXCEPT !.c.mimr = {PIT_IRQ}]
  <2>1. PICK n \in Frames : \E x \in {EntryWith(n, None)} : Resume(M(x), FALSE) BY <1>3, Zenon DEF PicMask, Exit
  <2>. DEFINE x == EntryWith(n, None)
  <2>2. Resume(M(x), FALSE) /\ Began(x, None) BY <1>0, <2>1, EntryDoes
  <2>. HIDE DEF x
  <2>3. HostOk(x) => Kept(x, M(x)) BY <1>1
  <2>4. InHandler /\ g.pc = "mask" /\ cfg' = cfg
          /\ g' = [g EXCEPT !.pc = IF IsVirtio(g.vec) THEN "eoi slave" ELSE "eoi master"]
    BY <1>3 DEF PicMask, Goto
  <2>. HIDE DEF M
  <2>5. HandlerExit /\ SameService(h.c, h'.c) BY <1>2, <2>2, <2>3, <2>4
  <2>6. IF IsVirtio(g.vec) THEN At("eoi slave") ELSE At("eoi master") BY <1>0, <2>4 DEF At
  <2>. QED BY <2>4, <2>5, <2>6 DEF Masked
<1>4. CASE PicUnmask
  <2>. DEFINE M(x) == IF IsVirtio(g.vec) THEN [x EXCEPT !.c.simr = {}] ELSE [x EXCEPT !.c.mimr = {}]
  <2>1. PICK n \in Frames : \E x \in {EntryWith(n, None)} : Resume(M(x), FALSE) BY <1>4, Zenon DEF PicUnmask, Exit
  <2>. DEFINE x == EntryWith(n, None)
  <2>2. Resume(M(x), FALSE) /\ Began(x, None) BY <1>0, <2>1, EntryDoes
  <2>. HIDE DEF x
  <2>3. HostOk(x) => Kept(x, M(x)) BY <1>1
  <2>4. InHandler /\ g.pc = "unmask" /\ cfg' = cfg /\ Returned BY <1>4 DEF PicUnmask, Return, Returned
  <2>. HIDE DEF M
  <2>5. HandlerExit /\ SameService(h.c, h'.c) BY <1>2, <2>2, <2>3, <2>4
  <2>. QED BY <2>4, <2>5 DEF Unmasked
<1>5. CASE PicEoiSlave
  <2>1. PICK n \in Frames :
          \E x \in {EntryWith(n, None)} :
             Resume([x EXCEPT !.c.sisr = x.c.sisr \ EoiBit(x.c.sisr, VIRTIO_PIC_IRQ)], FALSE)
    BY <1>5, Zenon DEF PicEoiSlave, Exit
  <2>. DEFINE x == EntryWith(n, None)
              d == [x.c EXCEPT !.sisr = x.c.sisr \ EoiBit(x.c.sisr, VIRTIO_PIC_IRQ)]
              y == [x EXCEPT !.c = d]
  <2>2. Resume([x EXCEPT !.c.sisr = x.c.sisr \ EoiBit(x.c.sisr, VIRTIO_PIC_IRQ)], FALSE) /\ Began(x, None)
    BY <1>0, <2>1, EntryDoes
  <2>. HIDE DEF x
  <2>3. HostOk(x) /\ ChipOk(x.c) /\ SameService(h.c, x.c) BY <2>2 DEF Began, Heard, HostOk
  <2>4. Resume(y, FALSE) BY <2>2
  <2>5. EoiBit(x.c.sisr, VIRTIO_PIC_IRQ) = x.c.sisr \cap {VIRTIO_PIC_IRQ} BY DEF EoiBit, None, VIRTIO_PIC_IRQ
  <2>6. ChipOk(d) /\ (Raised(x.c) => Raised(d)) /\ d.sisr = {} /\ d.misr = x.c.misr /\ d.isr = x.c.isr
    BY <2>3, <2>5 DEF ChipOk, ChipFields, Raised
  <2>. HIDE DEF d
  <2>7. Heard(x, y) /\ Calm(x, y) /\ y.c = d /\ y.inject = x.inject /\ y.reinject = x.reinject
    BY <2>3, <2>6, ChipsHeard
  <2>. HIDE DEF y
  <2>8. InHandler /\ g.pc = "eoi slave" /\ cfg' = cfg /\ g' = [g EXCEPT !.pc = "eoi master"]
    BY <1>5 DEF PicEoiSlave, Goto
  <2>9. HandlerExit /\ SameService(y.c, h'.c)
    BY <2>2, <2>4, <2>7, <2>8, HandlerExitDoes DEF InHandler
  <2>10. At("eoi master") BY <1>0, <2>8 DEF At
  <2>. QED BY <2>3, <2>6, <2>7, <2>8, <2>9, <2>10 DEF SlaveEnded, SameService
<1>6. CASE PicEoiMaster
  <2>. DEFINE n0 == IF IsVirtio(g.vec) THEN PIC_SLAVE_IRQ ELSE PIT_IRQ
  <2>1. PICK n \in Frames :
          \E x \in {EntryWith(n, None)} : Resume([x EXCEPT !.c.misr = x.c.misr \ EoiBit(x.c.misr, n0)], FALSE)
    BY <1>6, Zenon DEF PicEoiMaster, Exit
  <2>. DEFINE x == EntryWith(n, None)
              d == [x.c EXCEPT !.misr = x.c.misr \ EoiBit(x.c.misr, n0)]
              y == [x EXCEPT !.c = d]
  <2>2. Resume([x EXCEPT !.c.misr = x.c.misr \ EoiBit(x.c.misr, n0)], FALSE) /\ Began(x, None)
    BY <1>0, <2>1, EntryDoes
  <2>. HIDE DEF x
  <2>3. HostOk(x) /\ ChipOk(x.c) /\ SameService(h.c, x.c) BY <2>2 DEF Began, Heard, HostOk
  <2>4. Resume(y, FALSE) BY <2>2
  <2>5. EoiBit(x.c.misr, n0) = x.c.misr \cap {n0} BY DEF EoiBit, None, PIC_SLAVE_IRQ, PIT_IRQ
  <2>. HIDE DEF n0
  <2>6. ChipOk(d) /\ (Raised(x.c) => Raised(d)) /\ d.misr = x.c.misr \ {n0} /\ d.sisr = x.c.sisr /\ d.isr = x.c.isr
    BY <2>3, <2>5 DEF ChipOk, ChipFields, Raised
  <2>. HIDE DEF d
  <2>7. Heard(x, y) /\ Calm(x, y) /\ y.c = d /\ y.inject = x.inject /\ y.reinject = x.reinject
    BY <2>3, <2>6, ChipsHeard
  <2>. HIDE DEF y
  <2>8. InHandler /\ g.pc = "eoi master" /\ cfg' = cfg
          /\ g' = [g EXCEPT !.pc = IF IsVirtio(g.vec) THEN "poll" ELSE "unmask"]
    BY <1>6 DEF PicEoiMaster, Goto
  <2>9. HandlerExit /\ SameService(y.c, h'.c)
    BY <2>2, <2>4, <2>7, <2>8, HandlerExitDoes DEF InHandler
  <2>10. IF IsVirtio(g.vec) THEN At("poll") ELSE At("unmask") BY <1>0, <2>8 DEF At
  <2>11. h'.c.misr = h.c.misr \ {n0} /\ h'.c.sisr = h.c.sisr /\ h'.c.isr = h.c.isr
    BY <2>3, <2>6, <2>7, <2>9 DEF SameService
  <2>. QED BY <2>8, <2>9, <2>10, <2>11 DEF MasterEnded, n0
<1>. QED BY <1>3, <1>4, <1>5, <1>6

\* xAPIC EOI: at most one vector is in service, and it ends.
LEMMA ApicEoiDoes ==
    ASSUME IoInv, ApicEoi
    PROVE  Ended
<1>0. HostOk(h) /\ h.c.isr \subseteq {g.vec}
  BY DEF IoInv, HostPart, InServiceIsHandled, ApicEoi, InHandler
<1>1. PICK n \in Frames : \E x \in {EntryWith(n, None)} : Resume([x EXCEPT !.c = LapicEoi(x.c)], FALSE)
  BY Zenon DEF ApicEoi, Exit
<1>. DEFINE x == EntryWith(n, None)
            d == LapicEoi(x.c)
            y == [x EXCEPT !.c = d]
<1>2. Resume(y, FALSE) /\ Began(x, None) BY <1>0, <1>1, EntryDoes
<1>. HIDE DEF x
<1>3. HostOk(x) /\ ChipOk(x.c) /\ SameService(h.c, x.c) BY <1>2 DEF Began, Heard, HostOk
<1>4. x.c.isr \subseteq {g.vec} /\ x.c.isr \subseteq Vectors BY <1>0, <1>3 DEF SameService, ChipOk
<1>5. ChipOk(d) /\ (Raised(x.c) => Raised(d)) /\ d.isr = {} /\ d.misr = x.c.misr /\ d.sisr = x.c.sisr
  <2>1. CASE x.c.isr = {} BY <1>3, <2>1 DEF LapicEoi
  <2>2. CASE x.c.isr # {}
    <3>. DEFINE v == Highest(x.c.isr)
                R == {p \in x.c.remote : PinVector(p) # v}
    <3>1. v \in x.c.isr BY <1>4, <2>2, HighestIn
    <3>2. d = [x.c EXCEPT !.isr = x.c.isr \ {v}, !.remote = R] BY <2>2 DEF LapicEoi
    <3>. HIDE DEF v, R, d
    <3>3. x.c.isr \ {v} = {} BY <3>1, <1>4
    <3>4. DOMAIN d = ChipFields /\ d.isr = {} /\ d.misr = x.c.misr /\ d.sisr = x.c.sisr /\ d.mirr = x.c.mirr
            /\ d.sirr = x.c.sirr /\ d.irr = x.c.irr /\ d.pins = x.c.pins
      BY <3>2, <3>3, <1>3 DEF ChipOk, ChipFields
    <3>. QED BY <3>4, <1>3 DEF ChipOk, Raised
  <2>. QED BY <2>1, <2>2
<1>. HIDE DEF d
<1>6. Heard(x, y) /\ Calm(x, y) /\ y.c = d /\ y.inject = x.inject /\ y.reinject = x.reinject
  BY <1>3, <1>5, ChipsHeard
<1>. HIDE DEF y
<1>7. InHandler /\ g.pc = "eoi" /\ cfg' = cfg /\ Returned BY DEF ApicEoi, Return, Returned
<1>8. HandlerExit /\ SameService(y.c, h'.c) BY <1>2, <1>6, <1>7, HandlerExitDoes DEF InHandler
<1>. QED BY <1>3, <1>5, <1>6, <1>7, <1>8 DEF Ended, SameService
\* The handler of one function read its ISR.  A latch that is still set is heard, or it
\* is another's: after a block function's read only the network function's.
Polled ==
    /\ g.pc = "poll" /\ h.inject = None /\ g.todo # << >> /\ cfg' = cfg
    /\ HostOk(h') /\ Still(h') /\ h'.reinject = None /\ h'.inject = None /\ SameService(h.c, h'.c)
    /\ DOMAIN g' = {"pc", "vec", "todo"} /\ g'.vec = g.vec
    /\ \/ g'.pc = "harvest" /\ g'.todo = g.todo
       \/ g'.pc = "poll" /\ g'.todo = Tail(g.todo)
    /\ h'.isr \cap Blk \subseteq h.isr \ {Head(g.todo)}
    /\ \A f \in h'.isr : \/ Raised(h'.c) \/ h'.arm = TRUE
                         \/ f # Head(g.todo) /\ (Head(g.todo) # "net" => f \notin Blk)

\* The read of an ISR, with the drain before and the resume after it.
LEMMA PollIsrDoes ==
    ASSUME IoInv, PollIsr
    PROVE  Polled
<1>0. HostOk(h) /\ DOMAIN g = {"pc", "vec", "todo"} /\ g.todo \in Seq(VirtioFn)
  BY DEF IoInv, HostPart, GuestPart
<1>1. g.pc = "poll" /\ h.inject = None /\ g.todo # << >> /\ cfg' = cfg BY DEF PollIsr, InHandler
<1>. DEFINE f == Head(g.todo)
<1>2. PICK n \in Frames, elapsed \in BOOLEAN : \E x \in {Expire(EntryWith(n, None), elapsed)} :
         /\ Resume(ReadIsr(x, f), FALSE)
         /\ g' = IF f \in Drain(x).isr THEN [g EXCEPT !.pc = "harvest"] ELSE [g EXCEPT !.todo = Tail(@)]
  BY Zenon DEF PollIsr
<1>3. f \in VirtioFn BY <1>0, <1>1
<1>. DEFINE e == EntryWith(n, None)
            x == Expire(e, elapsed)
            d == Drain(x)
            y == ReadIsr(x, f)
<1>4. Began(e, None) BY <1>0, EntryDoes
<1>5. /\ Resume(y, FALSE)
      /\ g' = IF f \in Drain(x).isr THEN [g EXCEPT !.pc = "harvest"] ELSE [g EXCEPT !.todo = Tail(g.todo)]
  BY <1>2
<1>. HIDE DEF e, f
<1>6. Kept(e, x) BY <1>4, ExpireKeeps DEF Began, Heard
<1>. HIDE DEF x
<1>7. Began(x, None) /\ HostOk(x) BY <1>4, <1>6, BeganKept DEF Kept, Heard
<1>8. Kept(x, d) BY <1>7, DrainDoes
<1>9. /\ HostOk(y) /\ Quiet(x, y) /\ Still(y) /\ y.isr = d.isr \ {f}
      /\ f # "net" /\ y.isr \cap Blk # {} => Raised(y.c)
  BY <1>3, <1>7, ReadIsrDoes
<1>. HIDE DEF y, d
<1>10. y.inject = None /\ y.reinject = None /\ SameService(h.c, y.c)
  BY <1>7, <1>9 DEF Began, Quiet, SameService
<1>11. Resumed(y, FALSE) BY <1>5, <1>9, <1>10, ResumeDoes
<1>12. Still(h) BY <1>1 DEF IoInv, HostPart
<1>13. d.isr \cap Blk \subseteq h.isr BY <1>7, <1>8, <1>12 DEF Began, Kept, Calm
<1>14. h'.isr \cap Blk \subseteq y.isr BY <1>1, <1>9, <1>11 DEF Resumed
<1>15. h'.isr \cap Blk \subseteq h.isr \ {f} BY <1>9, <1>13, <1>14
<1>16. ASSUME NEW k \in h'.isr PROVE Raised(h'.c) \/ h'.arm = TRUE \/ (k # f /\ (f # "net" => k \notin Blk))
  <2>1. k \in y.isr \/ Raised(h'.c) \/ h'.arm = TRUE BY <1>11 DEF Resumed, Heard
  <2>2. Raised(y.c) => Raised(h'.c) BY <1>11 DEF Resumed, Heard
  <2>3. k \in y.isr /\ f # "net" /\ k \in Blk => Raised(y.c) BY <1>9
  <2>. QED BY <2>1, <2>2, <2>3, <1>9
<1>17. HostOk(h') /\ Still(h') /\ h'.reinject = None /\ h'.inject = None /\ SameService(h.c, h'.c)
  BY <1>10, <1>11 DEF Resumed, Heard, SameService
<1>18. /\ DOMAIN g' = {"pc", "vec", "todo"} /\ g'.vec = g.vec
       /\ \/ g'.pc = "harvest" /\ g'.todo = g.todo
          \/ g'.pc = "poll" /\ g'.todo = Tail(g.todo)
  <2>1. CASE g' = [g EXCEPT !.pc = "harvest"] BY <2>1, <1>0
  <2>2. CASE g' = [g EXCEPT !.todo = Tail(g.todo)] BY <2>2, <1>0, <1>1
  <2>. QED BY <1>5, <2>1, <2>2
<1>. QED BY <1>1, <1>15, <1>16, <1>17, <1>18 DEF Polled, f

\* Chips, latches and doorbells stay as they are.
SameLines == h'.c = h.c /\ h'.isr = h.isr /\ h'.arm = h.arm /\ h'.reinject = h.reinject /\ cfg' = cfg

Harvested ==
    /\ g.pc = "harvest" /\ h.inject = None /\ SameLines /\ HostOk(h') /\ Still(h') /\ h'.inject = None
    /\ DOMAIN g' = {"pc", "vec", "todo"} /\ g'.vec = g.vec /\ g'.pc = "poll" /\ g'.todo = Tail(g.todo)

PollEnded ==
    /\ g.pc = "poll" /\ h.inject = None /\ g.todo = << >> /\ h' = h /\ cfg' = cfg
    /\ IF IsPic(g.vec) THEN At("unmask") ELSE At("eoi")

Delivered ==
    /\ h.inject # None /\ SameLines /\ HostOk(h') /\ Still(h') /\ h'.inject = None
    /\ DOMAIN g' = {"pc", "vec", "todo"} /\ g'.vec = h.inject
    /\ g'.todo = IF IsVirtio(h.inject) THEN cfg.order ELSE << >>
    /\ g'.pc = IF IsPic(h.inject) THEN "mask" ELSE IF IsVirtio(h.inject) THEN "poll" ELSE "eoi"

Published ==
    g.pc = "run" /\ h.inject = None /\ SameLines /\ HostOk(h') /\ h'.inject = None /\ g' = g

\* The driver's own steps and the delivery of a vector.
LEMMA GuestSteps ==
    ASSUME IoInv
    PROVE  /\ Harvest => Harvested
           /\ PollDone => PollEnded
           /\ Deliver => Delivered
           /\ \A q \in Queues : Publish(q) => Published
<1>0. HostOk(h) /\ DOMAIN g = {"pc", "vec", "todo"} /\ (h.inject # None \/ g.pc # "run" => Still(h))
  BY DEF IoInv, HostPart, GuestPart
<1>1. ASSUME Harvest PROVE Harvested
  <2>1. g.pc = "harvest" /\ h.inject = None /\ cfg' = cfg /\ g' = [g EXCEPT !.pc = "poll", !.todo = Tail(g.todo)]
    BY <1>1 DEF Harvest, InHandler
  <2>2. PICK a, b : h' = [h EXCEPT !.done = a, !.pend["rx"] = b] BY <1>1, Zenon DEF Harvest
  <2>3. /\ DOMAIN h' = HostFields /\ h'.c = h.c /\ h'.isr = h.isr /\ h'.notify = h.notify /\ h'.arm = h.arm
        /\ h'.inject = h.inject /\ h'.reinject = h.reinject
    BY <1>0, <2>2 DEF HostOk, HostFields
  <2>4. DOMAIN h'.pend = Queues /\ \A q \in Queues \ {"rx"} : h'.pend[q] = h.pend[q]
    BY <1>0, <2>2 DEF HostOk, HostFields
  <2>5. HostOk(h') BY <1>0, <2>3, <2>4 DEF HostOk
  <2>6. Still(h') BY <1>0, <2>1, <2>3, <2>4 DEF Still
  <2>7. DOMAIN g' = {"pc", "vec", "todo"} /\ g'.vec = g.vec /\ g'.pc = "poll" /\ g'.todo = Tail(g.todo)
    BY <1>0, <2>1
  <2>. QED BY <2>1, <2>3, <2>5, <2>6, <2>7 DEF Harvested, SameLines
<1>2. ASSUME PollDone PROVE PollEnded
  <2>1. g.pc = "poll" /\ h.inject = None /\ g.todo = << >> /\ h' = h /\ cfg' = cfg
          /\ g' = [g EXCEPT !.pc = IF IsPic(g.vec) THEN "unmask" ELSE "eoi"]
    BY <1>2 DEF PollDone, InHandler, Goto
  <2>2. IF IsPic(g.vec) THEN At("unmask") ELSE At("eoi") BY <1>0, <2>1 DEF At
  <2>. QED BY <2>1, <2>2 DEF PollEnded
<1>3. ASSUME Deliver PROVE Delivered
  <2>1. h.inject # None /\ cfg' = cfg /\ h' = [h EXCEPT !.inject = None] BY <1>3 DEF Deliver
  <2>2. /\ DOMAIN g' = {"pc", "vec", "todo"} /\ g'.vec = h.inject
        /\ g'.todo = IF IsVirtio(h.inject) THEN cfg.order ELSE << >>
        /\ g'.pc = IF IsPic(h.inject) THEN "mask" ELSE IF IsVirtio(h.inject) THEN "poll" ELSE "eoi"
    BY <1>3 DEF Deliver
  <2>3. /\ DOMAIN h' = HostFields /\ h'.c = h.c /\ h'.isr = h.isr /\ h'.notify = h.notify /\ h'.arm = h.arm
        /\ h'.inject = None /\ h'.reinject = h.reinject /\ h'.pend = h.pend
    BY <1>0, <2>1 DEF HostOk, HostFields
  <2>4. HostOk(h') /\ Still(h') BY <1>0, <2>1, <2>3 DEF HostOk, Still
  <2>. QED BY <2>1, <2>2, <2>3, <2>4 DEF Delivered, SameLines
<1>4. ASSUME NEW q \in Queues, Publish(q) PROVE Published
  <2>1. g.pc = "run" /\ h.inject = None /\ cfg' = cfg /\ g' = g BY <1>4 DEF Publish, Running
  <2>2. PICK a : h' = [h EXCEPT !.pend[q] = a] BY <1>4, Zenon DEF Publish
  <2>3. /\ DOMAIN h' = HostFields /\ h'.c = h.c /\ h'.isr = h.isr /\ h'.notify = h.notify /\ h'.arm = h.arm
        /\ h'.inject = h.inject /\ h'.reinject = h.reinject /\ DOMAIN h'.pend = Queues
    BY <1>0, <2>2 DEF HostOk, HostFields
  <2>4. HostOk(h') BY <1>0, <2>3 DEF HostOk
  <2>. QED BY <2>1, <2>3, <2>4 DEF Published, SameLines
<1>. QED BY <1>1, <1>2, <1>3, <1>4

\* Every step is one of these.
IoDoes ==
    \/ RunExit \/ Published \/ Delivered
    \/ Ticked \/ Masked \/ SlaveEnded \/ MasterEnded \/ Unmasked \/ Ended
    \/ Polled \/ Harvested \/ PollEnded

\* The actions, read as what they do to chips, latches and handlers.
LEMMA IoStepDoes ==
    ASSUME IoInv, Next
    PROVE  IoDoes
<1>1. \/ \E q \in Queues : Publish(q)
      \/ \E f \in VirtioFn : Kick(f)
      \/ \E preempt \in BOOLEAN : Tick(preempt)
      \/ WindowExit \/ DeliveryExit \/ ArmTimer \/ SendSelf \/ Deliver \/ Handler
  BY DEF Next
<1>2. CASE \E q \in Queues : Publish(q) BY <1>2, GuestSteps DEF IoDoes
<1>3. CASE \E f \in VirtioFn : Kick(f) BY <1>3, KickDoes DEF IoDoes
<1>4. CASE \E preempt \in BOOLEAN : Tick(preempt) BY <1>4, TickDoes DEF IoDoes
<1>5. CASE WindowExit \/ DeliveryExit \/ ArmTimer \/ SendSelf BY <1>5, OtherRunExits DEF IoDoes
<1>6. CASE Deliver BY <1>6, GuestSteps DEF IoDoes
<1>7. CASE Handler
  <2>1. CASE PicMask \/ PicEoiSlave \/ PicEoiMaster \/ PicUnmask BY <2>1, PicHandlers DEF IoDoes
  <2>2. CASE PollIsr BY <2>2, PollIsrDoes DEF IoDoes
  <2>3. CASE Harvest \/ PollDone BY <2>3, GuestSteps DEF IoDoes
  <2>4. CASE ApicEoi BY <2>4, ApicEoiDoes DEF IoDoes
  <2>. QED BY <1>7, <2>1, <2>2, <2>3, <2>4 DEF Handler
<1>. QED BY <1>1, <1>2, <1>3, <1>4, <1>5, <1>6, <1>7

-----------------------------------------------------------------------------
(* What is in service is handled *)

\* The handler that has yet to end what is in service has not come past its EOI.
Timely(c, pc) ==
    /\ c.sisr # {} => pc \in {"run", "mask", "eoi slave"}
    /\ PIC_SLAVE_IRQ \in c.misr => pc \in {"run", "mask", "eoi slave", "eoi master"}
    /\ PIT_IRQ \in c.misr => pc \in {"run", "mask", "eoi master"}

Under == IF h.inject # None THEN h.inject ELSE g.vec

\* The vectors are different numbers.
LEMMA VectorsDiffer ==
    /\ None \notin Taken
    /\ \A v \in Vectors : ~IsPic(v)
    /\ \A v \in Taken : v \notin Vectors => IsPic(v)
    /\ \A v : IsPic(v) /\ ~IsVirtio(v) <=> v = PicVector(PIT_IRQ)
    /\ \A v : IsPic(v) /\ IsVirtio(v) <=> v = PicVector(VIRTIO_PIC_IRQ)
    /\ PicVector(PIT_IRQ) # None /\ PicVector(VIRTIO_PIC_IRQ) # None
    /\ ~IsVirtio(None) /\ ~IsPic(None)
BY DEF Taken, Vectors, IsPic, IsVirtio, None, PicVector, PinVector, TimerVector, SelfVector, PIT_IRQ,
       VIRTIO_PIC_IRQ, PIT_IOAPIC_GSI

\* The property, taken apart.
LEMMA HandledNow ==
    ASSUME InServiceIsHandled
    PROVE  ServiceIs(h.c, Under) /\ Timely(h.c, g.pc)
BY DEF InServiceIsHandled, ServiceIs, Timely, Under

\* The property after a step, put together.
LEMMA HandledNext ==
    ASSUME ChipOk(h'.c), ServiceIs(h'.c, Under'), Timely(h'.c, g'.pc)
    PROVE  InServiceIsHandled'
<1>. DEFINE v == IF h'.inject # None THEN h'.inject ELSE g'.vec
<1>1. v = Under' BY DEF Under
<1>2. v = None => h'.c.sisr = {} /\ h'.c.misr = {} /\ h'.c.isr = {} BY <1>1, NothingInService
<1>3. ServiceIs(h'.c, v) BY <1>1
<1>. HIDE DEF v
<1>4. /\ h'.c.sisr # {} => v = PicVector(VIRTIO_PIC_IRQ) /\ g'.pc \in {"run", "mask", "eoi slave"}
      /\ PIC_SLAVE_IRQ \in h'.c.misr =>
            v = PicVector(VIRTIO_PIC_IRQ) /\ g'.pc \in {"run", "mask", "eoi slave", "eoi master"}
      /\ PIT_IRQ \in h'.c.misr => v = PicVector(PIT_IRQ) /\ g'.pc \in {"run", "mask", "eoi master"}
      /\ h'.c.isr \subseteq {v}
      /\ v = None => h'.c.sisr = {} /\ h'.c.misr = {} /\ h'.c.isr = {}
  BY <1>2, <1>3 DEF ServiceIs, Timely
<1>. QED BY <1>4 DEF InServiceIsHandled, v

\* Where the guest can be at boot.
LEMMA IoInvInit == ASSUME Init PROVE IoInv
<1>1. cfg \in Configs BY DEF Init
<1>2. /\ DOMAIN h = HostFields /\ h.c = ChipAtBoot(cfg.apic) /\ h.notify = {} /\ h.isr = {}
      /\ h.inject = None /\ h.reinject = None /\ DOMAIN h.pend = Queues
  BY DEF Init, HostFields
<1>3. h.arm = FALSE BY Zenon DEF Init
<1>4. ChipOk(h.c) /\ h.c.sisr = {} /\ h.c.misr = {} /\ h.c.isr = {}
  BY <1>2 DEF ChipAtBoot, ChipOk, ChipFields
<1>5. HostOk(h) BY <1>2, <1>3, <1>4 DEF HostOk
<1>6. /\ DOMAIN g = {"pc", "vec", "todo"} /\ g.pc = "run" /\ g.vec = None /\ g.todo = << >>
  BY DEF Init
<1>7. HostPart BY <1>1, <1>2, <1>5, <1>6 DEF HostPart
<1>8. << >> \in Seq(VirtioFn) OBVIOUS
<1>9. GuestPart BY <1>2, <1>6, <1>8 DEF GuestPart, Pcs
<1>10. InServiceIsHandled BY <1>2, <1>4, <1>6 DEF InServiceIsHandled
<1>. QED BY <1>7, <1>9, <1>10 DEF IoInv

\* Every step of the host and of the guest.
LEMMA IoInvStep == ASSUME IoInv, IoDoes PROVE IoInv'
<1>0. /\ cfg \in Configs /\ HostOk(h) /\ h.reinject = None /\ ServiceIs(h.c, Under) /\ Timely(h.c, g.pc)
      /\ h.inject # None \/ g.pc # "run" => Still(h)
  BY HandledNow DEF IoInv, HostPart
<1>1. GuestPart BY DEF IoInv
<1>2. ChipOk(h.c) BY <1>0 DEF HostOk
<1>3. cfg.order \in Seq(VirtioFn) BY <1>0, ConstantsAssumption DEF GuestConfig
<1>4. << >> \in Seq(VirtioFn) OBVIOUS
<1>5. CASE RunExit
  <2>1. /\ g.pc = "run" /\ g' = g /\ cfg' = cfg /\ HostOk(h') /\ Still(h') /\ h'.reinject = None
        /\ h'.inject \in Taken \cup {None} /\ ServiceIs(h'.c, h'.inject)
    BY <1>5 DEF RunExit, Heard
  <2>2. HostPart' BY <2>1, <1>0 DEF HostPart
  <2>3. GuestPart' BY <2>1, <1>1 DEF GuestPart
  <2>4. Under' = h'.inject BY <2>1, <1>1 DEF Under, GuestPart
  <2>5. Timely(h'.c, g'.pc) BY <2>1 DEF Timely
  <2>6. InServiceIsHandled' BY <2>1, <2>4, <2>5, HandledNext DEF HostOk
  <2>. QED BY <2>2, <2>3, <2>6 DEF IoInv
<1>6. CASE Published
  <2>1. /\ g.pc = "run" /\ g' = g /\ cfg' = cfg /\ HostOk(h') /\ h'.reinject = None /\ h.inject = None
        /\ h'.inject = None /\ h'.c = h.c
    BY <1>6, <1>0 DEF Published, SameLines
  <2>2. HostPart' BY <2>1, <1>0 DEF HostPart
  <2>3. GuestPart' BY <2>1, <1>1 DEF GuestPart
  <2>4. Under' = Under BY <2>1 DEF Under
  <2>5. InServiceIsHandled' BY <2>1, <2>4, <1>0, <1>2, HandledNext
  <2>. QED BY <2>2, <2>3, <2>5 DEF IoInv
<1>7. CASE Delivered
  <2>1. /\ h.inject # None /\ cfg' = cfg /\ HostOk(h') /\ Still(h') /\ h'.reinject = None
        /\ h'.inject = None /\ h'.c = h.c
        /\ DOMAIN g' = {"pc", "vec", "todo"} /\ g'.vec = h.inject
        /\ g'.todo = (IF IsVirtio(h.inject) THEN cfg.order ELSE << >>)
        /\ g'.pc = IF IsPic(h.inject) THEN "mask" ELSE IF IsVirtio(h.inject) THEN "poll" ELSE "eoi"
    BY <1>7, <1>0 DEF Delivered, SameLines
  <2>2. h.inject \in Taken BY <2>1, <1>1 DEF GuestPart
  <2>3. HostPart' BY <2>1, <1>0 DEF HostPart
  <2>4. g'.pc \in Pcs BY <2>1 DEF Pcs
  <2>5. GuestPart' BY <2>1, <2>2, <2>4, <1>3, <1>4, VectorsDiffer DEF GuestPart
  <2>6. Under' = h.inject /\ Under = h.inject BY <2>1 DEF Under
  <2>7. Timely(h'.c, g'.pc)
    <3>1. CASE IsPic(h.inject) BY <3>1, <2>1 DEF Timely
    <3>2. CASE ~IsPic(h.inject)
      <4>1. h.c.sisr = {} /\ PIC_SLAVE_IRQ \notin h.c.misr /\ PIT_IRQ \notin h.c.misr
        BY <1>0, <2>6, <3>2, VectorsDiffer DEF ServiceIs
      <4>. QED BY <4>1, <2>1 DEF Timely
    <3>. QED BY <3>1, <3>2
  <2>8. InServiceIsHandled' BY <2>1, <2>6, <2>7, <1>0, <1>2, HandledNext
  <2>. QED BY <2>3, <2>5, <2>8 DEF IoInv
<1>8. CASE Ticked \/ Masked \/ SlaveEnded \/ MasterEnded \/ Unmasked \/ Ended
  <2>1. /\ g.pc # "run" /\ h.inject = None /\ cfg' = cfg /\ HostOk(h') /\ Still(h') /\ h'.reinject = None
        /\ h'.inject = None
    BY <1>8 DEF Ticked, Masked, SlaveEnded, MasterEnded, Unmasked, Ended, HandlerExit, Heard
  <2>2. HostPart' BY <2>1, <1>0 DEF HostPart
  <2>3. ChipOk(h'.c) BY <2>1 DEF HostOk
  <2>4. Under = g.vec /\ Under' = g'.vec BY <2>1 DEF Under
  <2>5. CASE Ticked
    <3>1. g' = g /\ SameService(h.c, h'.c) BY <2>5 DEF Ticked
    <3>2. GuestPart' BY <3>1, <2>1, <1>1 DEF GuestPart
    <3>3. ServiceIs(h'.c, Under') /\ Timely(h'.c, g'.pc) BY <3>1, <2>4, <1>0 DEF ServiceIs, Timely, SameService
    <3>. QED BY <2>2, <3>2, <2>3, <3>3, HandledNext DEF IoInv
  <2>6. CASE Masked
    <3>1. g.pc = "mask" /\ SameService(h.c, h'.c) /\ IF IsVirtio(g.vec) THEN At("eoi slave") ELSE At("eoi master")
      BY <2>6 DEF Masked
    <3>2. GuestPart' BY <3>1, <2>1, <1>1 DEF GuestPart, At, Pcs
    <3>3. ServiceIs(h'.c, Under') BY <3>1, <2>4, <1>0 DEF ServiceIs, SameService, At
    <3>4. ~IsVirtio(g.vec) => g.vec = PicVector(PIT_IRQ) BY <3>1, <1>1, VectorsDiffer DEF GuestPart
    <3>5. IsVirtio(g.vec) => PIT_IRQ \notin h.c.misr BY <2>4, <1>0, VectorsDiffer DEF ServiceIs
    <3>6. ~IsVirtio(g.vec) => h.c.sisr = {} BY <3>4, <2>4, <1>0, VectorsDiffer DEF ServiceIs
    <3>7. Timely(h'.c, g'.pc) BY <3>1, <3>5, <3>6, <1>0 DEF Timely, SameService, At
    <3>. QED BY <2>2, <3>2, <2>3, <3>3, <3>7, HandledNext DEF IoInv
  <2>7. CASE SlaveEnded
    <3>1. g.pc = "eoi slave" /\ At("eoi master") /\ h'.c.sisr = {} /\ h'.c.misr = h.c.misr /\ h'.c.isr = h.c.isr
      BY <2>7 DEF SlaveEnded
    <3>2. GuestPart' BY <3>1, <2>1, <1>1 DEF GuestPart, At, Pcs
    <3>3. ServiceIs(h'.c, Under') /\ Timely(h'.c, g'.pc) BY <3>1, <2>4, <1>0 DEF ServiceIs, Timely, At
    <3>. QED BY <2>2, <3>2, <2>3, <3>3, HandledNext DEF IoInv
  <2>8. CASE MasterEnded
    <3>1. /\ g.pc = "eoi master" /\ IF IsVirtio(g.vec) THEN At("poll") ELSE At("unmask")
          /\ h'.c.misr = h.c.misr \ {IF IsVirtio(g.vec) THEN PIC_SLAVE_IRQ ELSE PIT_IRQ}
          /\ h'.c.sisr = h.c.sisr /\ h'.c.isr = h.c.isr
      BY <2>8 DEF MasterEnded
    <3>2. IsPic(g.vec) BY <3>1, <1>1 DEF GuestPart
    <3>3. GuestPart' BY <3>1, <3>2, <2>1, <1>1 DEF GuestPart, At, Pcs
    <3>4. ServiceIs(h'.c, Under') BY <3>1, <2>4, <1>0 DEF ServiceIs, At
    <3>5. h.c.sisr = {} BY <3>1, <1>0 DEF Timely
    <3>6. IsVirtio(g.vec) => PIT_IRQ \notin h.c.misr BY <2>4, <1>0, VectorsDiffer DEF ServiceIs
    <3>7. ~IsVirtio(g.vec) => PIC_SLAVE_IRQ \notin h.c.misr BY <2>4, <1>0, VectorsDiffer DEF ServiceIs
    <3>8. Timely(h'.c, g'.pc) BY <3>1, <3>5, <3>6, <3>7 DEF Timely
    <3>. QED BY <2>2, <3>3, <2>3, <3>4, <3>8, HandledNext DEF IoInv
  <2>9. CASE Unmasked
    <3>1. g.pc = "unmask" /\ Returned /\ SameService(h.c, h'.c) BY <2>9 DEF Unmasked
    <3>2. GuestPart' BY <3>1, <2>1, <1>1, <1>4, VectorsDiffer DEF GuestPart, Returned, Pcs
    <3>3. g.vec \notin Vectors BY <3>1, <1>1, VectorsDiffer DEF GuestPart
    <3>4. h.c.sisr = {} /\ PIT_IRQ \notin h.c.misr /\ PIC_SLAVE_IRQ \notin h.c.misr BY <3>1, <1>0 DEF Timely
    <3>5. h.c.isr = {} BY <3>3, <2>4, <1>0, <1>2 DEF ServiceIs, ChipOk
    <3>6. ServiceIs(h'.c, Under') /\ Timely(h'.c, g'.pc) BY <3>1, <3>4, <3>5 DEF ServiceIs, Timely, SameService
    <3>. QED BY <2>2, <3>2, <2>3, <3>6, HandledNext DEF IoInv
  <2>10. CASE Ended
    <3>1. g.pc = "eoi" /\ Returned /\ h'.c.isr = {} /\ h'.c.misr = h.c.misr /\ h'.c.sisr = h.c.sisr
      BY <2>10 DEF Ended
    <3>2. GuestPart' BY <3>1, <2>1, <1>1, <1>4, VectorsDiffer DEF GuestPart, Returned, Pcs
    <3>3. h.c.sisr = {} /\ PIT_IRQ \notin h.c.misr /\ PIC_SLAVE_IRQ \notin h.c.misr BY <3>1, <1>0 DEF Timely
    <3>4. ServiceIs(h'.c, Under') /\ Timely(h'.c, g'.pc) BY <3>1, <3>3 DEF ServiceIs, Timely
    <3>. QED BY <2>2, <3>2, <2>3, <3>4, HandledNext DEF IoInv
  <2>. QED BY <1>8, <2>5, <2>6, <2>7, <2>8, <2>9, <2>10
<1>9. CASE Polled
  <2>1. /\ g.pc = "poll" /\ h.inject = None /\ g.todo # << >> /\ cfg' = cfg
        /\ HostOk(h') /\ Still(h') /\ h'.reinject = None /\ h'.inject = None /\ SameService(h.c, h'.c)
        /\ DOMAIN g' = {"pc", "vec", "todo"} /\ g'.vec = g.vec
    BY <1>9 DEF Polled
  <2>2. HostPart' BY <2>1, <1>0 DEF HostPart
  <2>3. /\ g'.pc \in {"poll", "harvest"} /\ g'.todo \in Seq(VirtioFn) /\ (g'.pc = "harvest" => g'.todo # << >>)
    BY <1>9, <2>1, <1>1 DEF Polled, GuestPart
  <2>4. IsVirtio(g.vec) /\ g.vec \in Taken \cup {None} BY <2>1, <1>1 DEF GuestPart
  <2>5. GuestPart' BY <2>1, <2>3, <2>4 DEF GuestPart, Pcs
  <2>6. Under = g.vec /\ Under' = g'.vec BY <2>1 DEF Under
  <2>7. ServiceIs(h'.c, Under') /\ Timely(h'.c, g'.pc) BY <2>1, <2>6, <1>0 DEF ServiceIs, Timely, SameService
  <2>8. ChipOk(h'.c) BY <2>1 DEF HostOk
  <2>. QED BY <2>2, <2>5, <2>7, <2>8, HandledNext DEF IoInv
<1>10. CASE Harvested
  <2>1. /\ g.pc = "harvest" /\ h.inject = None /\ cfg' = cfg /\ h'.c = h.c
        /\ HostOk(h') /\ Still(h') /\ h'.reinject = None /\ h'.inject = None
        /\ DOMAIN g' = {"pc", "vec", "todo"} /\ g'.vec = g.vec /\ g'.pc = "poll" /\ g'.todo = Tail(g.todo)
    BY <1>10, <1>0 DEF Harvested, SameLines
  <2>2. HostPart' BY <2>1, <1>0 DEF HostPart
  <2>3. IsVirtio(g.vec) /\ g.vec \in Taken \cup {None} /\ Tail(g.todo) \in Seq(VirtioFn) BY <2>1, <1>1 DEF GuestPart
  <2>4. GuestPart' BY <2>1, <2>3 DEF GuestPart, Pcs
  <2>5. Under = g.vec /\ Under' = g'.vec BY <2>1 DEF Under
  <2>6. ServiceIs(h'.c, Under') /\ Timely(h'.c, g'.pc) BY <2>1, <2>5, <1>0 DEF ServiceIs, Timely
  <2>. QED BY <2>1, <2>2, <2>4, <2>6, <1>2, HandledNext DEF IoInv
<1>11. CASE PollEnded
  <2>1. /\ g.pc = "poll" /\ h.inject = None /\ g.todo = << >> /\ h' = h /\ cfg' = cfg
        /\ IF IsPic(g.vec) THEN At("unmask") ELSE At("eoi")
    BY <1>11 DEF PollEnded
  <2>2. HostPart' BY <2>1, <1>0 DEF HostPart
  <2>3. g.vec \in Taken BY <2>1, <1>1, VectorsDiffer DEF GuestPart
  <2>4. GuestPart' BY <2>1, <2>3, <1>1, <1>4, VectorsDiffer DEF GuestPart, Pcs, At
  <2>5. Under = g.vec /\ Under' = g'.vec BY <2>1 DEF Under
  <2>6. ServiceIs(h'.c, Under') /\ Timely(h'.c, g'.pc) BY <2>1, <2>5, <1>0 DEF ServiceIs, Timely, At
  <2>. QED BY <2>1, <2>2, <2>4, <2>6, <1>2, HandledNext DEF IoInv
<1>. QED BY <1>5, <1>6, <1>7, <1>8, <1>9, <1>10, <1>11 DEF IoDoes

\* Steps that change nothing here.
LEMMA IoInvStutter == ASSUME IoInv, UNCHANGED vars PROVE IoInv'
BY DEF IoInv, HostPart, GuestPart, InServiceIsHandled, vars

\* The invariant of every behaviour.
LEMMA IoInvariance == Spec => []IoInv
<1>1. IoInv /\ [Next]_vars => IoInv' BY IoStepDoes, IoInvStep, IoInvStutter
<1>. QED BY <1>1, IoInvInit, PTL DEF Spec

\* No vector that was taken from a chip is dropped, in whatever order exits, windows,
\* interrupted deliveries and EOIs come: what is in service was injected, is about to be
\* injected again, or is in a handler that has not ended it.
THEOREM IoInServiceIsHandled == Spec => []InServiceIsHandled
<1>1. IoInv => InServiceIsHandled BY DEF IoInv
<1>. QED BY <1>1, IoInvariance, PTL

-----------------------------------------------------------------------------
(* No interrupt is lost *)

\* The network card is the last PCI function (00:05.0) and so the last to be probed.
ProbedInOrder == \A k \in Configs : \A i \in 1 .. Len(k.order) - 1 : k.order[i] # "net"

Elems(s) == {s[i] : i \in 1 .. Len(s)}

\* A list of handlers in which the network function comes last, and is not left out.
NetLast(s) ==
    /\ \A i \in 1 .. Len(s) - 1 : s[i] # "net"
    /\ Elems(s) \subseteq Present
    /\ "net" \in Present /\ s # << >> => s[Len(s)] = "net"

\* What is left of such a list when its first handler has run.
LEMMA TailOfHandlers ==
    ASSUME NEW s \in Seq(VirtioFn), s # << >>, NetLast(s)
    PROVE  /\ NetLast(Tail(s)) /\ Tail(s) \in Seq(VirtioFn)
           /\ Elems(s) \subseteq {Head(s)} \cup Elems(Tail(s))
           /\ Head(s) \in VirtioFn /\ Head(s) \in Present
           /\ Head(s) = "net" => Elems(Tail(s)) = {}
           /\ Head(s) # "net" /\ "net" \in Present => "net" \in Elems(Tail(s))
<1>. DEFINE t == Tail(s)
            n == Len(s)
<1>1. /\ n \in Nat /\ n >= 1 /\ t \in Seq(VirtioFn) /\ Len(t) = n - 1 /\ Head(s) = s[1]
      /\ \A i \in 1 .. n - 1 : t[i] = s[i + 1]
      /\ \A i \in 1 .. n : s[i] \in VirtioFn
  OBVIOUS
<1>2. t = << >> <=> n = 1 BY <1>1
<1>. HIDE DEF t, n
<1>3. ASSUME NEW i \in 1 .. n PROVE s[i] \in {Head(s)} \cup Elems(t)
  <2>1. CASE i = 1 BY <2>1, <1>1
  <2>2. CASE i # 1
    <3>1. i - 1 \in 1 .. n - 1 BY <2>2, <1>1
    <3>2. t[i - 1] = s[i] BY <3>1, <1>1
    <3>. QED BY <3>1, <3>2, <1>1 DEF Elems
  <2>. QED BY <2>1, <2>2
<1>4. Elems(s) = {s[i] : i \in 1 .. n} BY DEF Elems, n
<1>5. Elems(s) \subseteq {Head(s)} \cup Elems(t) BY <1>3, <1>4
<1>6. Elems(t) \subseteq Elems(s)
  <2>1. ASSUME NEW i \in 1 .. n - 1 PROVE t[i] \in Elems(s)
    <3>1. i + 1 \in 1 .. n BY <1>1
    <3>. QED BY <3>1, <1>1, <1>4
  <2>. QED BY <2>1, <1>1 DEF Elems
<1>7. Elems(s) \subseteq Present BY DEF NetLast
<1>8. \A i \in 1 .. n - 1 : s[i] # "net" BY DEF NetLast, n
<1>9. "net" \in Present => s[n] = "net" BY DEF NetLast, n
<1>10. \A i \in 1 .. Len(t) - 1 : t[i] # "net"
  <2>1. SUFFICES ASSUME NEW i \in 1 .. n - 2 PROVE t[i] # "net" BY <1>1
  <2>2. i \in 1 .. n - 1 /\ i + 1 \in 1 .. n - 1 BY <1>1
  <2>. QED BY <2>2, <1>1, <1>8
<1>11. "net" \in Present /\ t # << >> => t[Len(t)] = "net"
  <2>1. SUFFICES ASSUME "net" \in Present, t # << >> PROVE t[Len(t)] = "net" OBVIOUS
  <2>2. n - 1 \in 1 .. n - 1 BY <2>1, <1>1, <1>2
  <2>3. t[n - 1] = s[(n - 1) + 1] /\ (n - 1) + 1 = n BY <2>2, <1>1
  <2>. QED BY <2>1, <2>3, <1>1, <1>9
<1>12. NetLast(t) BY <1>6, <1>7, <1>10, <1>11 DEF NetLast
<1>13. Head(s) \in VirtioFn /\ Head(s) \in Present BY <1>1, <1>4, <1>7
<1>14. Head(s) = "net" => Elems(t) = {}
  <2>1. SUFFICES ASSUME Head(s) = "net" PROVE Elems(t) = {} OBVIOUS
  <2>2. n = 1 BY <2>1, <1>1, <1>8
  <2>3. 1 .. Len(t) = {} BY <2>2, <1>1
  <2>. QED BY <2>3 DEF Elems
<1>15. Head(s) # "net" /\ "net" \in Present => "net" \in Elems(t)
  <2>1. SUFFICES ASSUME Head(s) # "net", "net" \in Present PROVE "net" \in Elems(t) OBVIOUS
  <2>2. s[n] = "net" /\ n \in 1 .. n BY <2>1, <1>1, <1>9
  <2>. QED BY <2>1, <2>2, <1>3
<1>. QED BY <1>1, <1>5, <1>12, <1>13, <1>14, <1>15 DEF t

\* The handlers that have yet to run.
Rest == IF g.pc = "harvest" THEN Tail(g.todo) ELSE g.todo

\* A handler of the shared line is under way and its functions are still being polled.
Polling == IsVirtio(g.vec) /\ g.pc \in {"mask", "eoi slave", "eoi master", "poll", "harvest"}

\* Every latch is heard; and while the functions are polled, the latch of a block
\* function is set only if its handler has yet to run, so that the network function's
\* read, which looks at no block latch, may lower the line.
HearPart ==
    /\ \A f \in h.isr \cap Present : Raised(h.c) \/ h.arm = TRUE \/ f \in Elems(Rest)
    /\ Polling => \A f \in h.isr \cap Present \cap Blk : f \in Elems(Rest)
    /\ NetLast(g.todo)

\* Nothing is latched at boot.
LEMMA HearInit == ASSUME Init PROVE HearPart
<1>1. h.isr = {} /\ g.todo = << >> BY DEF Init
<1>2. 1 .. Len(<< >>) = {} /\ 1 .. Len(<< >>) - 1 = {} OBVIOUS
<1>. QED BY <1>1, <1>2 DEF HearPart, NetLast, Elems

\* The handlers left after a step that leaves them alone, and when all have run.
LEMMA NoHandlers == ASSUME NEW s, s = << >> PROVE Elems(s) = {} /\ NetLast(s)
BY DEF Elems, NetLast

\* Whoever was heard without a handler is heard after an exit.
LEMMA HeardAfter ==
    ASSUME NEW S, Heard(h, h'), Present' = Present,
           \A f \in h.isr \cap Present : Raised(h.c) \/ h.arm = TRUE \/ f \in S
    PROVE  \A f \in h'.isr \cap Present' : Raised(h'.c) \/ h'.arm = TRUE \/ f \in S
BY DEF Heard

\* Every step of the host and of the guest.
LEMMA HearStep == ASSUME ProbedInOrder, IoInv, HearPart, IoDoes PROVE HearPart'
<1>0. cfg \in Configs /\ g.todo \in Seq(VirtioFn) /\ GuestPart BY DEF IoInv, HostPart, GuestPart
<1>1. cfg' = cfg
  BY DEF IoDoes, RunExit, Published, Delivered, Ticked, Masked, SlaveEnded, MasterEnded, Unmasked, Ended,
         HandlerExit, Polled, Harvested, PollEnded, SameLines
<1>2. Present' = Present /\ \A s : NetLast(s)' <=> NetLast(s) BY <1>1 DEF Present, NetLast
<1>3. cfg.order \in Seq(VirtioFn) BY <1>0, ConstantsAssumption DEF GuestConfig
<1>4. NetLast(cfg.order) /\ Elems(cfg.order) = Present
  <2>. DEFINE s == cfg.order
  <2>1. Elems(s) = Present BY DEF Elems, Present
  <2>2. \A i \in 1 .. Len(s) - 1 : s[i] # "net" BY <1>0 DEF ProbedInOrder
  <2>3. "net" \in Present => s[Len(s)] = "net"
    <3>1. SUFFICES ASSUME "net" \in Present PROVE s[Len(s)] = "net" OBVIOUS
    <3>2. PICK i \in 1 .. Len(s) : s[i] = "net" BY <3>1 DEF Present
    <3>3. Len(s) \in Nat BY <1>3
    <3>. QED BY <2>2, <3>2, <3>3
  <2>. QED BY <2>1, <2>2, <2>3 DEF NetLast
<1>5. CASE RunExit \/ Published
  <2>1. g.pc = "run" /\ g' = g /\ g.todo = << >> /\ ~Polling
    BY <1>0, <1>5 DEF RunExit, Published, GuestPart, Polling
  <2>2. Rest = g.todo /\ Rest' = g.todo /\ ~Polling' BY <2>1 DEF Rest, Polling
  <2>3. Heard(h, h')
    <3>1. CASE RunExit BY <3>1 DEF RunExit
    <3>2. CASE Published BY <3>2 DEF Published, SameLines, Heard
    <3>. QED BY <1>5, <3>1, <3>2
  <2>4. \A f \in h'.isr \cap Present' : Raised(h'.c) \/ h'.arm = TRUE \/ f \in Elems(g.todo)
    BY <1>2, <2>2, <2>3, HeardAfter DEF HearPart
  <2>5. NetLast(g.todo)' BY <1>2, <2>1 DEF HearPart
  <2>. QED BY <2>1, <2>2, <2>4, <2>5, <1>2 DEF HearPart, Elems
<1>6. ASSUME Heard(h, h'), Rest' = Rest, g'.todo = g.todo, h'.isr \cap Blk \subseteq h.isr, Polling' => Polling
      PROVE  HearPart'
  <2>1. \A f \in h'.isr \cap Present' : Raised(h'.c) \/ h'.arm = TRUE \/ f \in Elems(Rest)
    BY <1>2, <1>6, HeardAfter DEF HearPart
  <2>2. Elems(Rest)' = Elems(Rest) BY <1>6 DEF Elems
  <2>3. Polling => \A f \in h'.isr \cap Present \cap Blk : f \in Elems(Rest) BY <1>6 DEF HearPart
  <2>4. NetLast(g.todo)' BY <1>2, <1>6 DEF HearPart, NetLast, Elems
  <2>. QED BY <1>2, <1>6, <2>1, <2>2, <2>3, <2>4 DEF HearPart
<1>7. CASE Ticked \/ Masked \/ SlaveEnded \/ MasterEnded
  <2>1. Heard(h, h') /\ h'.isr \cap Blk \subseteq h.isr
    BY <1>7 DEF Ticked, Masked, SlaveEnded, MasterEnded, HandlerExit
  <2>2. g'.todo = g.todo /\ g'.vec = g.vec /\ (g' = g \/ (g.pc \in {"mask", "eoi slave", "eoi master"} /\ g'.pc # "harvest"))
    BY <1>7 DEF Ticked, Masked, SlaveEnded, MasterEnded, At
  <2>3. Rest' = Rest /\ (Polling' => Polling) BY <2>2 DEF Rest, Polling
  <2>. QED BY <1>6, <2>1, <2>2, <2>3
<1>8. CASE Unmasked \/ Ended
  <2>1. Heard(h, h') /\ h'.isr \cap Blk \subseteq h.isr /\ Returned /\ g.pc \in {"unmask", "eoi"}
    BY <1>8 DEF Unmasked, Ended, HandlerExit
  <2>2. g.todo = << >> BY <2>1, <1>0 DEF GuestPart
  <2>3. Rest' = Rest /\ ~Polling' /\ g'.todo = g.todo BY <2>1, <2>2 DEF Rest, Polling, Returned
  <2>. QED BY <1>6, <2>1, <2>3
<1>9. CASE PollEnded
  <2>1. h' = h /\ g.pc = "poll" /\ g'.todo = g.todo /\ g'.pc \in {"unmask", "eoi"} BY <1>9 DEF PollEnded, At
  <2>2. HostOk(h) BY DEF IoInv, HostPart
  <2>3. Heard(h, h') /\ h'.isr \cap Blk \subseteq h.isr BY <2>1, <2>2 DEF Heard
  <2>4. Rest' = Rest /\ ~Polling' BY <2>1 DEF Rest, Polling
  <2>. QED BY <1>6, <2>1, <2>3, <2>4
<1>10. CASE Delivered
  <2>1. /\ h.inject # None /\ h'.c = h.c /\ h'.isr = h.isr /\ h'.arm = h.arm /\ g'.vec = h.inject
        /\ g'.todo = (IF IsVirtio(h.inject) THEN cfg.order ELSE << >>) /\ g'.pc # "harvest"
    BY <1>10 DEF Delivered, SameLines
  <2>2. g.pc = "run" /\ g.todo = << >> BY <2>1, <1>0 DEF GuestPart
  <2>3. Rest = << >> BY <2>2 DEF Rest
  <2>4. \A f \in h'.isr \cap Present' : Raised(h'.c) \/ h'.arm = TRUE
    BY <1>2, <2>1, <2>3, NoHandlers DEF HearPart
  <2>5. Rest' = g'.todo BY <2>1 DEF Rest
  <2>6. Polling' => Elems(Rest)' = Present BY <1>4, <2>1, <2>5 DEF Polling, Elems
  <2>7. NetLast(g'.todo) BY <1>4, <2>1, NoHandlers
  <2>8. NetLast(g.todo)' BY <1>2, <2>7 DEF NetLast, Elems
  <2>. QED BY <1>2, <2>4, <2>6, <2>8 DEF HearPart
<1>11. CASE Polled
  <2>. DEFINE t == Tail(g.todo)
              k == Head(g.todo)
  <2>1. /\ g.pc = "poll" /\ g.todo # << >> /\ g'.vec = g.vec
        /\ \/ g'.pc = "harvest" /\ g'.todo = g.todo
           \/ g'.pc = "poll" /\ g'.todo = t
        /\ h'.isr \cap Blk \subseteq h.isr \ {k}
        /\ \A f \in h'.isr : Raised(h'.c) \/ h'.arm = TRUE \/ (f # k /\ (k # "net" => f \notin Blk))
    BY <1>11 DEF Polled
  <2>2. /\ NetLast(t) /\ Elems(g.todo) \subseteq {k} \cup Elems(t) /\ k \in VirtioFn
        /\ k = "net" => Elems(t) = {}
        /\ k # "net" /\ "net" \in Present => "net" \in Elems(t)
    BY <1>0, <2>1, TailOfHandlers DEF HearPart
  <2>3. Rest' = t /\ Rest = g.todo BY <2>1 DEF Rest
  <2>4. Polling BY <2>1, <1>0 DEF Polling, GuestPart
  <2>5. \A f \in h.isr \cap Present \cap Blk : f \in {k} \cup Elems(t) BY <2>2, <2>3, <2>4 DEF HearPart
  <2>6. Present \subseteq VirtioFn BY <1>3 DEF Present
  <2>7. NetLast(g.todo) BY DEF HearPart
  <2>. HIDE DEF t, k
  <2>8. \A f \in h'.isr \cap Present \cap Blk : f \in Elems(t) BY <2>1, <2>5
  <2>9. ASSUME NEW f \in h'.isr \cap Present PROVE Raised(h'.c) \/ h'.arm = TRUE \/ f \in Elems(t)
    <3>1. CASE f \in Blk BY <3>1, <2>8
    <3>2. CASE f \notin Blk
      <4>1. f = "net" BY <3>2, <2>6 DEF Blk, VirtioFn
      <4>. QED BY <4>1, <2>1, <2>2
    <3>. QED BY <3>1, <3>2
  <2>10. Elems(Rest)' = Elems(t) BY <2>3 DEF Elems
  <2>11. NetLast(g'.todo) BY <2>1, <2>2, <2>7
  <2>12. NetLast(g.todo)' BY <1>2, <2>11 DEF NetLast, Elems
  <2>. QED BY <1>2, <2>8, <2>9, <2>10, <2>12 DEF HearPart
<1>12. CASE Harvested
  <2>1. /\ g.pc = "harvest" /\ h'.c = h.c /\ h'.isr = h.isr /\ h'.arm = h.arm
        /\ g'.vec = g.vec /\ g'.pc = "poll" /\ g'.todo = Tail(g.todo)
    BY <1>12 DEF Harvested, SameLines
  <2>2. g.todo # << >> BY <2>1, <1>0 DEF GuestPart
  <2>3. NetLast(g'.todo) BY <1>0, <2>1, <2>2, TailOfHandlers DEF HearPart
  <2>4. NetLast(g.todo)' BY <1>2, <2>3 DEF NetLast, Elems
  <2>5. Rest' = Rest /\ (Polling' => Polling) BY <2>1 DEF Rest, Polling
  <2>6. Elems(Rest)' = Elems(Rest) BY <2>5 DEF Elems
  <2>. QED BY <1>2, <2>1, <2>4, <2>5, <2>6 DEF HearPart
<1>. QED BY <1>5, <1>7, <1>8, <1>9, <1>10, <1>11, <1>12 DEF IoDoes

\* Steps that change nothing here.
LEMMA HearStutter == ASSUME HearPart, UNCHANGED vars PROVE HearPart'
<1>1. h' = h /\ g' = g /\ cfg' = cfg BY DEF vars
<1>2. Present' = Present /\ Rest' = Rest /\ (Polling' <=> Polling) BY <1>1 DEF Present, Rest, Polling
<1>3. Elems(Rest)' = Elems(Rest) /\ (NetLast(g.todo)' <=> NetLast(g.todo)) BY <1>1, <1>2 DEF Elems, NetLast
<1>. QED BY <1>1, <1>2, <1>3 DEF HearPart

\* A function whose ISR is set is heard, for every guest whose kernel probed the network
\* card last: the shared line is high, or is raised at the next exit, or the handler that
\* runs has not come to that function yet.
THEOREM IoNoLostInterrupt == ASSUME ProbedInOrder PROVE Spec => []NoLostInterrupt
<1>1. IoInv /\ HearPart => NoLostInterrupt
  <2>1. SUFFICES ASSUME IoInv, HearPart, NEW f \in h.isr \cap Present
                 PROVE  LineHigh \/ h.arm \/ \E i \in 1 .. Len(g.todo) : g.todo[i] = f
    BY DEF NoLostInterrupt
  <2>2. Elems(Rest) \subseteq Elems(g.todo)
    <3>1. CASE g.pc # "harvest" BY <3>1 DEF Rest
    <3>2. CASE g.pc = "harvest"
      <4>1. g.todo \in Seq(VirtioFn) /\ g.todo # << >> BY <2>1, <3>2 DEF IoInv, GuestPart
      <4>2. Len(Tail(g.todo)) = Len(g.todo) - 1 /\ Len(g.todo) \in Nat
              /\ \A i \in 1 .. Len(g.todo) - 1 : Tail(g.todo)[i] = g.todo[i + 1] /\ i + 1 \in 1 .. Len(g.todo)
        BY <4>1
      <4>. QED BY <3>2, <4>2 DEF Rest, Elems
    <3>. QED BY <3>1, <3>2
  <2>3. Raised(h.c) \/ h.arm = TRUE \/ f \in Elems(Rest) BY <2>1 DEF HearPart
  <2>4. CASE Raised(h.c) BY <2>4 DEF Raised, LineHigh
  <2>5. CASE h.arm = TRUE BY <2>5
  <2>6. CASE f \in Elems(Rest) BY <2>2, <2>6 DEF Elems
  <2>. QED BY <2>3, <2>4, <2>5, <2>6
<1>2. IoInv /\ HearPart /\ [Next]_vars => HearPart' BY IoStepDoes, HearStep, HearStutter
<1>. QED BY <1>1, <1>2, HearInit, IoInvariance, PTL DEF Spec
=============================================================================
