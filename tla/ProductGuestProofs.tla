------------------------- MODULE ProductGuestProofs -------------------------
(***************************************************************************)
(* The spare volume and the product guest, for every size of the volume,   *)
(* of its records, disks and files, and any number of boots and failed     *)
(* commands: what the host knows of does not overlap, a complete upload is *)
(* whole, and the disk of a running guest stays put.                       *)
(***************************************************************************)
EXTENDS ProductGuest, NaturalsInduction, WellFoundedInduction, SequenceTheorems, TLAPS

\* A non-empty set of naturals has a least element: a loop over an array that
\* stops at the first match stops whenever a match exists.
LEMMA LeastNatural ==
    ASSUME NEW S \in SUBSET Nat, S # {}
    PROVE  \E x \in S : \A y \in S : x <= y
<1>. DEFINE R == OpToRel(<, Nat)
<1>1. IsWellFoundedOn(R, Nat) BY NatLessThanWellFounded
<1>. HIDE DEF R
<1>2. \E x \in S : \A y \in S : ~ (<<y, x>> \in R) BY <1>1, WFMin
<1>3. \A x, y \in Nat : (y < x) => <<y, x>> \in R BY DEF R, OpToRel
<1>4. PICK x \in S : \A y \in S : ~ (<<y, x>> \in R) BY <1>2
<1>5. \A y \in S : ~ (y < x) BY <1>3, <1>4
<1>6. \A y \in S : x <= y BY <1>5
<1>. QED BY <1>6

-----------------------------------------------------------------------------
(* Placement *)

\* A guest disk behind the window and below the high records.
Disk(e) ==
    /\ e \in Extent /\ Window <= e.off /\ Window < e.bytes
    /\ End(e) <= Spare - Reserve

\* What the sizes are.
LEMMA Sizes ==
    /\ Spare \in Nat /\ Window \in Nat \ {0} /\ Reserve \in Nat /\ AuditBytes \in Nat \ {0}
    /\ Chunk \in Nat \ {0} /\ DiskMax \in Nat
    /\ Window + AuditBytes + Reserve < Spare
BY LayoutAssumption

\* library_floor leaves room for the file below the high records.
LEMMA FloorRoom ==
    ASSUME NEW n \in Nat
    PROVE  /\ LibraryFloor(n) \in Int
           /\ LibraryFloor(n) >= 0 => LibraryFloor(n) + n <= Spare - Reserve
           /\ LibraryFloor(0) = Spare - Reserve
<1>. DEFINE raw == Spare - Reserve - n
<1>1. CASE n > Spare - Reserve BY <1>1, Sizes DEF LibraryFloor
<1>2. CASE n <= Spare - Reserve
  <2>1. raw \in Nat BY <1>2, Sizes
  <2>2. raw % Chunk \in 0 .. Chunk - 1 BY <2>1, Sizes
  <2>. QED BY <1>2, <2>1, <2>2, Sizes DEF LibraryFloor
<1>. QED BY <1>1, <1>2, Sizes

\* place_in_free_tail puts a disk right behind the window.
LEMMA FreeTailPlace ==
    ASSUME NEW bytes \in Nat, PlaceInFreeTail(bytes) # NoPlace
    PROVE  PlaceInFreeTail(bytes) = At(Window, bytes) /\ Disk(At(Window, bytes))
BY Sizes DEF PlaceInFreeTail, Disk, Extent, At, End

\* place_guest_after_occupied puts it where it was told, below the library.
LEMMA AfterPlace ==
    ASSUME NEW occupied \in Nat, NEW library \in Nat, NEW bytes \in Nat,
           PlaceGuestAfterOccupied(occupied, library, bytes) # NoPlace
    PROVE  /\ PlaceGuestAfterOccupied(occupied, library, bytes) = At(occupied, bytes)
           /\ Disk(At(occupied, bytes))
           /\ occupied + bytes <= LibraryFloor(library)
<1>1. /\ PlaceGuestAfterOccupied(occupied, library, bytes) = At(occupied, bytes)
      /\ bytes > Window /\ occupied >= Window /\ occupied + bytes <= LibraryFloor(library)
  BY DEF PlaceGuestAfterOccupied
<1>2. LibraryFloor(library) \in Int /\ LibraryFloor(library) >= 0 BY <1>1, FloorRoom, Sizes
<1>3. LibraryFloor(library) <= Spare - Reserve BY <1>2, FloorRoom, Sizes
<1>. QED BY <1>1, <1>2, <1>3, Sizes DEF Disk, Extent, At, End

\* place_iso_library puts a file above everything occupied.
LEMMA IsoPlace ==
    ASSUME NEW occupied \in Nat, NEW n \in Nat, PlaceIsoLibrary(occupied, n) # NoPlace
    PROVE  /\ PlaceIsoLibrary(occupied, n) = At(LibraryFloor(n), n)
           /\ n > 0 /\ LibraryFloor(n) \in Nat /\ occupied <= LibraryFloor(n)
           /\ LibraryFloor(n) + n <= Spare - Reserve
BY FloorRoom DEF PlaceIsoLibrary

\* occupied_guest_end is behind the window and behind every disk.
LEMMA OccupiedBounds ==
    ASSUME NEW D, \A d \in D : End(d) \in 0 .. Spare
    PROVE  /\ OccupiedEnd(D) \in Nat /\ Window <= OccupiedEnd(D)
           /\ \A d \in D : End(d) <= OccupiedEnd(D)
<1>. DEFINE ends == {Window} \cup {End(d) : d \in D}
            gaps == {Spare - e : e \in ends}
<1>1. ends \subseteq 0 .. Spare BY Sizes
<1>2. gaps \in SUBSET Nat /\ gaps # {} BY <1>1, Sizes
<1>3. PICK g \in gaps : \A x \in gaps : g <= x BY <1>2, LeastNatural
<1>4. PICK m \in ends : g = Spare - m BY <1>3
<1>5. \A e \in ends : e <= m
  <2>. SUFFICES ASSUME NEW e \in ends PROVE e <= m OBVIOUS
  <2>1. Spare - e \in gaps OBVIOUS
  <2>2. Spare - m <= Spare - e BY <1>3, <1>4, <2>1
  <2>3. e \in Int /\ m \in Int BY <1>1
  <2>. QED BY <2>2, <2>3, Sizes
<1>6. OccupiedEnd(D) \in ends /\ \A e \in ends : e <= OccupiedEnd(D)
  BY <1>5 DEF OccupiedEnd
<1>. QED BY <1>1, <1>6

-----------------------------------------------------------------------------
(* The inductive invariant, in parts that are operators of what they are about *)

Rows == [kind : {"boot", "tailboot"}, off : Nat, bytes : Nat]

\* The disks the probe found: guest disks in order of their place.
TailsGood(ts) ==
    /\ ts \in Seq(Extent)
    /\ \A i \in 1 .. Len(ts) : Disk(ts[i])
    /\ \A i, j \in 1 .. Len(ts) : i < j => End(ts[i]) <= ts[j].off

\* The file held lies where place_iso_library puts it, above those disks.
LibGood(l, ts) ==
    /\ l \in [off : Nat, bytes : Nat, got : Nat, cd : BOOLEAN] /\ l.got <= l.bytes
    /\ l.bytes > 0 => /\ l.off = LibraryFloor(l.bytes) /\ Window <= l.off
                      /\ l.off + l.bytes <= Spare - Reserve
                      /\ \A i \in 1 .. Len(ts) : End(ts[i]) <= l.off

\* What was chosen is a disk, and a new one is behind the others and below the file.
ChoiceGood(c, l, ts) ==
    /\ c \in [kind : {"pending", "boot", "reinstall", "tail", "tailboot"}, off : Nat, bytes : Nat]
    /\ c.kind = "pending" => c = Pending
    /\ c.kind \in {"boot", "reinstall"} => At(c.off, c.bytes) = WindowDisk
    /\ c.kind \in {"tail", "tailboot"} => Disk(At(c.off, c.bytes))
    /\ c.kind = "tail" => /\ \A i \in 1 .. Len(ts) : End(ts[i]) <= c.off
                          /\ l.bytes > 0 => c.off + c.bytes <= l.off

\* A guest runs only with a choice made and no landed Stop, and a relaunch waits only
\* in the idle loop, for a choice made after the Stop.
PhaseGood(ph, c, st, re, l, ts) ==
    /\ ph \in {"off", "probe", "wait", "run", "idle", "hold"}
    /\ st \in BOOLEAN /\ re \in BOOLEAN
    /\ st => ph = "idle"
    /\ re => ph = "idle" /\ ~st /\ c # Pending
    /\ ph = "run" => c # Pending
    /\ ph \in {"off", "probe"} => c = Pending /\ l = NoLib
    /\ ph = "off" => ts = << >>

\* Partition tables hold sizes and the autostart sector holds rows.
VolGood(v) ==
    /\ v = [u \in 0 .. Spare - 1 |-> v[u]]
    /\ \A u \in 0 .. Spare - 1 : /\ v[u][1] = "gpt" => v[u][2] \in Nat
                                 /\ v[u][1] = "auto" => v[u][2] \in Seq(Rows)

\* What of an upload was counted as received is on the volume, unless the file was
\* adopted or a guest of a stale entry has written into it (ad).
Whole(l, ad, v) ==
    ~ad /\ l.bytes > 0 /\ l.off + l.bytes <= AutostartLba =>
        \A k \in 0 .. l.got - 1 : v[l.off + k] = Iso(l.bytes, k)

ListsGood == saved \in Seq(Rows) /\ shown \in Seq(Rows)

ProductIInv ==
    /\ TailsGood(tails)
    /\ LibGood(lib, tails)
    /\ ChoiceGood(choice, lib, tails)
    /\ PhaseGood(phase, choice, stopped, relaunch, lib, tails)
    /\ ListsGood
    /\ VolGood(vol)
    /\ Whole(lib, adopted \/ overrun, vol)

\* A step that leaves alone everything but the loop and its latches.
LEMMA QuietStep ==
    ASSUME ProductIInv, UNCHANGED <<tails, lib, adopted, overrun, choice, saved, shown, vol>>,
           PhaseGood(phase', choice, stopped', relaunch', lib, tails)
    PROVE  ProductIInv'
BY DEF ProductIInv, ListsGood

\* A choice that was made is not the pending one.
LEMMA PickedIs ==
    ASSUME NEW kind \in {"boot", "reinstall", "tail", "tailboot"}, NEW e \in Extent
    PROVE  /\ Picked(kind, e) # Pending
           /\ Picked(kind, e).kind = kind /\ Picked(kind, e).off = e.off
           /\ Picked(kind, e).bytes = e.bytes
           /\ At(Picked(kind, e).off, Picked(kind, e).bytes) = e
           /\ Picked(kind, e) \in [kind : {"pending", "boot", "reinstall", "tail", "tailboot"},
                                   off : Nat, bytes : Nat]
BY DEF Picked, Pending, Extent, At

\* The window, and a disk that is booted, can be chosen at any time.
LEMMA BootChoiceGood ==
    ASSUME NEW kind \in {"boot", "reinstall", "tailboot"}, NEW e \in Extent,
           IF kind = "tailboot" THEN Disk(e) ELSE e = WindowDisk, NEW l, NEW ts
    PROVE  ChoiceGood(Picked(kind, e), l, ts)
BY PickedIs DEF ChoiceGood

\* Nothing is pending.
LEMMA PendingGood == ASSUME NEW l, NEW ts PROVE ChoiceGood(Pending, l, ts)
BY DEF ChoiceGood, Pending

\* The window is an extent, and so is every disk found.
LEMMA Extents ==
    /\ WindowDisk \in Extent /\ WindowDisk # NoPlace /\ NoPlace \in Extent
    /\ \A ts : TailsGood(ts) => \A d \in SeqSet(ts) : d \in Extent /\ Disk(d)
<1>1. WindowDisk \in Extent /\ WindowDisk # NoPlace /\ NoPlace \in Extent
  BY Sizes DEF WindowDisk, NoPlace, Extent, At
<1>2. ASSUME NEW ts, TailsGood(ts), NEW d \in SeqSet(ts) PROVE d \in Extent /\ Disk(d)
  <2>1. PICK i \in 1 .. Len(ts) : d = ts[i] BY DEF SeqSet
  <2>. QED BY <1>2, <2>1 DEF TailsGood, Disk
<1>. QED BY <1>1, <1>2

-----------------------------------------------------------------------------
(* The requests that choose *)

\* Nobody is taken to run: a Stop has landed, or nothing was chosen.
LEMMA NobodyRuns ==
    ASSUME ProductIInv, VmcsGuest = NoGuest
    PROVE  stopped \/ choice = Pending
<1>1. choice.off \in Nat BY DEF ProductIInv, ChoiceGood
<1>. QED BY <1>1 DEF VmcsGuest, NoGuest

\* rearm_guest_after_stop and the start that follows it.
LEMMA StartAgainStep ==
    ASSUME ProductIInv, Serving, VmcsGuest = NoGuest,
           NEW kind \in {"boot", "tailboot"}, NEW place \in Extent,
           place # NoPlace => IF kind = "tailboot" THEN Disk(place) ELSE place = WindowDisk,
           StartAgain(kind, place)
    PROVE  ProductIInv'
<1>1. stopped \/ choice = Pending BY NobodyRuns
<1>2. ChoiceGood(choice', lib, tails) /\ (place # NoPlace => choice' # Pending)
  BY BootChoiceGood, PendingGood, PickedIs DEF StartAgain
<1>3. /\ UNCHANGED <<phase, tails, lib, adopted, overrun, saved, shown, vol>>
      /\ stopped' = FALSE /\ relaunch' = (relaunch \/ (stopped /\ place # NoPlace))
  BY DEF StartAgain, bootVars, libVars, listVars
<1>4. PhaseGood(phase', choice', stopped', relaunch', lib, tails)
  BY <1>1, <1>2, <1>3 DEF ProductIInv, PhaseGood, Serving
<1>. QED BY <1>2, <1>3, <1>4 DEF ProductIInv, ListsGood

\* apply_tail_boot_at finds a place only for a disk.
LEMMA BootPlace ==
    ASSUME ProductIInv, NEW e, e.off \in Nat, e.bytes \in Nat
    PROVE  /\ TailBootPlace(e) \in Extent
           /\ TailBootPlace(e) # NoPlace => Disk(TailBootPlace(e))
<1>1. lib.bytes \in Nat BY DEF ProductIInv, LibGood
<1>2. TailBootPlace(e) # NoPlace => Disk(TailBootPlace(e))
  BY <1>1, FreeTailPlace, AfterPlace DEF TailBootPlace
<1>. QED BY <1>2, Extents DEF Disk

\* The three ways to start a disk that is there.
LEMMA StartsStep ==
    ASSUME ProductIInv,
           StartWindow \/ StartTail \/ \E d \in SeqSet(tails) : StartDiskAt(d)
    PROVE  ProductIInv'
<1>1. CASE StartWindow BY <1>1, Extents, StartAgainStep DEF StartWindow
<1>2. CASE StartTail
  <2>. DEFINE b == IF tails = << >> THEN 0 ELSE tails[1].bytes
  <2>1. b \in Nat
    <3>1. tails # << >> => 1 \in 1 .. Len(tails) BY DEF ProductIInv, TailsGood
    <3>. QED BY <3>1 DEF ProductIInv, TailsGood, Disk, Extent
  <2>. HIDE DEF b
  <2>2. PlaceInFreeTail(b) # NoPlace => Disk(PlaceInFreeTail(b)) BY <2>1, FreeTailPlace
  <2>3. PlaceInFreeTail(b) \in Extent BY <2>2, Extents DEF Disk
  <2>4. Serving /\ VmcsGuest = NoGuest /\ StartAgain("tailboot", PlaceInFreeTail(b))
    BY <1>2 DEF StartTail, b
  <2>. QED BY <2>2, <2>3, <2>4, StartAgainStep
<1>3. ASSUME NEW d \in SeqSet(tails), StartDiskAt(d) PROVE ProductIInv'
  <2>1. d.off \in Nat /\ d.bytes \in Nat BY Extents DEF ProductIInv, Extent
  <2>2. TailBootPlace(d) \in Extent /\ (TailBootPlace(d) # NoPlace => Disk(TailBootPlace(d)))
    BY <2>1, BootPlace
  <2>. QED BY <1>3, <2>2, StartAgainStep DEF StartDiskAt
<1>. QED BY <1>1, <1>2, <1>3

\* A choice made where none was, with everything else but the CD flag left alone.
LEMMA ChosenStep ==
    ASSUME ProductIInv, Serving \/ phase = "wait", choice = Pending \/ choice' = choice,
           ChoiceGood(choice', lib, tails), choice # Pending => choice' # Pending,
           lib' = lib \/ lib' = ChosenLibrary,
           UNCHANGED <<phase, stopped, relaunch, tails, adopted, overrun, saved, shown, vol>>
    PROVE  ProductIInv'
<1>1. /\ lib'.off = lib.off /\ lib'.bytes = lib.bytes /\ lib'.got = lib.got
      /\ lib' \in [off : Nat, bytes : Nat, got : Nat, cd : BOOLEAN]
  BY DEF ChosenLibrary, ProductIInv, LibGood
<1>2. LibGood(lib', tails) /\ ChoiceGood(choice', lib', tails) /\ Whole(lib', adopted \/ overrun, vol)
  BY <1>1 DEF ProductIInv, LibGood, ChoiceGood, Whole
<1>3. PhaseGood(phase, choice', stopped, relaunch, lib', tails)
  BY DEF ProductIInv, PhaseGood, Serving
<1>. QED BY <1>2, <1>3 DEF ProductIInv, ListsGood

\* Where decide_with_layout puts a new disk: behind every disk and below the file.
LEMMA NewDiskGood ==
    ASSUME ProductIInv, choice = Pending, NEW bytes \in Nat, NEW place,
           place = DecideTail(OccupiedEnd(KnownDisks), lib.bytes, bytes), place # NoPlace
    PROVE  place \in Extent /\ ChoiceGood(Picked("tail", place), lib, tails)
<1>1. KnownDisks = SeqSet(tails) BY DEF KnownDisks, ArmedTail, Pending
<1>. DEFINE occ == OccupiedEnd(SeqSet(tails))
<1>2. \A d \in SeqSet(tails) : End(d) \in 0 .. Spare
  BY Extents, Sizes DEF ProductIInv, Disk, Extent, End
<1>3. occ \in Nat /\ Window <= occ /\ \A d \in SeqSet(tails) : End(d) <= occ
  BY <1>2, OccupiedBounds
<1>. HIDE DEF occ
<1>4. lib.bytes \in Nat BY DEF ProductIInv, LibGood
<1>5. /\ place = At(occ, bytes) /\ Disk(place)
      /\ lib.bytes > 0 => occ + bytes <= LibraryFloor(lib.bytes)
  <2>1. CASE occ = Window /\ lib.bytes = 0
    BY <1>1, <1>4, <2>1, FreeTailPlace DEF DecideTail, occ
  <2>2. CASE ~(occ = Window /\ lib.bytes = 0)
    BY <1>1, <1>3, <1>4, <2>2, AfterPlace DEF DecideTail, occ
  <2>. QED BY <2>1, <2>2
<1>6. place \in Extent /\ place.off = occ /\ place.bytes = bytes BY <1>5 DEF Disk, At
<1>7. \A i \in 1 .. Len(tails) : End(tails[i]) <= place.off BY <1>3, <1>6 DEF SeqSet
<1>8. lib.bytes > 0 => place.off + place.bytes <= lib.off
  BY <1>5, <1>6 DEF ProductIInv, LibGood
<1>. QED BY <1>5, <1>6, <1>7, <1>8, PickedIs DEF ChoiceGood

\* InstallLinux, PercChoice and Autostart choose only where nothing was chosen.
LEMMA InstallStep ==
    ASSUME ProductIInv, NEW bytes \in DiskSizes, InstallLinux(bytes)
    PROVE  ProductIInv'
<1>1. bytes \in Nat BY ProductAssumption
<1>2. choice = Pending BY DEF InstallLinux, Choose
<1>3. ChoiceGood(choice', lib, tails)
  <2>1. CASE bytes <= Window
    <3>1. choice' = Picked("reinstall", WindowDisk) BY <1>2, <2>1 DEF InstallLinux, Choose
    <3>. QED BY <3>1, Extents, BootChoiceGood
  <2>2. CASE ~(bytes <= Window)
    <3>. DEFINE place == DecideTail(OccupiedEnd(KnownDisks), lib.bytes, bytes)
    <3>1. place # NoPlace /\ choice' = Picked("tail", place) BY <1>2, <2>2 DEF InstallLinux, Choose
    <3>. QED BY <1>1, <1>2, <3>1, NewDiskGood
  <2>. QED BY <2>1, <2>2
<1>4. /\ Serving /\ lib' = ChosenLibrary
      /\ UNCHANGED <<phase, stopped, relaunch, tails, adopted, overrun, saved, shown, vol>>
  BY DEF InstallLinux, bootVars, listVars
<1>. QED BY <1>2, <1>3, <1>4, ChosenStep

\* POST /perc/boot/...
LEMMA PercChoiceStep ==
    ASSUME ProductIInv, NEW kind \in {"boot", "reinstall"}, PercChoice(kind)
    PROVE  ProductIInv'
<1>1. choice = Pending /\ choice' = Picked(kind, WindowDisk) BY DEF PercChoice, Choose
<1>2. ChoiceGood(choice', lib, tails) BY <1>1, Extents, BootChoiceGood
<1>3. /\ Serving /\ lib' = lib
      /\ UNCHANGED <<phase, stopped, relaunch, tails, adopted, overrun, saved, shown, vol>>
  BY DEF PercChoice, bootVars, libVars, listVars
<1>. QED BY <1>1, <1>2, <1>3, ChosenStep

\* try_autostart
LEMMA AutostartStep ==
    ASSUME ProductIInv, Autostart
    PROVE  ProductIInv'
<1>. DEFINE e == saved[1]
            place == IF e.kind = "boot" THEN WindowDisk ELSE TailBootPlace(e)
<1>1. e \in Rows BY DEF Autostart, ProductIInv, ListsGood
<1>2. choice = Pending BY DEF Autostart
<1>3. choice' = IF place = NoPlace THEN choice ELSE Picked(e.kind, place) BY DEF Autostart
<1>4. /\ place \in Extent
      /\ place # NoPlace => IF e.kind = "tailboot" THEN Disk(place) ELSE place = WindowDisk
  BY <1>1, BootPlace, Extents DEF Rows
<1>5. e.kind \in {"boot", "tailboot"} BY <1>1 DEF Rows
<1>. HIDE DEF e, place
<1>6. ChoiceGood(choice', lib, tails)
  BY <1>2, <1>3, <1>4, <1>5, BootChoiceGood, PendingGood
<1>7. /\ phase = "wait" /\ lib' = lib
      /\ UNCHANGED <<phase, stopped, relaunch, tails, adopted, overrun, saved, shown, vol>>
  BY DEF Autostart, bootVars, libVars
<1>. QED BY <1>2, <1>6, <1>7, ChosenStep

-----------------------------------------------------------------------------
(* Boot and reset of the host *)

\* A host before a boot.
LEMMA ProductIInvInit == Init => ProductIInv
<1>. SUFFICES ASSUME Init PROVE ProductIInv OBVIOUS
<1>1. TailsGood(tails) /\ ListsGood BY DEF Init, TailsGood, ListsGood
<1>2. LibGood(lib, tails) /\ Whole(lib, adopted \/ overrun, vol) BY DEF Init, LibGood, Whole, NoLib
<1>3. ChoiceGood(choice, lib, tails) BY PendingGood DEF Init
<1>4. PhaseGood(phase, choice, stopped, relaunch, lib, tails) BY DEF Init, PhaseGood
<1>5. VolGood(vol)
  <2>1. PICK bytes \in {0} \cup DiskSizes, listed \in BOOLEAN :
          vol = [u \in 0 .. Spare - 1 |->
                   IF u = Window /\ PlaceInFreeTail(bytes) # NoPlace THEN Gpt(bytes)
                   ELSE IF u = AutostartLba /\ listed
                   THEN AutoSector(<<Entry("tailboot", At(Window, bytes))>>) ELSE Blank]
    BY DEF Init
  <2>2. bytes \in Nat BY ProductAssumption
  <2>3. Gpt(bytes)[1] = "gpt" /\ Gpt(bytes)[2] = bytes /\ Blank[1] = "blank" BY DEF Gpt, Blank
  <2>. DEFINE row == Entry("tailboot", At(Window, bytes))
              list == <<row>>
              sector == AutoSector(list)
  <2>4. row \in Rows BY <2>2, Sizes DEF Entry, Rows, At
  <2>. HIDE DEF row
  <2>5. list \in Seq(Rows) BY <2>4
  <2>. HIDE DEF list
  <2>6. sector[1] = "auto" /\ sector[2] = list BY DEF AutoSector
  <2>7. vol = [u \in 0 .. Spare - 1 |->
                 IF u = Window /\ PlaceInFreeTail(bytes) # NoPlace THEN Gpt(bytes)
                 ELSE IF u = AutostartLba /\ listed THEN sector ELSE Blank]
    BY <2>1 DEF row, list
  <2>. HIDE DEF sector
  <2>8. \A u \in 0 .. Spare - 1 : vol[u] \in {Gpt(bytes), sector, Blank} BY <2>7
  <2>9. vol = [u \in 0 .. Spare - 1 |-> vol[u]] BY <2>7
  <2>. QED BY <2>2, <2>3, <2>5, <2>6, <2>8, <2>9 DEF VolGood
<1>. QED BY <1>1, <1>2, <1>3, <1>4, <1>5 DEF ProductIInv

\* perc_load_autostart
LEMMA BootStep ==
    ASSUME ProductIInv, Boot
    PROVE  ProductIInv'
<1>1. DecodeList \in Seq(Rows)
  <2>1. AutostartLba \in 0 .. Spare - 1 BY Sizes DEF AutostartLba
  <2>2. << >> \in Seq(Rows) OBVIOUS
  <2>. QED BY <2>1, <2>2 DEF ProductIInv, VolGood, DecodeList
<1>2. saved' \in Seq(Rows) /\ shown' = saved'
  <2>1. << >> \in Seq(Rows) OBVIOUS
  <2>2. (saved' = DecodeList \/ saved' = << >>) /\ shown' = saved' BY DEF Boot
  <2>. QED BY <1>1, <2>1, <2>2
<1>3. /\ phase = "off" /\ phase' = "probe"
      /\ UNCHANGED <<tails, lib, adopted, overrun, choice, stopped, relaunch, vol>>
  BY DEF Boot, guestVars, libVars
<1>4. PhaseGood(phase', choice, stopped, relaunch, lib, tails)
  BY <1>3 DEF ProductIInv, PhaseGood
<1>. QED BY <1>2, <1>3, <1>4 DEF ProductIInv, ListsGood

\* Where the walk stands: behind the window and every disk it has found.
LEMMA CursorBehind ==
    ASSUME TailsGood(tails)
    PROVE  /\ Cursor \in Nat /\ Window <= Cursor /\ Cursor <= Spare - Reserve
           /\ \A i \in 1 .. Len(tails) : End(tails[i]) <= Cursor
<1>1. CASE tails = << >>
  <2>1. Len(tails) = 0 BY <1>1
  <2>2. Cursor = Window BY <1>1 DEF Cursor
  <2>. QED BY <2>1, <2>2, Sizes
<1>2. CASE tails # << >>
  <2>. DEFINE n == Len(tails)
  <2>1. n \in 1 .. n BY <1>2 DEF TailsGood
  <2>2. Cursor = End(tails[n]) BY <1>2 DEF Cursor
  <2>3. \A i \in 1 .. n : tails[i].off \in Nat /\ tails[i].bytes \in Nat /\ Disk(tails[i])
    BY DEF TailsGood, Disk, Extent
  <2>4. \A i \in 1 .. n : End(tails[i]) \in Nat /\ Window <= End(tails[i])
                          /\ End(tails[i]) <= Spare - Reserve /\ tails[i].off <= End(tails[i])
    BY <2>3, Sizes DEF Disk, End
  <2>5. n \in Nat BY DEF TailsGood
  <2>6. ASSUME NEW i \in 1 .. n PROVE End(tails[i]) <= Cursor
    <3>1. CASE i = n BY <2>2, <2>4, <3>1
    <3>2. CASE i < n
      <4>1. End(tails[i]) <= tails[n].off BY <2>1, <3>2 DEF TailsGood
      <4>. QED BY <2>1, <2>2, <2>3, <2>4, <4>1
    <3>. QED BY <2>5, <3>1, <3>2
  <2>. QED BY <2>1, <2>2, <2>4, <2>6
<1>. QED BY <1>1, <1>2

\* walk_gpt_disks finds a disk behind those it has.
LEMMA ProbeDiskStep ==
    ASSUME ProductIInv, ProbeDisk
    PROVE  ProductIInv'
<1>1. /\ phase = "probe" /\ Cursor < LibraryFloor(0) /\ DiskHere # 0
      /\ tails' = Append(tails, At(Cursor, DiskHere))
      /\ UNCHANGED <<phase, lib, adopted, overrun, choice, stopped, relaunch, vol, saved, shown>>
  BY DEF ProbeDisk, WalkOn, guestVars, libVars, listVars
<1>2. TailsGood(tails) BY DEF ProductIInv
<1>3. /\ Cursor \in Nat /\ Window <= Cursor /\ Cursor <= Spare - Reserve
      /\ \A i \in 1 .. Len(tails) : End(tails[i]) <= Cursor
  BY <1>2, CursorBehind
<1>. DEFINE c == Cursor
            b == DiskHere
            new == At(c, b)
<1>4. GptSize(c) \in Nat
  <2>1. c \in 0 .. Spare - 1 BY <1>1, <1>3, FloorRoom, Sizes
  <2>. HIDE DEF c
  <2>. QED BY <2>1 DEF ProductIInv, VolGood, GptSize
<1>5. b \in Nat /\ b > Window /\ c + b <= Spare - Reserve
  BY <1>1, <1>4, FloorRoom, Sizes DEF DiskHere, DiskBytesAt
<1>. HIDE DEF c, b
<1>6. new \in Extent /\ Disk(new) /\ new.off = c
  BY <1>3, <1>5, Sizes DEF Disk, Extent, At, End, c
<1>. HIDE DEF new
<1>7. tails' = Append(tails, new) BY <1>1 DEF new, c, b
<1>8. tails \in Seq(Extent) BY <1>2 DEF TailsGood
<1>9. /\ tails' \in Seq(Extent) /\ Len(tails') = Len(tails) + 1 /\ Len(tails) \in Nat
      /\ \A i \in 1 .. Len(tails) : tails'[i] = tails[i]
      /\ tails'[Len(tails) + 1] = new
  BY <1>6, <1>7, <1>8, AppendProperties
<1>10. \A i \in 1 .. Len(tails') : Disk(tails'[i])
  <2>. SUFFICES ASSUME NEW i \in 1 .. Len(tails') PROVE Disk(tails'[i]) OBVIOUS
  <2>1. i \in 1 .. Len(tails) \/ i = Len(tails) + 1 BY <1>9
  <2>. QED BY <1>2, <1>6, <1>9, <2>1 DEF TailsGood
<1>11. \A i, j \in 1 .. Len(tails') : i < j => End(tails'[i]) <= tails'[j].off
  <2>. SUFFICES ASSUME NEW i \in 1 .. Len(tails'), NEW j \in 1 .. Len(tails'), i < j
                PROVE  End(tails'[i]) <= tails'[j].off
    OBVIOUS
  <2>1. i \in 1 .. Len(tails) /\ (j \in 1 .. Len(tails) \/ j = Len(tails) + 1) BY <1>9
  <2>. QED BY <1>2, <1>3, <1>6, <1>9, <2>1 DEF TailsGood, c
<1>12. TailsGood(tails') BY <1>9, <1>10, <1>11 DEF TailsGood
<1>13. choice = Pending /\ lib = NoLib BY <1>1 DEF ProductIInv, PhaseGood
<1>14. LibGood(lib, tails') BY <1>13 DEF LibGood, NoLib
<1>15. ChoiceGood(choice, lib, tails') BY <1>13, PendingGood
<1>16. PhaseGood(phase, choice, stopped, relaunch, lib, tails')
  BY <1>1 DEF ProductIInv, PhaseGood
<1>. QED BY <1>1, <1>12, <1>14, <1>15, <1>16 DEF ProductIInv, ListsGood

\* adopt_stored_ubuntu puts the file above the disks the walk has found.
LEMMA ProbeEndStep ==
    ASSUME ProductIInv, ProbeEnd
    PROVE  ProductIInv'
<1>. DEFINE occ == OccupiedEnd(SeqSet(tails))
<1>1. PICK readable \in BOOLEAN : lib' = Adopted(occ, readable) BY DEF ProbeEnd
<1>2. /\ phase = "probe" /\ phase' = "wait" /\ adopted' = (lib' # NoLib)
      /\ UNCHANGED <<tails, choice, stopped, relaunch, vol, saved, shown>>
  BY DEF ProbeEnd, guestVars, listVars
<1>3. occ \in Nat /\ Window <= occ /\ \A i \in 1 .. Len(tails) : End(tails[i]) <= occ
  <2>1. \A d \in SeqSet(tails) : End(d) \in 0 .. Spare
    BY Extents, Sizes DEF ProductIInv, Disk, Extent, End
  <2>2. occ \in Nat /\ Window <= occ /\ \A d \in SeqSet(tails) : End(d) <= occ
    BY <2>1, OccupiedBounds
  <2>. QED BY <2>2 DEF SeqSet
<1>. HIDE DEF occ
<1>4. LibGood(lib', tails) /\ Whole(lib', adopted' \/ overrun', vol)
  <2>1. CASE lib' = NoLib BY <2>1 DEF LibGood, Whole, NoLib
  <2>2. CASE lib' # NoLib
    <3>. DEFINE place == PlaceIsoLibrary(occ, StoredIso)
    <3>1. /\ place # NoPlace
          /\ lib' = [off |-> place.off, bytes |-> StoredIso, got |-> StoredIso, cd |-> FALSE]
      BY <1>1, <2>2 DEF Adopted
    <3>2. StoredIso \in Nat BY ProductAssumption
    <3>3. /\ place = At(LibraryFloor(StoredIso), StoredIso) /\ LibraryFloor(StoredIso) \in Nat
          /\ occ <= LibraryFloor(StoredIso) /\ LibraryFloor(StoredIso) + StoredIso <= Spare - Reserve
      BY <1>3, <3>1, <3>2, IsoPlace
    <3>. HIDE DEF place
    <3>4. /\ lib'.off = LibraryFloor(StoredIso) /\ lib'.bytes = StoredIso /\ lib'.got = StoredIso
          /\ lib' \in [off : Nat, bytes : Nat, got : Nat, cd : BOOLEAN]
      BY <3>1, <3>2, <3>3 DEF At
    <3>5. \A i \in 1 .. Len(tails) : End(tails[i]) \in Nat
      <4>1. \A i \in 1 .. Len(tails) : tails[i].off \in Nat /\ tails[i].bytes \in Nat
        BY DEF ProductIInv, TailsGood, Disk, Extent
      <4>. QED BY <4>1 DEF End
    <3>6. LibGood(lib', tails) BY <1>3, <3>2, <3>3, <3>4, <3>5, Sizes DEF LibGood
    <3>. QED BY <1>2, <2>2, <3>6 DEF Whole
  <2>. QED BY <2>1, <2>2
<1>5. choice = Pending BY <1>2 DEF ProductIInv, PhaseGood
<1>6. ChoiceGood(choice, lib', tails) BY <1>5, PendingGood
<1>7. PhaseGood(phase', choice, stopped, relaunch, lib', tails)
  BY <1>2 DEF ProductIInv, PhaseGood
<1>. QED BY <1>2, <1>4, <1>6, <1>7 DEF ProductIInv, ListsGood

\* A reset of the host.
LEMMA HostResetStep ==
    ASSUME ProductIInv, HostReset
    PROVE  ProductIInv'
<1>1. /\ phase' = "off" /\ choice' = Pending /\ stopped' = FALSE /\ relaunch' = FALSE
      /\ tails' = << >> /\ lib' = NoLib /\ adopted' = FALSE /\ overrun' = FALSE
      /\ saved' = << >> /\ shown' = << >> /\ vol' = vol
  BY DEF HostReset
<1>2. TailsGood(tails') /\ ListsGood' BY <1>1 DEF TailsGood, ListsGood
<1>3. LibGood(lib', tails') /\ Whole(lib', adopted' \/ overrun', vol') BY <1>1 DEF LibGood, Whole, NoLib
<1>4. ChoiceGood(choice', lib', tails') BY <1>1, PendingGood
<1>5. PhaseGood(phase', choice', stopped', relaunch', lib', tails') BY <1>1 DEF PhaseGood
<1>. QED BY <1>1, <1>2, <1>3, <1>4, <1>5 DEF ProductIInv

-----------------------------------------------------------------------------
(* The list for the next boot *)

\* The autostart sector on a volume v.
Stored(v, list) == [v EXCEPT ![AutostartLba] = AutoSector(list)]

\* A list on its sector is a list, and no file below the host's records is touched.
LEMMA StoredGood ==
    ASSUME NEW v, VolGood(v), NEW list \in Seq(Rows)
    PROVE  /\ VolGood(Stored(v, list))
           /\ \A l, ad, ts : LibGood(l, ts) /\ Whole(l, ad, v) => Whole(l, ad, Stored(v, list))
<1>. DEFINE a == AutostartLba
            x == AutoSector(list)
            w == [v EXCEPT ![a] = x]
<1>1. a \in 0 .. Spare - 1 BY Sizes DEF AutostartLba
<1>2. x[1] = "auto" /\ x[2] = list BY DEF AutoSector
<1>. HIDE DEF a, x
<1>3. v = [u \in 0 .. Spare - 1 |-> v[u]] BY DEF VolGood
<1>4. /\ w = [u \in 0 .. Spare - 1 |-> w[u]]
      /\ \A u \in 0 .. Spare - 1 : w[u] = IF u = a THEN x ELSE v[u]
  BY <1>1, <1>3
<1>5. Stored(v, list) = w BY DEF Stored, a, x
<1>. HIDE DEF w
<1>6. VolGood(w) BY <1>2, <1>4 DEF VolGood
<1>7. ASSUME NEW l, NEW ad, NEW ts, LibGood(l, ts), Whole(l, ad, v),
             ~ad, l.bytes > 0, l.off + l.bytes <= a, NEW k \in 0 .. l.got - 1
      PROVE  w[l.off + k] = Iso(l.bytes, k)
  <2>1. l.off \in Nat /\ l.bytes \in Nat /\ l.got \in Nat /\ l.got <= l.bytes BY <1>7 DEF LibGood
  <2>2. l.off + k \in 0 .. Spare - 1 /\ l.off + k # a BY <1>1, <1>7, <2>1, Sizes
  <2>3. v[l.off + k] = Iso(l.bytes, k) BY <1>7 DEF Whole, a
  <2>. QED BY <1>4, <2>2, <2>3
<1>8. ASSUME NEW l, NEW ad, NEW ts, LibGood(l, ts), Whole(l, ad, v) PROVE Whole(l, ad, w)
  BY <1>7, <1>8 DEF Whole, a
<1>. QED BY <1>5, <1>6, <1>8

\* flush_autostart leaves the sector as it was or with the new list.
LEMMA FlushStep ==
    ASSUME ProductIInv, NEW list \in Seq(Rows), NEW on \in BOOLEAN, FlushAutostart(list, on),
           shown' \in Seq(Rows),
           UNCHANGED <<phase, tails, lib, adopted, overrun, choice, stopped, relaunch, saved>>
    PROVE  ProductIInv'
<1>1. vol' = vol \/ vol' = Stored(vol, list) BY DEF FlushAutostart, Stored, Fault
<1>2. VolGood(vol') /\ Whole(lib, adopted \/ overrun, vol')
  BY <1>1, StoredGood DEF ProductIInv
<1>. QED BY <1>2 DEF ProductIInv, ListsGood

\* boot_next_rest
LEMMA EditStep ==
    ASSUME ProductIInv, NEW list \in Seq(Rows), Edit(list)
    PROVE  ProductIInv'
<1>1. /\ shown' = list /\ FlushAutostart(list, TRUE)
      /\ UNCHANGED <<phase, tails, lib, adopted, overrun, choice, stopped, relaunch, saved>>
  BY DEF Edit, guestVars, bootVars, libVars
<1>. QED BY <1>1, FlushStep

\* remember
LEMMA RememberStep ==
    ASSUME ProductIInv, NEW e \in Rows, Remember(e)
    PROVE  ProductIInv'
<1>. DEFINE row == {i \in 1 .. Len(shown) : shown[i].off = e.off /\ shown[i].kind = e.kind}
            new == [i \in 1 .. Len(shown) |-> IF i \in row THEN e ELSE shown[i]]
<1>1. shown \in Seq(Rows) /\ Len(shown) \in Nat BY DEF ProductIInv, ListsGood
<1>2. CASE row # {}
  <2>1. Edit(new) BY <1>2 DEF Remember
  <2>2. \A i \in 1 .. Len(shown) : shown[i] \in Rows BY <1>1
  <2>. HIDE DEF row
  <2>3. new \in [1 .. Len(shown) -> Rows] BY <2>2
  <2>. HIDE DEF new
  <2>4. new \in Seq(Rows) BY <1>1, <2>3
  <2>. QED BY <2>1, <2>4, EditStep
<1>3. CASE row = {}
  <2>1. Edit(Append(shown, e)) BY <1>3 DEF Remember
  <2>2. Append(shown, e) \in Seq(Rows) BY <1>1
  <2>. QED BY <2>1, <2>2, EditStep
<1>. QED BY <1>2, <1>3

\* The edits of the Guests page, and the flush of the wait and the idle loop.
LEMMA ListStep ==
    ASSUME ProductIInv,
           \/ BootNextWindow \/ (\E d \in SeqSet(tails) : BootNextDisk(d))
           \/ (\E i \in 1 .. MaxEntries : BootNextForget(i)) \/ BootNextClear \/ Flush
    PROVE  ProductIInv'
<1>1. CASE BootNextWindow
  <2>1. Entry("boot", WindowDisk) \in Rows BY Extents DEF Entry, Rows, Extent
  <2>. QED BY <1>1, <2>1, RememberStep DEF BootNextWindow
<1>2. ASSUME NEW d \in SeqSet(tails), BootNextDisk(d) PROVE ProductIInv'
  <2>1. d \in Extent BY Extents DEF ProductIInv
  <2>2. Entry("tailboot", d) \in Rows BY <2>1 DEF Entry, Rows, Extent
  <2>. QED BY <1>2, <2>2, RememberStep DEF BootNextDisk
<1>3. ASSUME NEW i \in 1 .. MaxEntries, BootNextForget(i) PROVE ProductIInv'
  <2>. DEFINE head == SubSeq(shown, 1, i - 1)
              rest == SubSeq(shown, i + 1, Len(shown))
  <2>1. shown \in Seq(Rows) /\ Len(shown) \in Nat /\ i \in 1 .. Len(shown)
    BY <1>3 DEF ProductIInv, ListsGood, BootNextForget
  <2>2. \A j \in 1 .. Len(shown) : shown[j] \in Rows BY <2>1
  <2>3. \A j \in 1 .. i - 1 : shown[j] \in Rows BY <2>1, <2>2
  <2>4. \A j \in i + 1 .. Len(shown) : shown[j] \in Rows BY <2>1, <2>2
  <2>5. head \in Seq(Rows)
    <3>1. 1 \in Int /\ i - 1 \in Int BY <2>1
    <3>. QED BY <2>3, <3>1, SubSeqProperties
  <2>6. rest \in Seq(Rows)
    <3>1. i + 1 \in Int /\ Len(shown) \in Int BY <2>1
    <3>. QED BY <2>4, <3>1, SubSeqProperties
  <2>7. Edit(head \o rest) BY <1>3 DEF BootNextForget
  <2>. HIDE DEF head, rest
  <2>8. head \o rest \in Seq(Rows) BY <2>5, <2>6
  <2>. QED BY <2>7, <2>8, EditStep
<1>4. CASE BootNextClear
  <2>1. << >> \in Seq(Rows) OBVIOUS
  <2>. QED BY <1>4, <2>1, EditStep DEF BootNextClear
<1>5. CASE Flush
  <2>1. /\ staged /\ VmcsGuest = NoGuest /\ FlushAutostart(shown, staged) /\ shown' = shown
        /\ UNCHANGED <<phase, tails, lib, adopted, overrun, choice, stopped, relaunch, saved>>
    BY <1>5 DEF Flush, guestVars, bootVars, libVars
  <2>2. vol' = vol \/ vol' = Stored(vol, shown) BY <2>1 DEF FlushAutostart, Stored, Fault
  <2>3. VolGood(vol') /\ Whole(lib, adopted \/ overrun, vol')
    BY <2>2, StoredGood DEF ProductIInv, ListsGood
  <2>. QED BY <2>1, <2>3 DEF ProductIInv, ListsGood
<1>. QED BY <1>1, <1>2, <1>3, <1>4, <1>5

-----------------------------------------------------------------------------
(* The library *)

\* A step that only replaces the file held and what is on the volume.
LEMMA LibraryStep ==
    ASSUME ProductIInv, Serving, LibGood(lib', tails), ChoiceGood(choice, lib', tails),
           VolGood(vol'), Whole(lib', adopted' \/ overrun', vol'),
           UNCHANGED <<phase, tails, choice, stopped, relaunch, saved, shown>>
    PROVE  ProductIInv'
<1>1. PhaseGood(phase, choice, stopped, relaunch, lib', tails)
  BY DEF ProductIInv, PhaseGood, Serving
<1>. QED BY <1>1 DEF ProductIInv, ListsGood

\* The next chunk of a file: what is counted is written first.
LEMMA WriteChunkStep ==
    ASSUME ProductIInv, Serving, NEW l, l.bytes > 0, LibGood(l, tails),
           ChoiceGood(choice, l, tails), Whole(l, adopted' \/ overrun', vol), WriteChunk(l),
           UNCHANGED <<phase, tails, choice, stopped, relaunch, saved, shown>>
    PROVE  ProductIInv'
<1>1. CASE lib' = l /\ vol' = vol BY <1>1, LibraryStep DEF ProductIInv
<1>. DEFINE next == Least(l.bytes, l.got + Chunk)
<1>2. ASSUME lib' = [l EXCEPT !.got = next],
             vol' = [u \in 0 .. Spare - 1 |->
                       IF u - l.off \in l.got .. next - 1 THEN Iso(l.bytes, u - l.off) ELSE vol[u]]
      PROVE  ProductIInv'
  <2>1. /\ l \in [off : Nat, bytes : Nat, got : Nat, cd : BOOLEAN] /\ l.got <= l.bytes
        /\ l.off \in Nat /\ l.bytes \in Nat /\ l.got \in Nat
        /\ l.off + l.bytes <= Spare - Reserve
    BY DEF LibGood
  <2>2. next \in Nat /\ l.got <= next /\ next <= l.bytes BY <2>1, Sizes DEF Least
  <2>. HIDE DEF next
  <2>3. /\ lib'.off = l.off /\ lib'.bytes = l.bytes /\ lib'.got = next
        /\ lib' \in [off : Nat, bytes : Nat, got : Nat, cd : BOOLEAN]
    BY <1>2, <2>1, <2>2
  <2>4. LibGood(lib', tails) BY <2>2, <2>3 DEF LibGood
  <2>5. ChoiceGood(choice, lib', tails) BY <2>3 DEF ChoiceGood
  <2>6. \A k : Iso(l.bytes, k)[1] = "iso" BY DEF Iso
  <2>7. \A u \in 0 .. Spare - 1 :
            vol'[u] = IF u - l.off \in l.got .. next - 1 THEN Iso(l.bytes, u - l.off) ELSE vol[u]
    BY <1>2
  <2>8. VolGood(vol')
    <3>1. vol' = [u \in 0 .. Spare - 1 |-> vol'[u]] BY <1>2
    <3>2. ASSUME NEW u \in 0 .. Spare - 1
          PROVE  /\ vol'[u][1] = "gpt" => vol'[u][2] \in Nat
                 /\ vol'[u][1] = "auto" => vol'[u][2] \in Seq(Rows)
      <4>1. CASE u - l.off \in l.got .. next - 1
        <5>1. vol'[u][1] = "iso" BY <2>6, <2>7, <4>1
        <5>. QED BY <5>1
      <4>2. CASE u - l.off \notin l.got .. next - 1
        <5>1. vol'[u] = vol[u] BY <2>7, <4>2
        <5>. QED BY <5>1 DEF ProductIInv, VolGood
      <4>. QED BY <4>1, <4>2
    <3>. QED BY <3>1, <3>2 DEF VolGood
  <2>9. Whole(lib', adopted' \/ overrun', vol')
    <3>. SUFFICES ASSUME ~adopted', ~overrun', lib'.off + lib'.bytes <= AutostartLba,
                         NEW k \in 0 .. next - 1
                  PROVE  vol'[l.off + k] = Iso(l.bytes, k)
      BY <2>3 DEF Whole
    <3>1. l.off + k \in 0 .. Spare - 1 /\ (l.off + k) - l.off = k /\ k \in Int
      BY <2>1, <2>2, Sizes
    <3>2. CASE k >= l.got
      <4>1. k \in l.got .. next - 1 BY <2>1, <2>2, <3>2
      <4>. QED BY <2>7, <3>1, <4>1
    <3>3. CASE ~(k >= l.got)
      <4>1. k \in 0 .. l.got - 1 /\ k \notin l.got .. next - 1 BY <2>1, <2>2, <3>3
      <4>2. vol[l.off + k] = Iso(l.bytes, k) BY <2>3, <4>1 DEF Whole
      <4>. QED BY <2>7, <3>1, <4>1, <4>2
    <3>. QED BY <3>2, <3>3
  <2>. QED BY <2>4, <2>5, <2>8, <2>9, LibraryStep
<1>. QED BY <1>1, <1>2 DEF WriteChunk

\* accept_upload at offset 0: the new file lies above every disk the host knows.
LEMMA UploadFirstStep ==
    ASSUME ProductIInv, NEW total \in IsoSizes, UploadFirst(total)
    PROVE  ProductIInv'
<1>. DEFINE occ == OccupiedEnd(KnownDisks)
            place == PlaceIsoLibrary(occ, total)
            l == [off |-> place.off, bytes |-> total, got |-> 0, cd |-> FALSE]
<1>1. /\ Serving
      /\ UNCHANGED <<phase, tails, choice, stopped, relaunch, saved, shown>>
      /\ IF place = NoPlace THEN lib' = NoLib /\ vol' = vol ELSE WriteChunk(l)
  BY DEF UploadFirst, guestVars, bootVars, listVars
<1>2. total \in Nat \ {0} BY ProductAssumption
<1>3. occ \in Nat /\ Window <= occ /\ \A d \in KnownDisks : End(d) <= occ
  <2>1. \A d \in KnownDisks : End(d) \in 0 .. Spare
    <3>1. \A d \in KnownDisks : Disk(d)
      BY Extents DEF KnownDisks, ArmedTail, ProductIInv, ChoiceGood
    <3>. QED BY <3>1, Sizes DEF Disk, Extent, End
  <2>. QED BY <2>1, OccupiedBounds
<1>. HIDE DEF occ
<1>4. CASE place = NoPlace
  <2>1. lib' = NoLib /\ vol' = vol BY <1>1, <1>4
  <2>2. LibGood(lib', tails) /\ Whole(lib', adopted' \/ overrun', vol') BY <2>1 DEF LibGood, Whole, NoLib
  <2>3. ChoiceGood(choice, lib', tails) BY <2>1 DEF ProductIInv, ChoiceGood, NoLib
  <2>. QED BY <1>1, <2>1, <2>2, <2>3, LibraryStep DEF ProductIInv
<1>5. CASE place # NoPlace
  <2>1. /\ place = At(LibraryFloor(total), total) /\ LibraryFloor(total) \in Nat
        /\ occ <= LibraryFloor(total) /\ LibraryFloor(total) + total <= Spare - Reserve
    BY <1>2, <1>3, <1>5, IsoPlace
  <2>. HIDE DEF place
  <2>2. /\ l.off = LibraryFloor(total) /\ l.bytes = total /\ l.got = 0
        /\ l \in [off : Nat, bytes : Nat, got : Nat, cd : BOOLEAN]
    BY <1>2, <2>1 DEF At
  <2>. HIDE DEF l
  <2>3. \A i \in 1 .. Len(tails) : End(tails[i]) <= occ /\ End(tails[i]) \in Nat
    <3>1. \A i \in 1 .. Len(tails) : tails[i] \in KnownDisks BY DEF KnownDisks, SeqSet
    <3>2. \A i \in 1 .. Len(tails) : tails[i].off \in Nat /\ tails[i].bytes \in Nat
      BY DEF ProductIInv, TailsGood, Disk, Extent
    <3>. QED BY <1>3, <3>1, <3>2 DEF End
  <2>4. LibGood(l, tails) BY <1>2, <1>3, <2>1, <2>2, <2>3, Sizes DEF LibGood
  <2>5. ChoiceGood(choice, l, tails)
    <3>1. ASSUME choice.kind = "tail" PROVE choice.off + choice.bytes <= l.off
      <4>1. At(choice.off, choice.bytes) \in KnownDisks BY <3>1 DEF KnownDisks, ArmedTail
      <4>2. choice.off \in Nat /\ choice.bytes \in Nat BY DEF ProductIInv, ChoiceGood
      <4>3. choice.off + choice.bytes <= occ BY <1>3, <4>1 DEF End, At
      <4>. QED BY <1>3, <2>1, <2>2, <4>2, <4>3
    <3>. QED BY <3>1 DEF ProductIInv, ChoiceGood
  <2>6. Whole(l, adopted' \/ overrun', vol) BY <2>2 DEF Whole
  <2>. QED BY <1>1, <1>2, <1>5, <2>2, <2>4, <2>5, <2>6, WriteChunkStep
<1>. QED BY <1>4, <1>5

\* accept_upload of the next chunk, and the clearing of the file.
LEMMA UploadStep ==
    ASSUME ProductIInv, UploadNext \/ ClearLibrary
    PROVE  ProductIInv'
<1>1. CASE UploadNext
  <2>1. /\ Serving /\ lib.bytes > 0 /\ WriteChunk(lib) /\ adopted' = adopted /\ overrun' = overrun
        /\ UNCHANGED <<phase, tails, choice, stopped, relaunch, saved, shown>>
    BY <1>1 DEF UploadNext, guestVars, bootVars, listVars, ProductIInv, LibGood
  <2>. QED BY <2>1, WriteChunkStep DEF ProductIInv
<1>2. CASE ClearLibrary
  <2>. DEFINE o == lib.off
  <2>1. /\ Serving /\ vol' = [vol EXCEPT ![o] = Blank] /\ lib' = NoLib
        /\ UNCHANGED <<phase, tails, choice, stopped, relaunch, saved, shown>>
    BY <1>2 DEF ClearLibrary, guestVars, bootVars, listVars
  <2>2. LibGood(lib', tails) /\ Whole(lib', adopted' \/ overrun', vol') BY <2>1 DEF LibGood, Whole, NoLib
  <2>3. ChoiceGood(choice, lib', tails) BY <2>1 DEF ProductIInv, ChoiceGood, NoLib
  <2>. HIDE DEF o
  <2>4. Blank[1] = "blank" BY DEF Blank
  <2>5. vol = [u \in 0 .. Spare - 1 |-> vol[u]] BY DEF ProductIInv, VolGood
  <2>6. /\ vol' = [u \in 0 .. Spare - 1 |-> vol'[u]]
        /\ \A u \in 0 .. Spare - 1 : vol'[u] = IF u = o THEN Blank ELSE vol[u]
    BY <2>1, <2>5
  <2>7. VolGood(vol') BY <2>4, <2>6 DEF ProductIInv, VolGood
  <2>. QED BY <2>1, <2>2, <2>3, <2>7, LibraryStep
<1>. QED BY <1>1, <1>2

-----------------------------------------------------------------------------
(* The loops *)

\* The steps that only move the processor from loop to loop, or ask for it.
LEMMA LoopStep ==
    ASSUME ProductIInv,
           \/ Stop \/ (\E ask \in {"shutdown", "reboot"} : Power(ask))
           \/ Launch \/ Relaunch \/ TakeStop \/ ServeS5
           \/ (\E ph \in {"seen", "done"} : PowerAnswer(ph)) \/ OwnReset \/ GuestDies
    PROVE  ProductIInv'
<1>1. UNCHANGED <<tails, lib, adopted, overrun, choice, saved, shown, vol>>
  BY DEF Stop, Power, Launch, Relaunch, TakeStop, ServeS5, PowerAnswer, OwnReset, GuestDies,
         guestVars, bootVars, libVars, listVars
<1>. USE DEF guestVars
<1>2. CASE Stop \/ \E ask \in {"shutdown", "reboot"} : Power(ask)
  BY <1>1, <1>2, QuietStep DEF Stop, Power, ProductIInv
<1>3. CASE Launch
  BY <1>1, <1>3, QuietStep DEF Launch, ProductIInv, PhaseGood
<1>4. CASE Relaunch
  BY <1>1, <1>4, QuietStep DEF Relaunch, ProductIInv, PhaseGood
<1>5. CASE TakeStop
  BY <1>1, <1>5, QuietStep DEF TakeStop, ProductIInv, PhaseGood
<1>6. CASE ServeS5
  BY <1>1, <1>6, QuietStep DEF ServeS5, GuestReset, ProductIInv, PhaseGood
<1>7. CASE \E ph \in {"seen", "done"} : PowerAnswer(ph)
  BY <1>1, <1>7, QuietStep DEF PowerAnswer, ProductIInv
<1>8. CASE OwnReset
  BY <1>1, <1>8, QuietStep DEF OwnReset, GuestRuns, GuestReset, ProductIInv, PhaseGood
<1>9. CASE GuestDies
  BY <1>1, <1>9, QuietStep DEF GuestDies, GuestRuns, ProductIInv, PhaseGood
<1>. QED BY <1>2, <1>3, <1>4, <1>5, <1>6, <1>7, <1>8, <1>9

\* A guest's disk lies below the file, unless it was started from a stale entry.
LEMMA DiskBelowFile ==
    ASSUME ProductIInv, choice # Pending, ~StaleEntry, lib.bytes > 0
    PROVE  choice.off + choice.bytes <= lib.off
<1>1. /\ choice.off \in Nat /\ choice.bytes \in Nat
      /\ choice.kind \in {"boot", "reinstall", "tail", "tailboot"}
  BY DEF ProductIInv, ChoiceGood
<1>2. CASE choice.kind = "tail" BY <1>2 DEF ProductIInv, ChoiceGood
<1>3. CASE choice.kind = "tailboot"
  <2>1. PICK i \in 1 .. Len(tails) : At(choice.off, choice.bytes) = tails[i]
    BY <1>3 DEF StaleEntry, SeqSet
  <2>2. End(tails[i]) = choice.off + choice.bytes BY <2>1 DEF At, End
  <2>. QED BY <2>2 DEF ProductIInv, LibGood
<1>4. CASE choice.kind \in {"boot", "reinstall"}
  <2>1. At(choice.off, choice.bytes) = At(0, Window)
    BY <1>4 DEF ProductIInv, ChoiceGood, WindowDisk
  <2>2. choice.off = 0 /\ choice.bytes = Window BY <2>1 DEF At
  <2>3. Window <= lib.off BY DEF ProductIInv, LibGood
  <2>. QED BY <2>2, <2>3, Sizes
<1>. QED BY <1>1, <1>2, <1>3, <1>4

\* A guest fills its disk, and the host remembers when that was a stale entry's and
\* met the file.
LEMMA GuestWritesStep ==
    ASSUME ProductIInv, GuestWrites
    PROVE  ProductIInv'
<1>1. PICK first \in {Data, Gpt(choice.bytes)} :
        vol' = [u \in 0 .. Spare - 1 |->
                  IF u = choice.off THEN first
                  ELSE IF u \in Units(choice) THEN Data ELSE vol[u]]
  BY DEF GuestWrites
<1>2. /\ phase = "run" /\ overrun' = (overrun \/ (StaleEntry /\ ~Apart(choice, lib)))
      /\ UNCHANGED <<phase, tails, choice, stopped, relaunch, lib, adopted, saved, shown>>
  BY DEF GuestWrites, GuestRuns, guestVars, bootVars, listVars
<1>3. choice # Pending /\ Serving BY <1>2 DEF ProductIInv, PhaseGood, Serving
<1>4. /\ choice.off \in Nat /\ choice.bytes \in Nat /\ 0 < choice.bytes
  <2>1. /\ choice.off \in Nat /\ choice.bytes \in Nat
        /\ choice.kind \in {"boot", "reinstall", "tail", "tailboot"}
    BY <1>3 DEF ProductIInv, ChoiceGood
  <2>2. CASE choice.kind \in {"tail", "tailboot"}
    BY <2>1, <2>2, Sizes DEF ProductIInv, ChoiceGood, Disk, At
  <2>3. CASE choice.kind \in {"boot", "reinstall"}
    <3>1. At(choice.off, choice.bytes) = At(0, Window)
      BY <2>3 DEF ProductIInv, ChoiceGood, WindowDisk
    <3>2. choice.bytes = Window BY <3>1 DEF At
    <3>. QED BY <2>1, <3>2, Sizes
  <2>. QED BY <2>1, <2>2, <2>3
<1>5. /\ vol' = [u \in 0 .. Spare - 1 |-> vol'[u]]
      /\ \A u \in 0 .. Spare - 1 :
            vol'[u] = IF u = choice.off THEN first
                      ELSE IF u \in Units(choice) THEN Data ELSE vol[u]
  BY <1>1
<1>6. /\ Gpt(choice.bytes)[1] = "gpt" /\ Gpt(choice.bytes)[2] = choice.bytes /\ Data[1] = "data"
  BY DEF Gpt, Data
<1>7. VolGood(vol') BY <1>4, <1>5, <1>6 DEF ProductIInv, VolGood
<1>8. Whole(lib', adopted' \/ overrun', vol')
  <2>. SUFFICES ASSUME ~adopted, ~overrun', lib.bytes > 0, lib.off + lib.bytes <= AutostartLba,
                       NEW k \in 0 .. lib.got - 1
                PROVE  vol'[lib.off + k] = Iso(lib.bytes, k)
    BY <1>2 DEF Whole
  <2>1. /\ lib.off \in Nat /\ lib.bytes \in Nat /\ lib.got \in Nat /\ lib.got <= lib.bytes
        /\ lib.off + lib.bytes <= Spare - Reserve
    BY DEF ProductIInv, LibGood
  <2>2. choice.off + choice.bytes <= lib.off \/ lib.off + lib.bytes <= choice.off
    BY <1>2, <1>3, DiskBelowFile DEF Apart, End
  <2>3. /\ lib.off + k \in 0 .. Spare - 1 /\ lib.off + k # choice.off
        /\ lib.off + k \notin Units(choice)
    BY <1>4, <2>1, <2>2, Sizes DEF Units, End
  <2>4. vol[lib.off + k] = Iso(lib.bytes, k) BY <1>2 DEF ProductIInv, Whole
  <2>. QED BY <1>5, <2>3, <2>4
<1>. QED BY <1>2, <1>3, <1>7, <1>8, LibraryStep DEF ProductIInv

-----------------------------------------------------------------------------
(* The theorems *)

\* Every step keeps the invariant.
LEMMA ProductIInvStep == ProductIInv /\ [Next]_vars => ProductIInv'
<1>. SUFFICES ASSUME ProductIInv, [Next]_vars PROVE ProductIInv' OBVIOUS
<1>1. CASE UNCHANGED vars
  <2>1. UNCHANGED <<phase, stopped, relaunch, tails, lib, adopted, overrun, choice, saved, shown, vol>>
    BY <1>1 DEF vars, guestVars, bootVars, libVars, listVars
  <2>. QED BY <2>1, QuietStep DEF ProductIInv
<1>2. CASE Boot \/ ProbeDisk \/ ProbeEnd \/ HostReset
  BY <1>2, BootStep, ProbeDiskStep, ProbeEndStep, HostResetStep
<1>3. CASE Request
  BY <1>3, StartsStep, InstallStep, PercChoiceStep, LoopStep, ListStep, UploadFirstStep,
     UploadStep DEF Request
<1>4. CASE Autostart \/ Flush \/ Launch \/ Relaunch
  BY <1>4, AutostartStep, ListStep, LoopStep
<1>5. CASE Exit BY <1>5, LoopStep, GuestWritesStep DEF Exit
<1>. QED BY <1>1, <1>2, <1>3, <1>4, <1>5 DEF Next

\* The invariant holds at every moment.
LEMMA ProductInvariant == Spec => []ProductIInv
BY ProductIInvInit, ProductIInvStep, PTL DEF Spec

\* What the invariant says of the extents in use, pair by pair.
LEMMA ApartFromInvariant == ProductIInv => KnownApart
<1>. SUFFICES ASSUME ProductIInv, ~StaleEntry PROVE KnownApart BY DEF KnownApart
<1>. DEFINE file == At(lib.off, lib.bytes)
            armed == At(choice.off, choice.bytes)
            found == SeqSet(tails)
            new == IF choice.kind = "tail" THEN {armed} ELSE {}
            files == IF lib.bytes > 0 THEN {file} ELSE {}
            used == {WindowDisk} \cup KnownDisks \cup files
<1>1. used = {WindowDisk} \cup found \cup new \cup files
  BY DEF KnownDisks, ArmedTail, StaleEntry
<1>2. /\ WindowDisk.off = 0 /\ End(WindowDisk) = Window /\ End(WindowDisk) <= Spare - Reserve
  BY Sizes DEF WindowDisk, At, End
<1>3. \A d \in found : d.off \in Nat /\ End(d) \in Nat /\ Window <= d.off /\ End(d) <= Spare - Reserve
  BY Extents DEF ProductIInv, Disk, Extent, End
<1>4. \A d \in new : /\ d.off \in Nat /\ End(d) \in Nat /\ Window <= d.off /\ End(d) <= Spare - Reserve
                     /\ \A e \in found : End(e) <= d.off
                     /\ \A f \in files : End(d) <= f.off
  <2>. SUFFICES ASSUME choice.kind = "tail"
                PROVE  /\ armed.off \in Nat /\ End(armed) \in Nat /\ Window <= armed.off
                       /\ End(armed) <= Spare - Reserve
                       /\ \A e \in found : End(e) <= armed.off
                       /\ lib.bytes > 0 => End(armed) <= file.off
    OBVIOUS
  <2>1. Disk(armed) BY DEF ProductIInv, ChoiceGood
  <2>2. choice.off \in Nat /\ choice.bytes \in Nat BY DEF ProductIInv, ChoiceGood
  <2>3. armed.off = choice.off /\ End(armed) = choice.off + choice.bytes /\ file.off = lib.off
    BY DEF At, End
  <2>4. \A e \in found : End(e) <= choice.off BY DEF ProductIInv, ChoiceGood, SeqSet
  <2>5. lib.bytes > 0 => choice.off + choice.bytes <= lib.off BY DEF ProductIInv, ChoiceGood
  <2>6. Window <= armed.off /\ End(armed) <= Spare - Reserve BY <2>1 DEF Disk
  <2>. QED BY <2>2, <2>3, <2>4, <2>5, <2>6
<1>5. \A f \in files : /\ f.off \in Nat /\ End(f) \in Nat /\ Window <= f.off /\ End(f) <= Spare - Reserve
                       /\ \A e \in found : End(e) <= f.off
  <2>. SUFFICES ASSUME lib.bytes > 0
                PROVE  /\ file.off \in Nat /\ End(file) \in Nat /\ Window <= file.off
                       /\ End(file) <= Spare - Reserve
                       /\ \A e \in found : End(e) <= file.off
    OBVIOUS
  <2>1. file.off = lib.off /\ End(file) = lib.off + lib.bytes BY DEF At, End
  <2>2. lib.off \in Nat /\ lib.bytes \in Nat BY DEF ProductIInv, LibGood
  <2>3. Window <= lib.off /\ lib.off + lib.bytes <= Spare - Reserve BY DEF ProductIInv, LibGood
  <2>4. \A e \in found : End(e) <= lib.off BY DEF ProductIInv, LibGood, SeqSet
  <2>. QED BY <2>1, <2>2, <2>3, <2>4
<1>6. \A d, e \in found : d # e => Apart(d, e)
  <2>. SUFFICES ASSUME NEW d \in found, NEW e \in found, d # e PROVE Apart(d, e) OBVIOUS
  <2>1. PICK i \in 1 .. Len(tails) : d = tails[i] BY DEF SeqSet
  <2>2. PICK j \in 1 .. Len(tails) : e = tails[j] BY DEF SeqSet
  <2>3. Len(tails) \in Nat BY DEF ProductIInv, TailsGood
  <2>4. i < j \/ j < i BY <2>1, <2>2, <2>3
  <2>. QED BY <2>1, <2>2, <2>4 DEF ProductIInv, TailsGood, Apart
<1>7. (\A d, e \in new : d = e) /\ \A d, e \in files : d = e OBVIOUS
<1>. HIDE DEF found, new, files
<1>8. \A d, e \in used : d # e => Apart(d, e)
  <2>. SUFFICES ASSUME NEW d \in used, NEW e \in used, d # e PROVE Apart(d, e) OBVIOUS
  <2>1. CASE d = WindowDisk BY <1>1, <1>2, <1>3, <1>4, <1>5, <2>1 DEF Apart
  <2>2. CASE e = WindowDisk BY <1>1, <1>2, <1>3, <1>4, <1>5, <2>2 DEF Apart
  <2>3. CASE d \in found BY <1>1, <1>4, <1>5, <1>6, <2>2, <2>3 DEF Apart
  <2>4. CASE d \in new BY <1>1, <1>4, <1>7, <2>2, <2>4 DEF Apart
  <2>5. CASE d \in files BY <1>1, <1>4, <1>5, <1>7, <2>2, <2>5 DEF Apart
  <2>. QED BY <1>1, <2>1, <2>3, <2>4, <2>5
<1>9. \A d \in used : End(d) <= Spare - Reserve BY <1>1, <1>2, <1>3, <1>4, <1>5
<1>. QED BY <1>8, <1>9 DEF KnownApart, files

\* KnownApart, for every layout: the window, the disks the probe found, the disk being
\* installed or booted and the stored file never overlap and end below the high
\* records (place_iso_library, decide_with_layout, apply_tail_boot_at).
THEOREM DisksAndFileStayApart == Spec => []KnownApart
BY ProductInvariant, ApartFromInvariant, PTL

\* CompleteIsWhole, for every layout: every unit of a file uploaded in this boot that
\* counts as complete (library_complete) is on the volume, whatever the running guests
\* have written into their disks (guest_io_span), whatever was flushed since and
\* whichever commands failed, unless a guest of a stale entry has written into it.
THEOREM CompleteUploadIsWhole == Spec => []CompleteIsWhole
<1>1. ProductIInv => CompleteIsWhole
  <2>. SUFFICES ASSUME ProductIInv, lib.bytes > 0, lib.got >= lib.bytes, ~adopted, ~overrun,
                       lib.off + lib.bytes <= AutostartLba, NEW k \in 0 .. lib.bytes - 1
                PROVE  vol[lib.off + k] = Iso(lib.bytes, k)
    BY DEF CompleteIsWhole, LibraryComplete
  <2>1. lib.bytes \in Nat /\ lib.got \in Nat BY DEF ProductIInv, LibGood
  <2>2. k \in 0 .. lib.got - 1 BY <2>1
  <2>. QED BY <2>2 DEF ProductIInv, Whole
<1>. QED BY <1>1, ProductInvariant, PTL

\* DiskStaysPut: nothing the listener accepts while a guest runs, and no exit,
\* changes the disk the guest's reads and writes are mapped to (guest_io_span).
\* Every Start asks whether a guest is on (held_by_other), and the other choices are
\* made by compare_exchange from the pending one, which a running guest excludes.
THEOREM RunningDiskStaysPut == Spec => DiskStaysPut
<1>. DEFINE Put == phase = "run" /\ phase' \in {"run", "idle"} => choice' = choice
<1>1. ASSUME ProductIInv, [Next]_vars PROVE [Put]_vars
  <2>. SUFFICES ASSUME phase = "run", phase' \in {"run", "idle"} PROVE choice' = choice OBVIOUS
  <2>1. choice # Pending /\ ~stopped BY <1>1 DEF ProductIInv, PhaseGood
  <2>2. VmcsGuest # NoGuest BY <1>1, <2>1, NobodyRuns
  <2>3. CASE UNCHANGED vars BY <2>3 DEF vars, guestVars
  <2>4. CASE Boot \/ ProbeDisk \/ ProbeEnd \/ HostReset
    BY <2>4 DEF Boot, ProbeDisk, ProbeEnd, HostReset
  <2>5. CASE Request
    <3>. DEFINE Starts == StartWindow \/ StartTail \/ \E d \in SeqSet(tails) : StartDiskAt(d)
    <3>1. ~Starts BY <2>2 DEF StartWindow, StartTail, StartDiskAt
    <3>2. \A bytes : ~InstallLinux(bytes) BY <2>1 DEF InstallLinux, Choose
    <3>3. \A kind : ~PercChoice(kind) BY <2>1 DEF PercChoice, Choose
    <3>. HIDE DEF Starts
    <3>4. \/ Starts \/ (\E b : InstallLinux(b)) \/ (\E kind : PercChoice(kind))
          \/ Stop \/ (\E ask \in {"shutdown", "reboot"} : Power(ask))
          \/ (\E list : Edit(list))
          \/ (\E total \in IsoSizes : UploadFirst(total)) \/ UploadNext \/ ClearLibrary
      BY <2>5 DEF Request, Starts, BootNextWindow, BootNextDisk, BootNextForget, BootNextClear,
                  Remember
    <3>. QED BY <3>1, <3>2, <3>3, <3>4
         DEF Stop, Power, Edit, UploadFirst, UploadNext, ClearLibrary, guestVars
  <2>6. CASE Autostart \/ Flush \/ Launch \/ Relaunch
    BY <2>6 DEF Autostart, Flush, Launch, Relaunch
  <2>7. CASE Exit
    BY <2>7 DEF Exit, TakeStop, ServeS5, PowerAnswer, OwnReset, GuestDies, GuestWrites, guestVars
  <2>. QED BY <1>1, <2>3, <2>4, <2>5, <2>6, <2>7 DEF Next
<1>. QED BY <1>1, ProductInvariant, PTL DEF Spec, DiskStaysPut

-----------------------------------------------------------------------------
(* The list for the next boot *)

\* The sector of the list is not part of a disk a guest installs or boots from, nor the
\* first of the stored file (the one clear_library_operator zeroes).
RecordApart ==
    /\ choice.kind \in {"tail", "tailboot"} => AutostartLba \notin Units(choice)
    /\ lib # NoLib => lib.off # AutostartLba

\* A step that leaves the sector of the list alone.
LEMMA SectorKept ==
    ASSUME ListIsKept, vol'[AutostartLba] = vol[AutostartLba],
           UNCHANGED <<phase, shown, staged>>, unread \subseteq unread'
    PROVE  ListIsKept'
<1>1. DecodeList' = DecodeList BY DEF DecodeList, AutostartLba
<1>. QED BY <1>1 DEF ListIsKept, AutostartLba

\* A step to another loop of a host that stays on.
LEMMA LoopKept ==
    ASSUME ListIsKept, phase # "off", UNCHANGED <<vol, shown, staged, unread>>
    PROVE  ListIsKept'
<1>1. DecodeList' = DecodeList BY DEF DecodeList, AutostartLba
<1>. QED BY <1>1 DEF ListIsKept, AutostartLba

\* flush_autostart: what it acknowledges is on the sector.
LEMMA FlushKeeps ==
    ASSUME ProductIInv, NEW list, FlushAutostart(list, TRUE), shown' = list
    PROVE  ListIsKept'
<1>1. AutostartLba \in 0 .. Spare - 1 BY Sizes DEF AutostartLba
<1>2. CASE staged' = TRUE BY <1>2 DEF ListIsKept
<1>3. CASE vol' = [vol EXCEPT ![AutostartLba] = AutoSector(list)]
  <2>1. vol'[AutostartLba] = AutoSector(list) BY <1>1, <1>3 DEF ProductIInv, VolGood
  <2>2. AutoSector(list)[1] = "auto" /\ AutoSector(list)[2] = list BY DEF AutoSector
  <2>3. DecodeList' = list BY <2>1, <2>2 DEF DecodeList, AutostartLba
  <2>. QED BY <2>3 DEF ListIsKept
<1>. QED BY <1>2, <1>3 DEF FlushAutostart

\* A chunk of a file leaves the sector alone or lies over it.
LEMMA ChunkKeeps ==
    ASSUME ProductIInv, ListIsKept, NEW l, WriteChunk(l), UNCHANGED <<phase, shown, staged, unread>>
    PROVE  ListIsKept'
<1>1. AutostartLba \in 0 .. Spare - 1 BY Sizes DEF AutostartLba
<1>2. CASE vol' = vol BY <1>2, SectorKept
<1>3. CASE vol' # vol
  <2>. DEFINE next == Least(l.bytes, l.got + Chunk)
  <2>1. vol'[AutostartLba] = IF AutostartLba - l.off \in l.got .. next - 1
                             THEN Iso(l.bytes, AutostartLba - l.off) ELSE vol[AutostartLba]
    BY <1>1, <1>3 DEF WriteChunk
  <2>2. Iso(l.bytes, AutostartLba - l.off)[1] = "iso" BY DEF Iso
  <2>. HIDE DEF next
  <2>3. CASE AutostartLba - l.off \in l.got .. next - 1
    <3>1. vol'[AutostartLba][1] = "iso" BY <2>1, <2>2, <2>3
    <3>. QED BY <3>1 DEF ListIsKept, AutostartLba
  <2>4. CASE AutostartLba - l.off \notin l.got .. next - 1 BY <2>1, <2>4, SectorKept
  <2>. QED BY <2>3, <2>4
<1>. QED BY <1>2, <1>3

\* Every step keeps the list as long as nothing else owns its sector.
LEMMA ListStepKeeps ==
    ASSUME ProductIInv, ListIsKept, RecordApart, [Next]_vars
    PROVE  ListIsKept'
<1>1. AutostartLba \in 0 .. Spare - 1 BY Sizes DEF AutostartLba
<1>2. CASE UNCHANGED vars BY <1>2, SectorKept DEF vars, bootVars, listVars
<1>3. CASE Boot
  <2>1. DecodeList' = DecodeList BY <1>3 DEF Boot, DecodeList, AutostartLba
  <2>2. shown' = DecodeList \/ "list" \in unread' BY <1>3 DEF Boot
  <2>. QED BY <2>1, <2>2 DEF ListIsKept
<1>4. CASE ProbeDisk BY <1>4, SectorKept DEF ProbeDisk, listVars
<1>5. CASE ProbeEnd
  <2>1. unread \subseteq unread' BY <1>5 DEF ProbeEnd
  <2>2. UNCHANGED <<vol, shown, staged>> /\ phase = "probe" BY <1>5 DEF ProbeEnd, listVars
  <2>3. DecodeList' = DecodeList BY <2>2 DEF DecodeList, AutostartLba
  <2>. QED BY <2>1, <2>2, <2>3 DEF ListIsKept, AutostartLba
<1>6. CASE HostReset BY <1>6 DEF HostReset, ListIsKept
<1>7. CASE Request
  <2>1. CASE StartWindow \/ StartTail \/ \E d \in SeqSet(tails) : StartDiskAt(d)
    BY <2>1, SectorKept DEF StartWindow, StartTail, StartDiskAt, StartAgain, listVars, bootVars
  <2>2. CASE \/ \E bytes \in DiskSizes : InstallLinux(bytes)
             \/ \E kind \in {"boot", "reinstall"} : PercChoice(kind)
             \/ Stop
             \/ \E ask \in {"shutdown", "reboot"} : Power(ask)
    BY <2>2, SectorKept DEF InstallLinux, PercChoice, Stop, Power, listVars, bootVars
  <2>3. CASE \/ BootNextWindow \/ (\E d \in SeqSet(tails) : BootNextDisk(d))
             \/ (\E i \in 1 .. MaxEntries : BootNextForget(i)) \/ BootNextClear
    <3>1. PICK list : Edit(list)
      BY <2>3 DEF BootNextWindow, BootNextDisk, BootNextForget, BootNextClear, Remember
    <3>. QED BY <3>1, FlushKeeps DEF Edit
  <2>4. CASE \E total \in IsoSizes : UploadFirst(total)
    <3>1. UNCHANGED <<phase, shown, staged, unread>> BY <2>4 DEF UploadFirst, bootVars, listVars
    <3>2. vol' = vol \/ \E l : WriteChunk(l) BY <2>4 DEF UploadFirst
    <3>. QED BY <3>1, <3>2, SectorKept, ChunkKeeps
  <2>5. CASE UploadNext BY <2>5, ChunkKeeps DEF UploadNext, bootVars, listVars
  <2>6. CASE ClearLibrary
    <3>1. vol' = [vol EXCEPT ![lib.off] = Blank] /\ UNCHANGED <<phase, shown, staged, unread>>
      BY <2>6 DEF ClearLibrary, bootVars, listVars
    <3>2. lib.off # AutostartLba BY <2>6 DEF ClearLibrary, RecordApart
    <3>3. vol'[AutostartLba] = vol[AutostartLba] BY <1>1, <3>1, <3>2 DEF ProductIInv, VolGood
    <3>. QED BY <3>1, <3>3, SectorKept
  <2>. QED BY <1>7, <2>1, <2>2, <2>3, <2>4, <2>5, <2>6 DEF Request
<1>8. CASE Autostart BY <1>8, SectorKept DEF Autostart, bootVars
<1>9. CASE Flush
  <2>1. FlushAutostart(shown, staged) /\ shown' = shown /\ staged /\ VmcsGuest = NoGuest
    BY <1>9 DEF Flush
  <2>2. FlushAutostart(shown, TRUE) BY <2>1 DEF FlushAutostart
  <2>. QED BY <2>1, <2>2, FlushKeeps
<1>10. CASE Launch \/ Relaunch
  BY <1>10, LoopKept DEF Launch, Relaunch, bootVars, listVars
<1>11. CASE Exit
  <2>1. CASE GuestWrites
    <3>1. PICK first : vol' = [u \in 0 .. Spare - 1 |->
                                 IF u = choice.off THEN first
                                 ELSE IF u \in Units(choice) THEN Data ELSE vol[u]]
      BY <2>1 DEF GuestWrites
    <3>2. UNCHANGED <<phase, shown, staged, unread>> /\ phase = "run"
      BY <2>1 DEF GuestWrites, GuestRuns, bootVars, listVars
    <3>3. AutostartLba # choice.off /\ AutostartLba \notin Units(choice)
      <4>1. /\ choice.off \in Nat /\ choice.bytes \in Nat
            /\ choice.kind \in {"boot", "reinstall", "tail", "tailboot"}
        BY <3>2 DEF ProductIInv, PhaseGood, ChoiceGood
      <4>2. CASE choice.kind \in {"tail", "tailboot"}
        <5>1. Window < choice.bytes BY <4>2 DEF ProductIInv, ChoiceGood, Disk, At
        <5>2. choice.off \in Units(choice) BY <4>1, <5>1, Sizes DEF Units, End
        <5>. QED BY <4>2, <5>2 DEF RecordApart
      <4>3. CASE choice.kind \in {"boot", "reinstall"}
        <5>1. At(choice.off, choice.bytes) = At(0, Window)
          BY <4>3 DEF ProductIInv, ChoiceGood, WindowDisk
        <5>2. choice.off = 0 /\ choice.bytes = Window BY <5>1 DEF At
        <5>. QED BY <5>2, Sizes DEF Units, End, AutostartLba
      <4>. QED BY <4>1, <4>2, <4>3
    <3>4. vol'[AutostartLba] = vol[AutostartLba] BY <1>1, <3>1, <3>3
    <3>. QED BY <3>2, <3>4, SectorKept
  <2>2. CASE TakeStop \/ ServeS5 \/ (\E ph \in {"seen", "done"} : PowerAnswer(ph))
             \/ OwnReset \/ GuestDies
    BY <2>2, LoopKept DEF TakeStop, ServeS5, PowerAnswer, OwnReset, GuestDies, GuestRuns,
                          bootVars, listVars
  <2>. QED BY <1>11, <2>1, <2>2 DEF Exit
<1>. QED BY <1>2, <1>3, <1>4, <1>5, <1>6, <1>7, <1>8, <1>9, <1>10, <1>11 DEF Next

\* ListIsKept, for every layout and as long as no disk a guest installs or boots from
\* and no first sector of a stored file lies on the sector of the list: what flush_autostart
\* acknowledged is what the next boot reads, after any failed write or read-back and
\* any edit, upload, install, Stop or reset in between.
THEOREM AcknowledgedListIsKept == Spec /\ []RecordApart => []ListIsKept
<1>1. Init => ListIsKept BY DEF Init, ListIsKept
<1>2. ProductIInv /\ RecordApart /\ ListIsKept /\ [Next]_vars => ListIsKept' BY ListStepKeeps
<1>. QED BY <1>1, <1>2, ProductInvariant, PTL DEF Spec
=============================================================================
