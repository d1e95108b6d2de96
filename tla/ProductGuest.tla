---------------------------- MODULE ProductGuest ----------------------------
(***************************************************************************)
(* The product guest on a host with the spare volume: the choice of what   *)
(* boots (mgmt/perc_boot_choice.rs), the Guests page that makes it         *)
(* (mgmt/guest_catalog.rs), Stop, Start again and the power button         *)
(* (mgmt/guest_power.rs), the list of guests to start at the next boot     *)
(* (mgmt/guest_autostart.rs) and the stored installer (mgmt/iso_library.rs)*)
(*                                                                         *)
(* Requests are served by the listener between two rounds of whatever loop *)
(* the processor is in: the wait for a choice, the guest's exits, the idle *)
(* loop after Stop, or the hold after any other end of the guest.  The     *)
(* installed window is latched throughout, as a product host boots.        *)
(* Requests that are refused and change nothing are left out.              *)
(***************************************************************************)
EXTENDS SpareLayout, FiniteSets

CONSTANTS DiskSizes,    \* disks the operator installs
          IsoSizes,     \* library files the operator uploads
          StoredIso,    \* STORED_UBUNTU_BYTES
          MaxEntries,   \* MAX_ENTRIES of the autostart list
          ResetMax,     \* RAYNU_F_RESET_MAX
          MaxBoots,     \* bound on boots of the host
          MaxFaults     \* bound on failed disk commands

ASSUME ProductAssumption ==
    /\ DiskSizes \subseteq Nat \ {0} /\ IsoSizes \subseteq Nat \ {0} /\ StoredIso \in Nat \ {0}
    /\ {MaxEntries, ResetMax, MaxBoots, MaxFaults} \subseteq Nat

VARIABLES
    phase,      \* the loop the processor is in; "off" is a host that was reset,
                \* "probe" one that starts
    choice,     \* CHOICE with TAIL_OFF and TAIL_BYTES
    stop,       \* GUEST_STOP
    stopped,    \* GUEST_STOPPED
    relaunch,   \* PERC_RELAUNCH
    power,      \* ASK and PHASE of guest_power
    resets,     \* RAYNU_F_RESET_N
    tails,      \* the guest disks found by the one probe of this boot
    unread,     \* what could not be read at this boot
    lib,        \* LIB_OFF, LIB_LEN, RECEIVED and CD_BOOT
    adopted,    \* the library was adopted at boot, not uploaded
    saved,      \* SAVED: the list this boot may start from
    shown,      \* SHOWN: the list with the page's edits
    staged,     \* DIRTY_ON
    taken,      \* TAKEN
    dropped,    \* a refused Start has consumed the landed Stop
    vol,        \* the volume, unit by unit
    overrun,    \* a guest of a stale boot entry has written into the file held
    boots, faults

guestVars == <<choice, stop, stopped, relaunch, dropped>>
listVars == <<saved, shown, staged, taken>>
libVars == <<lib, adopted, overrun>>
bootVars == <<tails, unread, boots>>
vars == <<phase, guestVars, power, resets, bootVars, libVars, listVars, vol, faults>>

Pending == [kind |-> "pending", off |-> 0, bytes |-> 0]

Picked(kind, e) == [kind |-> kind, off |-> e.off, bytes |-> e.bytes]

WindowDisk == At(0, Window)

NoAsk == [ask |-> "none", ph |-> "open"]

NoLib == [off |-> 0, bytes |-> 0, got |-> 0, cd |-> FALSE]

Entry(kind, e) == [kind |-> kind, off |-> e.off, bytes |-> e.bytes]

\* What a unit of the volume holds.
Blank == <<"blank">>
Data == <<"data">>
Gpt(bytes) == <<"gpt", bytes>>
Iso(total, k) == <<"iso", total, k>>
AutoSector(list) == <<"auto", list>>

GptSize(u) == IF vol[u][1] = "gpt" THEN vol[u][2] ELSE 0

\* decode of the autostart sector: anything else is the empty list.
DecodeList == IF vol[AutostartLba][1] = "auto" THEN vol[AutostartLba][2] ELSE << >>

\* What the next disk command costs if it fails.
Fault == faults < MaxFaults /\ faults' = faults + 1

SeqSet(s) == {s[i] : i \in 1 .. Len(s)}

\* armed_tail
ArmedTail ==
    IF choice.kind \in {"tail", "tailboot"} THEN {At(choice.off, choice.bytes)} ELSE {}

\* vmcs_guest: where the disk of the guest taken to be running starts.
NoGuest == -1
VmcsGuest == IF stopped \/ choice = Pending THEN NoGuest ELSE choice.off

KnownDisks == SeqSet(tails) \cup ArmedTail

\* An entry of the boot list names a disk the probe of this boot has not found: it
\* could not be read, or another disk was put there since.
StaleEntry == choice.kind = "tailboot" /\ At(choice.off, choice.bytes) \notin SeqSet(tails)

\* The listener is served in every loop, from the wait on.
Serving == phase \notin {"off", "probe"}

\* A host before a boot; an earlier boot may have installed a first guest disk and put
\* it on the list.
Init ==
    /\ phase = "off"
    /\ choice = Pending /\ stop = FALSE /\ stopped = FALSE /\ relaunch = FALSE
    /\ dropped = FALSE
    /\ power = NoAsk /\ resets = 0
    /\ tails = << >> /\ unread = {}
    /\ lib = NoLib /\ adopted = FALSE /\ overrun = FALSE
    /\ saved = << >> /\ shown = << >> /\ staged = FALSE /\ taken = FALSE
    /\ \E bytes \in {0} \cup DiskSizes, listed \in BOOLEAN :
         /\ listed => PlaceInFreeTail(bytes) # NoPlace /\ 0 < MaxEntries
         /\ vol = [u \in 0 .. Spare - 1 |->
                      IF u = Window /\ PlaceInFreeTail(bytes) # NoPlace THEN Gpt(bytes)
                      ELSE IF u = AutostartLba /\ listed
                      THEN AutoSector(<<Entry("tailboot", At(Window, bytes))>>) ELSE Blank]
    /\ boots = 0 /\ faults = 0

-----------------------------------------------------------------------------
(* Boot and reset of the host *)

\* adopt_stored_ubuntu: begin_library, then the file's signature sector.
Adopted(occupied, readable) ==
    LET place == PlaceIsoLibrary(occupied, StoredIso)
    IN  IF /\ place # NoPlace /\ readable
           /\ vol[place.off][1] = "iso" /\ vol[place.off][3] = 0
        THEN [off |-> place.off, bytes |-> StoredIso, got |-> StoredIso, cd |-> FALSE]
        ELSE NoLib

\* perc_load_autostart
Boot ==
    /\ phase = "off" /\ phase' = "probe"
    /\ \/ saved' = DecodeList /\ unread' = {} /\ UNCHANGED faults
       \/ saved' = << >> /\ unread' = {"list"} /\ Fault
    /\ shown' = saved'
    /\ UNCHANGED <<guestVars, power, resets, tails, boots, libVars, staged, taken, vol>>

\* walk_gpt_disks: the disks lie one after the other from the window on.
Cursor == IF tails = << >> THEN Window ELSE End(tails[Len(tails)])
WalkOn == Len(tails) < DiskMax /\ Cursor < LibraryFloor(0)
DiskHere == DiskBytesAt(Cursor, GptSize(Cursor), LibraryFloor(0))

\* The one probe of this boot (cached_tails), disk by disk.
ProbeDisk ==
    /\ phase = "probe" /\ WalkOn /\ DiskHere # 0
    /\ tails' = Append(tails, At(Cursor, DiskHere))
    /\ UNCHANGED <<phase, guestVars, power, resets, unread, boots, libVars, listVars, vol, faults>>

\* The walk ends at the first sector that shows no disk or cannot be read; then the
\* start of firmware_wait adopts a stored file.
ProbeEnd ==
    /\ phase = "probe" /\ phase' = "wait"
    /\ \E bad \in SUBSET {"probe", "iso"} :
         /\ faults + Cardinality(bad) <= MaxFaults
         /\ faults' = faults + Cardinality(bad)
         /\ unread' = unread \cup bad
         /\ IF "probe" \in bad THEN WalkOn ELSE ~(WalkOn /\ DiskHere # 0)
         /\ lib' = Adopted(OccupiedEnd(SeqSet(tails)), "iso" \notin bad)
         /\ adopted' = (lib' # NoLib)
    /\ UNCHANGED <<guestVars, power, resets, tails, boots, overrun, listVars, vol>>

\* Force Off, or a reset of the host: what is in memory is gone.
HostReset ==
    /\ phase # "off" /\ boots < MaxBoots
    /\ phase' = "off" /\ boots' = boots + 1
    /\ choice' = Pending /\ stop' = FALSE /\ stopped' = FALSE /\ relaunch' = FALSE
    /\ dropped' = FALSE
    /\ power' = NoAsk /\ resets' = 0
    /\ tails' = << >> /\ unread' = {}
    /\ lib' = NoLib /\ adopted' = FALSE /\ overrun' = FALSE
    /\ saved' = << >> /\ shown' = << >> /\ staged' = FALSE /\ taken' = FALSE
    /\ UNCHANGED <<vol, faults>>

-----------------------------------------------------------------------------
(* The choice *)

\* Mutant: a later choice replaces the first.
ChooseLast(c) == c

\* compare_exchange(CHOICE_PENDING, c): a second post does not replace the first.
Choose(c) == IF choice = Pending THEN c ELSE choice

\* apply_tail_boot_at
TailBootPlace(e) ==
    IF e.off = Window THEN PlaceInFreeTail(e.bytes)
    ELSE PlaceGuestAfterOccupied(e.off, lib.bytes, e.bytes)

\* Mutant: a Start after Stop is taken without asking the idle loop to launch.
StartAgainQuiet(kind, place) ==
    /\ stop' = (stop /\ ~stopped) /\ stopped' = FALSE
    /\ choice' = IF place = NoPlace THEN Pending ELSE Picked(kind, place)
    /\ dropped' = (dropped \/ (stopped /\ place = NoPlace))
    /\ UNCHANGED <<relaunch, phase, power, resets, bootVars, libVars, listVars, vol, faults>>

\* rearm_guest_after_stop, then the start of disk e if it has a place.  A start
\* that is refused leaves the latch cleared and the choice pending.
StartAgain(kind, place) ==
    /\ stop' = (stop /\ ~stopped) /\ stopped' = FALSE
    /\ choice' = IF place = NoPlace THEN Pending ELSE Picked(kind, place)
    /\ relaunch' = (relaunch \/ (stopped /\ place # NoPlace))
    /\ dropped' = (dropped \/ (stopped /\ place = NoPlace))
    /\ UNCHANGED <<phase, power, resets, bootVars, libVars, listVars, vol, faults>>

\* POST /perc/guests/1/start: held_by_other answers while a guest is on.
StartWindow ==
    /\ Serving /\ VmcsGuest = NoGuest
    /\ StartAgain("boot", WindowDisk)

\* POST /perc/guests/2/start (start_tail): known_tail_bytes of the first disk.
StartTail ==
    /\ Serving /\ VmcsGuest = NoGuest
    /\ StartAgain("tailboot", PlaceInFreeTail(IF tails = << >> THEN 0 ELSE tails[1].bytes))

\* POST /perc/guests/disk/{off}/start
StartDiskAt(d) ==
    /\ Serving /\ VmcsGuest = NoGuest
    /\ StartAgain("tailboot", TailBootPlace(d))

\* choose_held_library
LibraryComplete == lib.bytes > 0 /\ lib.got >= lib.bytes
ChosenLibrary == IF LibraryComplete THEN [lib EXCEPT !.cd = TRUE] ELSE lib

\* POST of a Linux install: into the window, or a disk of its own, whose place
\* apply_tail_choice works out again.  Accepted only on a pending choice; a landed
\* Stop is not re-armed.
InstallLinux(bytes) ==
    /\ Serving
    /\ \E place \in {IF bytes <= Window THEN WindowDisk
                     ELSE DecideTail(OccupiedEnd(KnownDisks), lib.bytes, bytes)} :
         /\ place # NoPlace /\ (bytes > Window => TailBootPlace(place) = place)
         /\ choice' = Choose(Picked(IF bytes <= Window THEN "reinstall" ELSE "tail", place))
    /\ choice' # choice
    /\ lib' = ChosenLibrary
    /\ UNCHANGED <<phase, stop, stopped, relaunch, dropped, power, resets, bootVars, adopted,
                   overrun, listVars, vol, faults>>

\* POST /perc/boot/installed and /perc/boot/reinstall
PercChoice(kind) ==
    /\ Serving
    /\ choice' = Choose(Picked(kind, WindowDisk)) /\ choice' # choice
    /\ UNCHANGED <<phase, stop, stopped, relaunch, dropped, power, resets, bootVars, libVars,
                   listVars, vol, faults>>

\* request_guest_stop
Stop ==
    /\ Serving
    /\ ~stopped /\ choice # Pending
    /\ stop' = TRUE
    /\ UNCHANGED <<phase, choice, stopped, relaunch, dropped, power, resets, bootVars, libVars,
                   listVars, vol, faults>>

\* POST /perc/guests/power/...: a new ask replaces an old one in any phase.
Power(ask) ==
    /\ Serving
    /\ power' = [ask |-> ask, ph |-> "open"]
    /\ UNCHANGED <<phase, guestVars, resets, bootVars, libVars, listVars, vol, faults>>

\* try_autostart in the wait, once the delay has passed: once per boot, from the
\* list this boot has read.
Autostart ==
    /\ phase = "wait" /\ choice = Pending
    /\ ~taken /\ saved # << >> /\ taken' = TRUE
    /\ \E e \in {saved[1]} :
         \E place \in {IF e.kind = "boot" THEN WindowDisk ELSE TailBootPlace(e)} :
            choice' = IF place = NoPlace THEN choice ELSE Picked(e.kind, place)
    /\ UNCHANGED <<phase, stop, stopped, relaunch, dropped, power, resets, bootVars, libVars,
                   saved, shown, staged, vol, faults>>

-----------------------------------------------------------------------------
(* The list for the next boot *)

\* Mutant: the sector is taken as written without reading it back.
FlushUnchecked(list, on) ==
    IF ~on \/ VmcsGuest # NoGuest THEN staged' = on /\ UNCHANGED <<vol, faults>>
    ELSE \/ /\ staged' = FALSE /\ vol' = [vol EXCEPT ![AutostartLba] = AutoSector(list)]
            /\ UNCHANGED faults
         \/ Fault /\ staged' = FALSE /\ UNCHANGED vol

\* flush_autostart: nothing while a guest is taken to run.  The write, then a read
\* back; unless both succeed and agree the list stays staged.
FlushAutostart(list, on) ==
    IF ~on \/ VmcsGuest # NoGuest THEN staged' = on /\ UNCHANGED <<vol, faults>>
    ELSE \/ /\ staged' = FALSE /\ vol' = [vol EXCEPT ![AutostartLba] = AutoSector(list)]
            /\ UNCHANGED faults
         \/ /\ Fault /\ staged' = TRUE
            /\ \/ UNCHANGED vol
               \/ vol' = [vol EXCEPT ![AutostartLba] = AutoSector(list)]

\* An edit: SHOWN, the staged sector and the flush at the end of boot_next_rest.
Edit(list) ==
    /\ Serving
    /\ shown' = list
    /\ FlushAutostart(list, TRUE)
    /\ UNCHANGED <<phase, guestVars, power, resets, bootVars, libVars, saved, taken>>

\* remember: a repeat updates its row, a new one needs a free row.
Remember(e) ==
    LET row == {i \in 1 .. Len(shown) : shown[i].off = e.off /\ shown[i].kind = e.kind}
    IN  IF row # {} THEN Edit([i \in 1 .. Len(shown) |-> IF i \in row THEN e ELSE shown[i]])
        ELSE Len(shown) < MaxEntries /\ Edit(Append(shown, e))

BootNextWindow == Remember(Entry("boot", WindowDisk))

BootNextDisk(d) == Remember(Entry("tailboot", d))

\* forget
BootNextForget(i) ==
    i \in 1 .. Len(shown) /\ Edit(SubSeq(shown, 1, i - 1) \o SubSeq(shown, i + 1, Len(shown)))

\* clear
BootNextClear == Edit(<< >>)

\* The flush of the wait and of the idle loop after Stop; the hold has none.
Flush ==
    /\ phase \in {"wait", "idle"} /\ staged /\ VmcsGuest = NoGuest
    /\ FlushAutostart(shown, staged)
    /\ UNCHANGED <<phase, guestVars, power, resets, bootVars, libVars, saved, shown, taken>>

-----------------------------------------------------------------------------
(* The library *)

Least(a, b) == IF a < b THEN a ELSE b

\* Mutant: a chunk counts as received although its write failed.
WriteChunkUnchecked(l) ==
    LET next == Least(l.bytes, l.got + Chunk)
    IN  /\ lib' = [l EXCEPT !.got = next]
        /\ \/ /\ vol' = [u \in 0 .. Spare - 1 |->
                            IF u - l.off \in l.got .. next - 1
                            THEN Iso(l.bytes, u - l.off) ELSE vol[u]]
              /\ UNCHANGED faults
           \/ Fault /\ UNCHANGED vol

\* The next chunk of file l: written and counted, or refused by the controller.
WriteChunk(l) ==
    LET next == Least(l.bytes, l.got + Chunk)
    IN  \/ /\ lib' = [l EXCEPT !.got = next]
           /\ vol' = [u \in 0 .. Spare - 1 |->
                         IF u - l.off \in l.got .. next - 1 THEN Iso(l.bytes, u - l.off) ELSE vol[u]]
           /\ UNCHANGED faults
        \/ Fault /\ lib' = l /\ UNCHANGED vol

\* accept_upload at offset 0 of a file that is not the one held: the held file is
\* given up first, then the new one is placed and its first chunk written.
UploadFirst(total) ==
    /\ Serving
    /\ ~(lib.bytes = total /\ lib.got > 0)
    /\ adopted' = FALSE /\ overrun' = FALSE
    /\ \E place \in {PlaceIsoLibrary(OccupiedEnd(KnownDisks), total)} :
         IF place = NoPlace THEN lib' = NoLib /\ UNCHANGED <<vol, faults>>
         ELSE WriteChunk([off |-> place.off, bytes |-> total, got |-> 0, cd |-> FALSE])
    /\ UNCHANGED <<phase, guestVars, power, resets, bootVars, listVars>>

\* accept_upload of the next chunk in order; a first chunk is UploadFirst's.
UploadNext ==
    /\ Serving
    /\ 0 < lib.got /\ lib.got < lib.bytes
    /\ WriteChunk(lib)
    /\ UNCHANGED <<phase, guestVars, power, resets, bootVars, adopted, overrun, listVars>>

\* clear_library_operator: the signature sector is zeroed.
ClearLibrary ==
    /\ Serving
    /\ lib # NoLib
    /\ vol' = [vol EXCEPT ![lib.off] = Blank]
    /\ lib' = NoLib /\ adopted' = FALSE /\ overrun' = FALSE
    /\ UNCHANGED <<phase, guestVars, power, resets, bootVars, listVars, faults>>

-----------------------------------------------------------------------------
(* The loops *)

\* A choice ends the wait and the guest is launched; a launch that fails ends in
\* the hold like any end of a guest that is not a landed Stop (resume_e4_shell).
Launch ==
    /\ phase = "wait" /\ choice # Pending
    /\ phase' \in {"run", "hold"}
    /\ UNCHANGED <<guestVars, power, resets, bootVars, libVars, listVars, vol, faults>>

\* enter_spa_stop_idle: relaunch_perc_guest_from_spa consumes the flag; the reset of
\* the guest's platform forgets an open power ask.
Relaunch ==
    /\ phase = "idle" /\ relaunch
    /\ relaunch' = FALSE
    /\ power' = NoAsk
    /\ phase' \in {"run", "hold"}
    /\ UNCHANGED <<choice, stop, stopped, dropped, resets, bootVars, libVars, listVars, vol,
                   faults>>

\* take_guest_stop, at the start of every exit after the listener's tick.
TakeStop ==
    /\ phase = "run" /\ stop
    /\ stop' = FALSE /\ stopped' = TRUE
    /\ phase' = "idle"
    /\ UNCHANGED <<choice, relaunch, dropped, power, resets, bootVars, libVars, listVars, vol,
                   faults>>

\* raynu_f_on_guest_reset: one relaunch per boot of the host, then the hold.
GuestReset ==
    IF resets >= ResetMax THEN phase' = "hold" /\ UNCHANGED <<power, resets>>
    ELSE resets' = resets + 1 /\ power' = NoAsk /\ UNCHANGED phase

\* b4_service: a finished S5 stops the guest or boots it again.
ServeS5 ==
    /\ phase = "run" /\ ~stop /\ power.ph = "done"
    /\ IF power.ask = "shutdown" THEN phase' = "hold" /\ power' = NoAsk /\ UNCHANGED resets
       ELSE \/ resets < ResetMax /\ GuestReset
            \/ /\ resets >= ResetMax /\ phase' = "hold" /\ power' = NoAsk
               /\ UNCHANGED resets
    /\ UNCHANGED <<guestVars, bootVars, libVars, listVars, vol, faults>>

\* What is left of an exit once there is neither a Stop nor a finished S5.
GuestRuns == phase = "run" /\ ~stop /\ power.ph # "done"

\* note_cleared and note_s5: the guest answers the power button.
PowerAnswer(ph) ==
    /\ GuestRuns /\ power.ask # "none"
    /\ power.ph = "open" \/ ph = "done"
    /\ power' = [power EXCEPT !.ph = ph]
    /\ UNCHANGED <<phase, guestVars, resets, bootVars, libVars, listVars, vol, faults>>

\* The guest resets itself.
OwnReset ==
    /\ GuestRuns /\ GuestReset
    /\ UNCHANGED <<guestVars, bootVars, libVars, listVars, vol, faults>>

\* The guest ends in a way the exit loop cannot continue from (raynu_f_stop).
GuestDies ==
    /\ GuestRuns
    /\ phase' = "hold"
    /\ UNCHANGED <<guestVars, power, resets, bootVars, libVars, listVars, vol, faults>>

\* The guest, installed or installing, writes its disk: guest_io_span is the armed tail
\* or else the window.  It fills the disk, with or without a partition table.
GuestWrites ==
    /\ GuestRuns
    /\ \E first \in {Data, Gpt(choice.bytes)} :
         vol' = [u \in 0 .. Spare - 1 |->
                    IF u = choice.off THEN first
                    ELSE IF u \in Units(choice) THEN Data ELSE vol[u]]
    /\ vol' # vol
    /\ overrun' = (overrun \/ (StaleEntry /\ ~Apart(choice, lib)))
    /\ UNCHANGED <<phase, guestVars, power, resets, bootVars, lib, adopted, listVars, faults>>

Request ==
    \/ StartWindow \/ StartTail \/ (\E d \in SeqSet(tails) : StartDiskAt(d))
    \/ (\E bytes \in DiskSizes : InstallLinux(bytes))
    \/ (\E kind \in {"boot", "reinstall"} : PercChoice(kind))
    \/ Stop \/ (\E ask \in {"shutdown", "reboot"} : Power(ask))
    \/ BootNextWindow \/ (\E d \in SeqSet(tails) : BootNextDisk(d))
    \/ (\E i \in 1 .. MaxEntries : BootNextForget(i)) \/ BootNextClear
    \/ (\E total \in IsoSizes : UploadFirst(total)) \/ UploadNext \/ ClearLibrary

Exit ==
    \/ TakeStop \/ ServeS5
    \/ (\E ph \in {"seen", "done"} : PowerAnswer(ph))
    \/ OwnReset \/ GuestDies \/ GuestWrites

Next ==
    \/ Boot \/ ProbeDisk \/ ProbeEnd \/ HostReset
    \/ Request
    \/ Autostart \/ Flush \/ Launch \/ Relaunch
    \/ Exit

\* The wait, the idle loop and the guest's exits go on: a guest that runs exits
\* (host timer), and each exit takes a Stop first.
Fairness == WF_vars(Launch) /\ WF_vars(Relaunch) /\ WF_vars(TakeStop)

Spec == Init /\ [][Next]_vars /\ Fairness

-----------------------------------------------------------------------------
TypeOK ==
    /\ phase \in {"off", "probe", "wait", "run", "idle", "hold"}
    /\ choice.kind \in {"pending", "boot", "reinstall", "tail", "tailboot"}
    /\ At(choice.off, choice.bytes) \in Extent
    /\ {stop, stopped, relaunch, dropped, adopted, overrun, staged, taken, lib.cd} \subseteq BOOLEAN
    /\ power \in [ask : {"none", "shutdown", "reboot"}, ph : {"open", "seen", "done"}]
    /\ resets \in 0 .. ResetMax
    /\ tails \in Seq(Extent) /\ Len(tails) <= DiskMax
    /\ unread \subseteq {"list", "probe", "iso"}
    /\ At(lib.off, lib.bytes) \in Extent /\ lib.got \in 0 .. lib.bytes
    /\ Len(saved) <= MaxEntries /\ Len(shown) <= MaxEntries
    /\ boots \in 0 .. MaxBoots /\ faults \in 0 .. MaxFaults

\* The guest disks the host knows of, the one it boots from included, the window
\* and the stored file have no byte in common, whatever was installed, adopted,
\* uploaded and started in which order ("The file must not meet that range",
\* iso_library.rs).  Left out: a guest started from a stale entry of the boot list,
\* which try_autostart places without looking at the disks.
KnownApart ==
    ~StaleEntry =>
        LET used == {WindowDisk} \cup KnownDisks \cup
                    (IF lib.bytes > 0 THEN {At(lib.off, lib.bytes)} ELSE {})
        IN  /\ \A d, e \in used : d # e => Apart(d, e)
            /\ \A d \in used : End(d) <= Spare - Reserve

\* A file uploaded in this boot that counts as complete is on the volume whole: no
\* guest that runs, other upload or clear has written into it since (a boot CD must be
\* the bytes the operator sent).  Left out: files that reach up into the host's own
\* records, which share the units with them; and a file that a guest started from a
\* stale entry of the boot list has written into, as try_autostart places the disk at
\* the window's end without looking at the library.
CompleteIsWhole ==
    LibraryComplete /\ ~adopted /\ ~overrun /\ lib.off + lib.bytes <= AutostartLba =>
        \A k \in 0 .. lib.bytes - 1 : vol[lib.off + k] = Iso(lib.bytes, k)

\* library_complete: "The stored file is complete. A partial upload is not a boot
\* CD." (iso_library.rs), for an adopted file too.
PartialIsNoBootCd ==
    LibraryComplete => \A k \in 0 .. lib.bytes - 1 : vol[lib.off + k] = Iso(lib.bytes, k)

\* Once nothing is staged, the next boot reads the list the page shows (flush_autostart
\* acknowledges only what it has read back).  Left out: a list that could not be
\* read at boot, and a sector a library file lies over.
ListIsKept ==
    ~staged /\ phase # "off" /\ "list" \notin unread /\ vol[AutostartLba][1] # "iso" =>
        DecodeList = shown

\* While a guest runs its disk does not change: every read and write of the guest is
\* mapped through the choice at the time of the request (guest_io_span), so a choice
\* replaced under a running guest would send them to another guest's disk.
DiskStaysPut ==
    [][phase = "run" /\ phase' \in {"run", "idle"} => choice' = choice]_vars

\* A Stop that was answered 200 takes effect: the guest stops, unless it ends by itself
\* first or the host is reset.  Left out: the state after a Start that was refused but
\* had already cleared the landed Stop; what is started then is never launched.
StopLands ==
    (stop /\ ~dropped) ~> (stopped \/ phase \in {"hold", "off"})
=============================================================================
