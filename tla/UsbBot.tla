------------------------------- MODULE UsbBot -------------------------------
(***************************************************************************)
(* One SCSI command at a time over USB bulk-only transport: the driver's   *)
(* retries (mgmt/usb_bot.rs), the two bulk rings and the bounce pages they *)
(* point at (mgmt/xhci.rs), the controller and the disk.                   *)
(*                                                                         *)
(* A TRB names a buffer and the controller reads or fills it when the TRB  *)
(* runs, so a TRB that outlives its command moves what the buffer holds by *)
(* then.  Tags are distinct for 2^32 commands: all that is kept of a tag   *)
(* is whether it is the current command's.  A data block is the sequence   *)
(* of its 512-byte sectors; the controller and the disk are external.      *)
(***************************************************************************)
EXTENDS Integers, Sequences, FiniteSets

CONSTANTS
    Sectors,      \* 512-byte sectors of the disk, numbered from 0
    PerLbas,      \* native block sizes in sectors: 1 (512n), 8 (4Kn)
    Vals,         \* sector contents, 0 (all zeros) among them
    Tries,        \* USB_BOT_RW_TRIES (3)
    MaxFaults     \* bound: refused commands, errors and early timeouts

ASSUME DiskAssumption ==
    /\ Sectors \subseteq Nat
    /\ PerLbas \subseteq Nat \ {0}
    /\ Vals \subseteq Nat /\ 0 \in Vals
    /\ Tries \in Nat \ {0}
    /\ MaxFaults \in Nat

VARIABLES
    perLba,       \* sectors in a native block (usb_bot_lba_bytes)
    disk,         \* contents of the medium
    dev,          \* the disk's protocol state
    xhc,          \* rings, endpoint states, event ring, bounce pages
    bot,          \* the driver: the call in progress
    faults,       \* faults so far
    senseLost     \* a REQUEST SENSE was given up

usb == <<perLba, disk, dev, xhc, bot, faults, senseLost>>

Rounds == 2                   \* usb_bot_rw and the one retry of xhci_live_rw

Junk == -1                    \* a sector holding something else's bytes
Content == Vals \cup {Junk}
Eps == {"out", "in"}

Lba(s) == s \div perLba
Pos(s) == (s % perLba) + 1
Block(l) == {s \in Sectors : Lba(s) = l}
Fill(v) == [i \in 1 .. perLba |-> v]
OnDisk(l) == [i \in 1 .. perLba |-> disk[l * perLba + i - 1]]

\* Less than a sector arrives in the data page: sense data (18 bytes), a CSW (13).
Spoilt(page) == [page EXCEPT ![1] = Junk]

NoCommand == [phase |-> "cmd", kind |-> "none", lba |-> 0, mine |-> FALSE, ok |-> FALSE]
NoCsw == [mine |-> FALSE, ok |-> FALSE]

-----------------------------------------------------------------------------
(* Faults *)

Runs(ep) == xhc.ring[ep] # << >> /\ ~ xhc.halted[ep]

\* The disk has something to do with the head of a ring: a timeout now is early.
Moving == \/ Runs("out") /\ dev.phase \in {"cmd", "out"}
          \/ Runs("in") /\ dev.phase \in {"in", "csw"}

Faults(n) == faults + n <= MaxFaults /\ faults' = faults + n

SenseGivenUp == senseLost' = (senseLost \/ bot.kind = "sense")

-----------------------------------------------------------------------------
(* The driver *)

\* TRBs of a command on each ring, and the completions it waits for.
Trbs(kind) ==
    CASE kind = "read"  -> [out |-> <<"cbw">>,         in |-> <<"data", "csw">>]
      [] kind = "sense" -> [out |-> <<"cbw">>,         in |-> <<"sense", "csw">>]
      [] kind = "write" -> [out |-> <<"cbw", "data">>, in |-> <<"csw">>]

Need(kind, ep) == Len(Trbs(kind)[ep])

NoCall == [pc |-> "idle", op |-> "none", kind |-> "none", lba |-> 0, data |-> << >>,
         try |-> 0, round |-> 0, stage |-> "cbw", cmpl |-> "ok",
         seen |-> [ep \in Eps |-> 0]]

\* xhci_live_rw is called.
Call(op, lba, data) ==
    [NoCall EXCEPT !.pc = "queue", !.op = op, !.kind = op, !.lba = lba, !.data = data,
                 !.try = 1, !.round = 1]

\* Mutant: a leftover completion is taken for this command's.
CswOkAnyTag(csw) == csw.ok

\* csw_ok_tag: a passed status with the tag of this command.
CswOkTag(csw) == csw.ok /\ csw.mine

\* Mutant: only a failure the driver places after the CBW is recovered from.
RecoverUnlessCbw(b) == b.stage # "cbw"

\* usb_bot_recover_after_fail
RecoverAfterFail(b) == b.stage # "cbw" \/ b.cmpl = "timeout"

\* The next try of the retry loop, the second usb_bot_rw, or the error.
NextTry(b) ==
    IF b.try < Tries THEN [b EXCEPT !.pc = "queue", !.kind = b.op, !.try = @ + 1]
    ELSE IF b.round < Rounds
         THEN [b EXCEPT !.pc = "queue", !.kind = b.op, !.try = 1, !.round = @ + 1]
    ELSE [NoCall EXCEPT !.pc = "failed"]

\* usb_bot_clear_sense: REQUEST SENSE after a command whose CSW was wrong.
ClearSense(b) ==
    IF b.stage = "csw" /\ b.cmpl = "bot" THEN [b EXCEPT !.pc = "queue", !.kind = "sense"]
    ELSE NextTry(b)

\* The Err arm of the retry loops.  A failed REQUEST SENSE is ignored.
Failed(b) ==
    IF b.kind = "sense" THEN NextTry(b)
    ELSE IF RecoverAfterFail(b) THEN [b EXCEPT !.pc = "recover_out"]
    ELSE ClearSense(b)

\* overlapped_in and overlapped_out up to the doorbells.  The events are drained, the
\* command, the data page and the status area are written, the TRBs are placed.
Queue ==
    /\ bot.pc = "queue"
    /\ xhc' = [xhc EXCEPT !.ring = [ep \in Eps |-> @[ep] \o Trbs(bot.kind)[ep]],
                          !.ev = << >>,
                          !.cbw = [kind |-> bot.kind, lba |-> bot.lba],
                          !.bounce = CASE bot.kind = "write" -> bot.data
                                       [] bot.kind = "read"  -> Fill(0)
                                       [] bot.kind = "sense" -> Spoilt(@),
                          !.csw = NoCsw]
    /\ dev' = [dev EXCEPT !.mine = FALSE]
    /\ bot' = [bot EXCEPT !.pc = "wait", !.stage = "cbw", !.cmpl = "ok",
                          !.seen = [ep \in Eps |-> 0]]
    /\ UNCHANGED <<perLba, disk, faults, senseLost>>

\* bulk_bot_xfer_done
Enough == \A ep \in Eps : bot.seen[ep] >= Need(bot.kind, ep)

\* consume_bulk_pair takes an event: by endpoint, not by TRB.
Poll ==
    /\ bot.pc = "wait" /\ ~ Enough /\ xhc.ev # << >>
    /\ xhc' = [xhc EXCEPT !.ev = Tail(@)]
    /\ LET e == Head(xhc.ev)
       IN  \/ /\ e.ok
              /\ bot' = [bot EXCEPT !.seen[e.ep] = @ + 1]
              /\ UNCHANGED senseLost
           \/ /\ ~ e.ok
              /\ bot' = Failed([bot EXCEPT !.cmpl = "error"])
              /\ SenseGivenUp
    /\ UNCHANGED <<perLba, disk, dev, faults>>

\* Where consume_bulk_pair places a timeout.
TimeoutStage ==
    IF bot.seen["out"] >= Need(bot.kind, "out") /\ bot.seen["in"] >= 1 THEN "csw"
    ELSE IF bot.seen["out"] >= 1 THEN "data"
    ELSE bot.stage

Timeout ==
    /\ bot.pc = "wait" /\ ~ Enough /\ xhc.ev = << >>
    /\ bot' = Failed([bot EXCEPT !.stage = TimeoutStage, !.cmpl = "timeout"])
    /\ Faults(IF Moving THEN 1 ELSE 0)
    /\ SenseGivenUp
    /\ UNCHANGED <<perLba, disk, dev, xhc>>

\* Every completion was counted: the data is copied and the CSW is judged.
Finish ==
    /\ bot.pc = "wait" /\ Enough
    /\ bot' = IF ~ CswOkTag(xhc.csw) THEN Failed([bot EXCEPT !.stage = "csw", !.cmpl = "bot"])
              ELSE IF bot.kind = "sense" THEN NextTry(bot)
              ELSE [NoCall EXCEPT !.pc = "ok", !.op = bot.op, !.lba = bot.lba,
                                !.data = IF bot.op = "read" THEN xhc.bounce ELSE << >>]
    /\ UNCHANGED <<perLba, disk, dev, xhc, faults, senseLost>>

\* Mutant: the ring is not replaced.
RecoverEpKeepsRing(ep) == xhc' = [xhc EXCEPT !.halted[ep] = FALSE, !.ev = << >>]

\* recover_ep: Stop or Reset Endpoint, an empty ring, the events drained.
RecoverEp(ep) ==
    xhc' = [xhc EXCEPT !.ring[ep] = << >>, !.halted[ep] = FALSE, !.ev = << >>]

\* recover_pipes: OUT first; the IN pipe runs on meanwhile.
RecoverOut ==
    /\ bot.pc = "recover_out"
    /\ RecoverEp("out")
    /\ bot' = [bot EXCEPT !.pc = "recover_in"]
    /\ UNCHANGED <<perLba, disk, dev, faults, senseLost>>

RecoverIn ==
    /\ bot.pc = "recover_in"
    /\ RecoverEp("in")
    /\ bot' = ClearSense(bot)
    /\ UNCHANGED <<perLba, disk, dev, faults, senseLost>>

DriverStep == Queue \/ Poll \/ Timeout \/ Finish \/ RecoverOut \/ RecoverIn

-----------------------------------------------------------------------------
(* The controller and the disk.  dev.phase is the phase of the command the *)
(* disk works on: "cmd" (none), "out" and "in" (its data), "csw".          *)

\* The head TRB of a ring ran; the rest of the controller's state is in x.
Retire(x, ep) == [x EXCEPT !.ring[ep] = Tail(@), !.ev = Append(@, [ep |-> ep, ok |-> TRUE])]

\* The endpoint halts on its head TRB.
Halt(x, ep) == [x EXCEPT !.halted[ep] = TRUE, !.ev = Append(@, [ep |-> ep, ok |-> FALSE])]

\* The disk takes a CBW: a new command, or one in the middle of another, which it drops.
\* It may refuse the command, or leave the CBW on the wire as long as it has an answer
\* to give (no step).
TakeCbw ==
    /\ Runs("out") /\ Head(xhc.ring["out"]) = "cbw" /\ dev.phase # "out"
    /\ xhc' = Retire(xhc, "out")
    /\ \E ph \in {IF xhc.cbw.kind = "write" THEN "out" ELSE "in", "csw"} :
         /\ dev' = [phase |-> ph, kind |-> xhc.cbw.kind, lba |-> xhc.cbw.lba,
                     mine |-> TRUE, ok |-> ph # "csw"]
         /\ Faults(IF ph = "csw" THEN 1 ELSE 0)
    /\ UNCHANGED <<perLba, disk, bot, senseLost>>

\* The data of a write: the page as it is now reaches the medium, or the write fails.
TakeData ==
    /\ Runs("out") /\ Head(xhc.ring["out"]) = "data" /\ dev.phase = "out"
    /\ xhc' = Retire(xhc, "out")
    /\ \E stored \in BOOLEAN :
         /\ dev' = [dev EXCEPT !.phase = "csw", !.ok = stored]
         /\ disk' = IF stored THEN [s \in Sectors |-> IF Lba(s) = dev.lba
                                       THEN xhc.bounce[Pos(s)] ELSE disk[s]]
                    ELSE disk
         /\ Faults(IF stored THEN 0 ELSE 1)
    /\ UNCHANGED <<perLba, bot, senseLost>>

\* A CBW where data is due is a short packet: the write fails and nothing is stored.
ShortData ==
    /\ Runs("out") /\ Head(xhc.ring["out"]) = "cbw" /\ dev.phase = "out"
    /\ xhc' = Retire(xhc, "out")
    /\ dev' = [dev EXCEPT !.phase = "csw", !.ok = FALSE]
    /\ UNCHANGED <<perLba, disk, bot, faults, senseLost>>

\* Data where a CBW is due is stalled.
StallData ==
    /\ Runs("out") /\ Head(xhc.ring["out"]) = "data" /\ dev.phase = "cmd"
    /\ xhc' = Halt(xhc, "out")
    /\ UNCHANGED <<perLba, disk, dev, bot, faults, senseLost>>

\* The disk sends the data of a read or of REQUEST SENSE.  A block is longer than the
\* other buffers, sense data longer than a CSW: the endpoint halts on the excess.
SendData ==
    /\ Runs("in") /\ dev.phase = "in"
    /\ LET trb == Head(xhc.ring["in"])
           data == IF dev.kind = "read" THEN OnDisk(dev.lba) ELSE Spoilt(xhc.bounce)
           fits == trb = "data" \/ (trb = "sense" /\ dev.kind = "sense")
       IN  xhc' = IF fits THEN Retire([xhc EXCEPT !.bounce = data], "in")
                  ELSE IF trb = "sense" THEN Halt([xhc EXCEPT !.bounce = Spoilt(@)], "in")
                  ELSE Halt(xhc, "in")
    /\ dev' = [dev EXCEPT !.phase = "csw"]
    /\ UNCHANGED <<perLba, disk, bot, faults, senseLost>>

\* The CSW goes where the next IN TRB points.
SendCsw ==
    /\ Runs("in") /\ dev.phase = "csw"
    /\ xhc' = Retire(IF Head(xhc.ring["in"]) = "csw"
                     THEN [xhc EXCEPT !.csw = [mine |-> dev.mine, ok |-> dev.ok]]
                     ELSE [xhc EXCEPT !.bounce = Spoilt(@)], "in")
    /\ dev' = NoCommand
    /\ UNCHANGED <<perLba, disk, bot, faults, senseLost>>

\* A stall or a transaction error, at any time.
Fault(ep) ==
    /\ Runs(ep)
    /\ xhc' = Halt(xhc, ep)
    /\ Faults(1)
    /\ UNCHANGED <<perLba, disk, dev, bot, senseLost>>

DeviceStep ==
    TakeCbw \/ TakeData \/ ShortData \/ StallData \/ SendData \/ SendCsw
      \/ \E ep \in Eps : Fault(ep)

UsbInit ==
    /\ perLba \in PerLbas
    /\ disk = [s \in Sectors |-> 0]
    /\ dev = NoCommand
    /\ xhc = [ring |-> [ep \in Eps |-> << >>], halted |-> [ep \in Eps |-> FALSE],
              ev |-> << >>, cbw |-> [kind |-> "none", lba |-> 0],
              bounce |-> [i \in 1 .. perLba |-> 0], csw |-> NoCsw]
    /\ bot = NoCall
    /\ faults = 0
    /\ senseLost = FALSE
=============================================================================
