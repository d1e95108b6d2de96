----------------------------- MODULE DurableLun -----------------------------
(***************************************************************************)
(* The guest's USB disk above the driver (mgmt/durable_lun.rs): virtio     *)
(* requests and the firmware's BlockIo, split into native blocks, partial  *)
(* blocks read, patched and written back; BlockIo reads go through the GPT *)
(* pin and a cache of single sectors.                                      *)
(*                                                                         *)
(* want is what the guest may rely on: the content of every sector since   *)
(* the last write to it that was acknowledged, nothing from the moment     *)
(* another write to it is issued.  A write that fails while its data is    *)
(* still queued also ends what it may rely on in the rest of that native   *)
(* block: see BlockFailed.                                                 *)
(***************************************************************************)
EXTENDS UsbBot, FiniteSetsExt

CONSTANTS
    PinSectors,   \* sectors of the GPT prefix (0 to 33)
    CacheLines    \* LUN_CACHE_LINES (64)

ASSUME CacheAssumption ==
    /\ PinSectors \subseteq Sectors
    /\ CacheLines \in Nat \ {0}

VARIABLES
    pin,          \* the pinned prefix, or NoPin
    cache,        \* per line the sector it holds, -1 for none, and its content
    rq,           \* the request being served, or NoRequest
    reply,        \* the last answer
    want          \* see above

lunVars == <<usb, pin, cache, rq, reply, want>>

NoPin == << >>
Unknown == -2
NoLine == [tag |-> -1, val |-> 0]
NoRequest == [op |-> "none", via |-> "virtio", secs |-> {}, val |-> 0, todo |-> {},
              buf |-> << >>]

Line(s) == s % CacheLines
NoCache == [n \in 0 .. CacheLines - 1 |-> NoLine]

Cached == rq.op = "read" /\ rq.via = "blockio"
PinServes == pin # NoPin /\ rq.secs \subseteq PinSectors

\* The sector, or the sectors of a native block, the loops handle next.
First == Min(rq.todo)
Target == Lba(First)
Chunk == IF Cached THEN {First} ELSE Block(Target) \cap rq.todo
Partial == Chunk # Block(Target)

\* A request arrives.  A write drops the cache and the pin before any I/O.
Submit(op, via, secs, v) ==
    /\ rq = NoRequest
    /\ rq' = [op |-> op, via |-> via, secs |-> secs, val |-> v, todo |-> secs,
              buf |-> [s \in Sectors |-> 0]]
    /\ cache' = IF op = "write" THEN NoCache ELSE cache
    /\ pin' = IF op = "write" THEN NoPin ELSE pin
    /\ want' = [s \in Sectors |-> IF op = "write" /\ s \in secs THEN Unknown ELSE want[s]]
    /\ reply' = NoRequest
    /\ UNCHANGED usb

\* raynu_f_disk_read: the whole range lies in the pinned prefix.
PinRead ==
    /\ Cached /\ PinServes /\ rq.todo # {} /\ bot.pc = "idle"
    /\ rq' = [rq EXCEPT !.todo = {}, !.buf = [s \in Sectors |->
                 IF s \in rq.secs THEN pin[s] ELSE @[s]]]
    /\ UNCHANGED <<usb, pin, cache, reply, want>>

\* durable_lun_read_any finds the line.
CacheHit ==
    /\ Cached /\ ~ PinServes /\ rq.todo # {} /\ bot.pc = "idle"
    /\ cache[Line(First)].tag = First
    /\ rq' = [rq EXCEPT !.todo = @ \ {First}, !.buf[First] = cache[Line(First)].val]
    /\ UNCHANGED <<usb, pin, cache, reply, want>>

\* A native block is read, or written when the request covers all of it.
StartBlock ==
    /\ rq.todo # {} /\ bot.pc = "idle"
    /\ Cached => ~ PinServes /\ cache[Line(First)].tag # First
    /\ bot' = IF rq.op = "read" \/ Partial THEN Call("read", Target, << >>)
              ELSE Call("write", Target, Fill(rq.val))
    /\ UNCHANGED <<perLba, disk, dev, xhc, faults, senseLost, pin, cache, rq, reply, want>>

\* The block came back: it is copied out, through the line for a BlockIo read.
BlockRead ==
    /\ bot.pc = "ok" /\ bot.op = "read" /\ rq.op = "read"
    /\ bot' = NoCall
    /\ rq' = [rq EXCEPT !.todo = @ \ Chunk, !.buf = [s \in Sectors |->
                 IF s \in Chunk THEN bot.data[Pos(s)] ELSE @[s]]]
    /\ cache' = IF Cached THEN [cache EXCEPT ![Line(First)] =
                                    [tag |-> First, val |-> bot.data[Pos(First)]]]
                ELSE cache
    /\ UNCHANGED <<perLba, disk, dev, xhc, faults, senseLost, pin, reply, want>>

\* durable_lun_512e_rw: the block is patched and written back.
WriteBack ==
    /\ bot.pc = "ok" /\ bot.op = "read" /\ rq.op = "write"
    /\ bot' = Call("write", Target, [i \in 1 .. perLba |->
                 IF Target * perLba + i - 1 \in Chunk THEN rq.val ELSE bot.data[i]])
    /\ UNCHANGED <<perLba, disk, dev, xhc, faults, senseLost, pin, cache, rq, reply, want>>

BlockWritten ==
    /\ bot.pc = "ok" /\ bot.op = "write"
    /\ bot' = NoCall
    /\ rq' = [rq EXCEPT !.todo = @ \ Chunk]
    /\ UNCHANGED <<perLba, disk, dev, xhc, faults, senseLost, pin, cache, reply, want>>

\* A data TRB is left on the OUT ring: the last try failed before its data was sent,
\* at a stage after which the driver does not empty the rings.
LeftData == \E i \in 1 .. Len(xhc.ring["out"]) : xhc.ring["out"][i] = "data"

\* The driver gave up: the request fails where it stands.  The disk may yet take the
\* data TRB of a write that was given up, and by then the page it points to belongs to
\* another command: the whole native block of that write is uncertain.
BlockFailed ==
    /\ bot.pc = "failed"
    /\ bot' = NoCall
    /\ rq' = NoRequest
    /\ reply' = [NoRequest EXCEPT !.op = "failed"]
    /\ cache' = IF Cached THEN [cache EXCEPT ![Line(First)] = NoLine] ELSE cache
    /\ want' = [s \in Sectors |-> IF LeftData /\ rq.op = "write" /\ Lba(s) = Target
                                  THEN Unknown ELSE want[s]]
    /\ UNCHANGED <<perLba, disk, dev, xhc, faults, senseLost, pin>>

\* Every block is done.
Answer ==
    /\ rq # NoRequest /\ rq.todo = {}
    /\ rq' = NoRequest
    /\ reply' = IF rq.op = "read" THEN rq ELSE [NoRequest EXCEPT !.op = "write"]
    /\ want' = [s \in Sectors |-> IF rq.op = "write" /\ s \in rq.secs THEN rq.val ELSE want[s]]
    /\ UNCHANGED <<usb, pin, cache>>

Requests == {{a \in Sectors : a >= s /\ a < s + n} : s \in Sectors, n \in 1 .. 2}

LunInit ==
    /\ UsbInit
    /\ pin \in {NoPin, [s \in PinSectors |-> 0]}
    /\ cache = NoCache
    /\ rq = NoRequest
    /\ reply = NoRequest
    /\ want = [s \in Sectors |-> 0]

Guest ==
    \/ \E secs \in Requests, via \in {"virtio", "blockio"} : Submit("read", via, secs, 0)
    \/ \E secs \in Requests, v \in Vals : Submit("write", "virtio", secs, v)

Lun == PinRead \/ CacheHit \/ StartBlock \/ BlockRead \/ WriteBack \/ BlockWritten
         \/ BlockFailed \/ Answer

Usb == (DriverStep \/ DeviceStep) /\ UNCHANGED <<pin, cache, rq, reply, want>>

LunNext == Guest \/ Lun \/ Usb

LunSpec == LunInit /\ [][LunNext]_lunVars

-----------------------------------------------------------------------------
(* Properties *)

TypeOK ==
    /\ disk \in [Sectors -> Content]
    /\ want \in [Sectors -> Vals \cup {Unknown}]
    /\ pin \in {NoPin} \cup [PinSectors -> Content]
    /\ \A n \in DOMAIN cache : cache[n].tag \in Sectors \cup {-1}
    /\ bot.pc \in {"idle", "queue", "wait", "recover_out", "recover_in", "ok", "failed"}
    /\ rq.todo \subseteq rq.secs

\* A read answered with success, by the GPT pin, the sector cache or the driver, returned
\* what the disk holds, whatever commands timed out or failed before it and wherever
\* their late data, statuses and completions went.
ReadIsTrue == reply.op = "read" => \A s \in reply.secs : reply.buf[s] = disk[s]

\* What an acknowledged write stored stays on the disk until another write to that sector
\* is issued, or one to its native block fails with its data still queued: no leftover of
\* another command, failed or retried, overwrites it, for as long as every REQUEST SENSE
\* the driver sent was answered.  (The answer to one that was given up lands in the data
\* page of the retried write, which the disk then stores.)
AckedUnlessSenseLost == senseLost \/ \A s \in Sectors : want[s] # Unknown => disk[s] = want[s]

\* With the same proviso, a command is queued behind leftovers of an earlier one only
\* while an endpoint is halted: it cannot complete before recover_pipes has emptied both
\* rings, whichever stage the failure was put down to.
CleanOrHalted ==
    \/ senseLost
    \/ bot.pc \notin {"idle", "queue", "ok"}
    \/ \A ep \in Eps : xhc.ring[ep] = << >>
    \/ \E ep \in Eps : xhc.halted[ep]
=============================================================================
