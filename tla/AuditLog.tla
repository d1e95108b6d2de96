------------------------------- MODULE AuditLog -------------------------------
(***************************************************************************)
(* The audit hash chain and its image on disk (audit/integrity.rs,         *)
(* audit/persist.rs and the load and flush of mgmt/megaraid.rs), over a    *)
(* number of boots of one machine.                                         *)
(*                                                                         *)
(* The ring of one boot is the sequence of the kinds of its records; the   *)
(* chain hash is taken to be injective, so the hash of a record is the     *)
(* sequence of the kinds up to it (payloads are not hashed by the code and *)
(* are not modelled).  The image is an array of sectors: the header with   *)
(* the count and the tip, then one record per sector, the last one with    *)
(* the checksum, a sum that different contents may share.                  *)
(*                                                                         *)
(* The host runs on one processor: no event is recorded while a flush      *)
(* writes its sectors, but the machine may lose power between any two of   *)
(* them, and any transfer may fail.                                        *)
(***************************************************************************)
EXTENDS Integers, Sequences, SequencesExt

CONSTANTS
    RingCap,      \* AUDIT_RING_CAP (256)
    Kinds,        \* kinds of events, positive numbers (event_discriminant)
    BootKind,     \* the kind of BootStarted
    SumMod,       \* values the checksum can take
    MaxBoots,     \* bound: boots
    MaxFaults     \* bound: failed or lost transfers

ASSUME AuditAssumption ==
    /\ RingCap \in Nat \ {0}
    /\ Kinds \subseteq Nat \ {0} /\ BootKind \in Kinds
    /\ SumMod \in Nat \ {0}
    /\ MaxBoots \in Nat /\ MaxFaults \in Nat

VARIABLES
    phase,        \* "off", "booted", "loaded" (no event since), "running"
    ring,         \* BOOT_RING
    staged,       \* the ring STAGED is the image of
    on,           \* STAGED_ON
    disk,         \* the sectors of the image on the spare
    flush,        \* [pc, i]: where flush_audit_chain is
    guest,        \* the product guest: "none" or "running" (vmcs_guest)
    boots, faults,
    promised,     \* ghost: the longest chain the host saw on disk and matched
    torn,         \* ghost: the disk lacks the matched chain: a flush was cut
                  \* short ("cut"), or wrote an older ring ("stale")
    written       \* ghost: the chains some flush began to write

vars == <<phase, ring, staged, on, disk, flush, guest, boots, faults, promised, torn, written>>

Sector == 1 .. RingCap + 1
Blank == [kind |-> 0, prev |-> << >>]
Idle == [pc |-> "idle", i |-> 0]

-----------------------------------------------------------------------------
(* The ring *)

\* append; an event that does not fit is refused and record_event ignores it.
Appended(r, kind) == IF Len(r) >= RingCap THEN r ELSE Append(r, kind)

-----------------------------------------------------------------------------
(* The image *)

Checksum(count, recs) ==
    FoldFunction(LAMBDA rec, s : rec.kind + s, count, recs) % SumMod

\* encode_ring: header, records, checksum.
Encode(r) ==
    LET recs == [i \in 1 .. RingCap |-> IF i > Len(r) THEN Blank
                    ELSE [kind |-> r[i], prev |-> SubSeq(r, 1, i - 1)]]
    IN  [s \in Sector |-> IF s = 1 THEN [count |-> Len(r), tip |-> r]
                          ELSE [rec |-> recs[s - 1],
                                sum |-> IF s = RingCap + 1 THEN Checksum(Len(r), recs) ELSE 0]]

\* A sector that was never written decodes to nothing (no magic).
Unwritten == [count |-> 0, tip |-> <<0>>]
BlankDisk == [s \in Sector |-> IF s = 1 THEN Unwritten ELSE [rec |-> Blank, sum |-> 0]]

\* The records of an image, and the ring that appending them one by one gives.
Records(img) == [i \in 1 .. RingCap |-> img[i + 1].rec]
Replayed(img) == [i \in 1 .. img[1].count |-> Records(img)[i].kind]

\* Mutant: the records are taken without rebuilding the chain over them.
DecodeUnchained(img) ==
    IF img[1] = Unwritten \/ img[RingCap + 1].sum # Checksum(img[1].count, Records(img))
    THEN [ok |-> FALSE, ring |-> << >>] ELSE [ok |-> TRUE, ring |-> Replayed(img)]

\* decode_ring: the records are appended to an empty ring; every one must be
\* of a known kind and link to the one before, and the tip must come out.
Linked(img) ==
    \A i \in DOMAIN Replayed(img) :
        /\ Replayed(img)[i] \in Kinds
        /\ Records(img)[i].prev = SubSeq(Replayed(img), 1, i - 1)

Decode(img) ==
    IF /\ img[1] # Unwritten /\ img[1].count <= RingCap
       /\ img[RingCap + 1].sum = Checksum(img[1].count, Records(img))
       /\ Linked(img)
       /\ img[1].tip = Replayed(img)
    THEN [ok |-> TRUE, ring |-> Replayed(img)] ELSE [ok |-> FALSE, ring |-> << >>]

\* Mutant: the disk's chain is appended to this boot's events.
AdoptBehind(r, img) ==
    LET prior == Decode(img)
    IN  IF prior.ok /\ Len(prior.ring) + Len(r) <= RingCap THEN r \o prior.ring ELSE r

\* adopt_image: the disk's chain, then this boot's events; refused when they
\* do not fit.
Adopt(r, img) ==
    LET prior == Decode(img)
    IN  IF prior.ok /\ Len(prior.ring) + Len(r) <= RingCap THEN prior.ring \o r ELSE r

-----------------------------------------------------------------------------
Init ==
    /\ phase = "off"
    /\ ring = << >> /\ staged = << >> /\ on = FALSE
    /\ disk = BlankDisk
    /\ flush = Idle /\ guest = "none"
    /\ boots = 0 /\ faults = 0
    /\ promised = << >> /\ torn = "no" /\ written = {}

\* record_event: append, then stage the ring (a ring always encodes).
RecordEvent(kind) ==
    /\ ring' = Appended(ring, kind)
    /\ staged' = ring'
    /\ on' = TRUE

\* A new boot: fresh statics, and BootStarted is recorded first.
Boot ==
    /\ phase = "off" /\ boots < MaxBoots
    /\ phase' = "booted"
    /\ ring' = Appended(<< >>, BootKind) /\ staged' = ring' /\ on' = TRUE
    /\ flush' = Idle /\ guest' = "none"
    /\ boots' = boots + 1
    /\ UNCHANGED <<disk, faults, promised, torn, written>>

\* perc_load_audit_chain, on the way out of the firmware: every sector was
\* read.  The joined ring is not staged here.
Load ==
    /\ phase = "booted"
    /\ phase' = "loaded"
    /\ ring' = Adopt(ring, disk)
    /\ promised' = IF torn # "no" \/ Len(promised) + Len(ring) > RingCap THEN << >> ELSE promised
    /\ UNCHANGED <<staged, on, disk, flush, guest, boots, faults, torn, written>>

\* perc_load_audit_chain returns early: a read failed or timed out.
LoadFails ==
    /\ phase = "booted" /\ faults < MaxFaults
    /\ phase' = "loaded"
    /\ faults' = faults + 1
    /\ promised' = << >>
    /\ UNCHANGED <<ring, staged, on, disk, flush, guest, boots, torn, written>>

\* Any later event; before the load, the one of the retained firmware.
Record ==
    /\ phase # "off" /\ flush = Idle
    /\ phase' = IF phase = "loaded" THEN "running" ELSE phase
    /\ \E kind \in Kinds : RecordEvent(kind)
    /\ UNCHANGED <<disk, flush, guest, boots, faults, promised, torn, written>>

\* A choice is accepted while no guest runs; after a Stop the next Start rearms it.
GuestStart ==
    /\ phase \in {"loaded", "running"} /\ flush = Idle /\ guest = "none"
    /\ guest' = "running"
    /\ UNCHANGED <<phase, ring, staged, on, disk, flush, boots, faults, promised, torn, written>>

GuestEnd ==
    /\ guest = "running"
    /\ guest' = "none"
    /\ UNCHANGED <<phase, ring, staged, on, disk, flush, boots, faults, promised, torn, written>>

-----------------------------------------------------------------------------
(* flush_audit_chain, called from every idle loop; a call within two       *)
(* seconds of the last one returns, which is a delay here.                 *)

FlushStart ==
    /\ phase \in {"loaded", "running"} /\ flush = Idle
    /\ guest # "running" /\ on
    /\ flush' = [pc |-> "write", i |-> 1]
    /\ torn' = "cut" /\ written' = written \cup {staged}
    /\ UNCHANGED <<phase, ring, staged, on, disk, guest, boots, faults, promised>>

Step(pc, after) ==
    flush' = IF flush.i = RingCap + 1 THEN [pc |-> after, i |-> 1]
             ELSE [pc |-> pc, i |-> flush.i + 1]

WriteSector ==
    /\ flush.pc = "write"
    /\ disk' = [disk EXCEPT ![flush.i] = Encode(staged)[flush.i]]
    /\ Step("write", "read")
    /\ UNCHANGED <<phase, ring, staged, on, guest, boots, faults, promised, torn, written>>

\* The controller reports success and the sector keeps its old contents.
WriteLost ==
    /\ flush.pc = "write" /\ faults < MaxFaults
    /\ faults' = faults + 1
    /\ Step("write", "read")
    /\ UNCHANGED <<phase, ring, staged, on, disk, guest, boots, promised, torn, written>>

\* A transfer fails or times out: the flush returns, the image stays staged.
TransferFails ==
    /\ flush.pc \in {"write", "read"} /\ faults < MaxFaults
    /\ faults' = faults + 1
    /\ flush' = Idle
    /\ UNCHANGED <<phase, ring, staged, on, disk, guest, boots, promised, torn, written>>

\* Mutant: the sector read back is not compared.
ReadBackBlind ==
    /\ flush.pc = "read"
    /\ Step("read", "ack")
    /\ UNCHANGED <<phase, ring, staged, on, disk, guest, boots, faults, promised, torn, written>>

\* Every sector is read back and compared; a mismatch ends the flush.
ReadBack ==
    /\ flush.pc = "read"
    /\ IF disk[flush.i] = Encode(staged)[flush.i] THEN Step("read", "ack") ELSE flush' = Idle
    /\ UNCHANGED <<phase, ring, staged, on, disk, guest, boots, faults, promised, torn, written>>

\* Mutant: the generation is compared with a stale one and never matches.
AckStale ==
    /\ flush.pc = "ack"
    /\ flush' = Idle
    /\ torn' = "no"
    /\ UNCHANGED <<phase, ring, staged, on, disk, guest, boots, faults, promised, written>>

\* ack_staged: nothing was staged meanwhile, so the generation is the same.
Ack ==
    /\ flush.pc = "ack"
    /\ flush' = Idle
    /\ on' = FALSE
    /\ promised' = IF staged = ring THEN staged ELSE promised
    /\ torn' = IF staged = ring THEN "no" ELSE "stale"
    /\ UNCHANGED <<phase, ring, staged, disk, guest, boots, faults, written>>

PowerLoss ==
    /\ phase # "off"
    /\ phase' = "off"
    /\ ring' = << >> /\ staged' = << >> /\ on' = FALSE
    /\ flush' = Idle /\ guest' = "none"
    /\ UNCHANGED <<disk, boots, faults, promised, torn, written>>

Next ==
    \/ Boot \/ Load \/ LoadFails \/ Record \/ GuestStart \/ GuestEnd
    \/ FlushStart \/ WriteSector \/ WriteLost \/ TransferFails \/ ReadBack \/ Ack
    \/ PowerLoss

\* The idle loops call the flush for ever, and a flush runs to its end.
Fairness == WF_vars(FlushStart) /\ WF_vars(WriteSector) /\ WF_vars(ReadBack) /\ WF_vars(Ack)

Spec == Init /\ [][Next]_vars /\ Fairness

-----------------------------------------------------------------------------
(* Properties *)

Chain == UNION {[1 .. n -> Kinds] : n \in 0 .. RingCap}

TypeOK ==
    /\ phase \in {"off", "booted", "loaded", "running"}
    /\ ring \in Chain /\ staged \in Chain /\ promised \in Chain
    /\ on \in BOOLEAN /\ guest \in {"none", "running"}
    /\ torn \in {"no", "cut", "stale"}
    /\ disk[1].count \in 0 .. RingCap /\ written \subseteq Chain
    /\ flush \in [pc : {"idle", "write", "read", "ack"}, i : 0 .. RingCap + 1]
    /\ boots \in 0 .. MaxBoots /\ faults \in 0 .. MaxFaults

\* A torn image is never adopted: whatever mixture of old and new sectors a
\* power loss or a lost write left behind, an image that decodes is
\* one whole chain that a flush set out to write, never a splice of two.
TornImageRefused ==
    Decode(disk).ok => Decode(disk).ring \in written

\* Once an event followed the load, nothing left to flush means that the
\* disk holds the whole ring, history included (ack_staged runs only after
\* every sector was read back and compared).
AckedIsDurable ==
    phase = "running" /\ ~ on => Decode(disk).ok /\ Decode(disk).ring = ring

\* The ring of every boot continues the chain matched on disk by the boots
\* before, as long as no fault, no flush of an older image or cut short, and
\* no overflow came between.
HistoryContinues ==
    phase \in {"loaded", "running"} => IsPrefix(promised, ring)

\* An event recorded while the host idles reaches the disk, or the host
\* starts a guest or loses power first.
EventuallyDurable ==
    (phase \in {"loaded", "running"} /\ on) ~> (~ on \/ guest = "running" \/ phase = "off")

\* ADR-021 G4, "Audit survives host reboot (persisted, chained across boots)":
\* a load without a fault, after flushes that all ran to their end, continues
\* the chain that was matched on disk, if it has room for it.
SurvivesReboot ==
    [][(/\ phase = "booted" /\ phase' = "loaded" /\ faults' = faults
        /\ torn # "cut" /\ Len(promised) + Len(ring) <= RingCap)
         => IsPrefix(promised, ring')]_vars

=============================================================================
