----------------------------- MODULE SpareLayout -----------------------------
(***************************************************************************)
(* Where things go on the spare volume (mgmt/megaraid.rs,                  *)
(* mgmt/iso_library.rs, mgmt/guest_catalog.rs).  From the low end: the     *)
(* window with the installed guest, then guest disks one after the other.  *)
(* From the high end: the probe sector and the NIC catalog, the audit      *)
(* image, the autostart sector; the library file grows down from the       *)
(* catalog.  A byte count is a number of units: the autostart sector is    *)
(* one unit, and a unit divides a mebibyte, the granularity of disk sizes. *)
(***************************************************************************)
EXTENDS Integers, Sequences

CONSTANTS Spare,        \* size of the volume, spare class
          Window,       \* PERC_IMAGE_BYTES = SLICE1_WINDOW_BYTES
          Reserve,      \* SPARE_HIGH_RESERVE
          AuditBytes,   \* AUDIT_PERSIST_BYTES
          Chunk,        \* LIBRARY_HTTP_CHUNK, also the alignment of a library file
          DiskMax       \* GUEST_DISK_MAX

ASSUME LayoutAssumption ==
    /\ {Spare, Window, Reserve, AuditBytes, Chunk, DiskMax} \subseteq Nat \ {0}
    /\ Window + AuditBytes + Reserve < Spare

Extent == [off : Nat, bytes : Nat]

At(off, bytes) == [off |-> off, bytes |-> bytes]

\* None
NoPlace == At(0, 0)

End(e) == e.off + e.bytes

Units(e) == e.off .. End(e) - 1

\* A stored file of no bytes occupies nothing.
Apart(d, e) == End(d) <= e.off \/ End(e) <= d.off

AutostartLba == Spare - Reserve - AuditBytes - 1

\* library_floor for an empty library and for a file of n units; -1 is None.
LibraryFloor(n) ==
    IF n > Spare - Reserve THEN -1
    ELSE LET raw == Spare - Reserve - n
         IN  IF n = 0 THEN raw ELSE raw - (raw % Chunk)

\* place_iso_library
PlaceIsoLibrary(occupied, n) ==
    IF n > 0 /\ LibraryFloor(n) >= occupied THEN At(LibraryFloor(n), n) ELSE NoPlace

\* place_in_free_tail: the first disk after the window.
PlaceInFreeTail(bytes) ==
    IF bytes > Window /\ Window + bytes <= Spare - Reserve - AuditBytes
    THEN At(Window, bytes) ELSE NoPlace

\* Mutant: the library is not looked at.
PlaceIgnoringLibrary(occupied, library, bytes) ==
    IF bytes > Window /\ occupied >= Window /\ occupied + bytes <= LibraryFloor(0)
    THEN At(occupied, bytes) ELSE NoPlace

\* place_guest_after_occupied: a later disk, below a library file of that length.
PlaceGuestAfterOccupied(occupied, library, bytes) ==
    IF bytes > Window /\ occupied >= Window /\ occupied + bytes <= LibraryFloor(library)
    THEN At(occupied, bytes) ELSE NoPlace

\* decide_with_layout for a Linux install of a disk larger than the window.
DecideTail(occupied, library, bytes) ==
    IF occupied = Window /\ library = 0 THEN PlaceInFreeTail(bytes)
    ELSE PlaceGuestAfterOccupied(occupied, library, bytes)

\* disk_bytes_at: the size in the partition table at the cursor (0 for none), if it
\* is a guest disk that ends by the limit.
DiskBytesAt(cursor, bytes, limit) ==
    IF bytes > Window /\ cursor + bytes <= limit THEN bytes ELSE 0

\* occupied_guest_end over the disks known.
OccupiedEnd(disks) ==
    LET ends == {Window} \cup {End(d) : d \in disks}
    IN  CHOOSE m \in ends : \A e \in ends : e <= m
=============================================================================
