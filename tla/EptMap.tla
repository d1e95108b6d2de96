-------------------------------- MODULE EptMap --------------------------------
(***************************************************************************)
(* The EPT ownership registry (memory/ept.rs, EptMap): a fixed array of    *)
(* optional mappings and a count of the occupied slots, with map, unmap,   *)
(* the EPT-violation disposition and the page transfer between guests.     *)
(*                                                                         *)
(* A registry is a record [slots, len].  Guest-physical addresses are byte *)
(* addresses; PageBytes scales the 4 KiB page down so that every byte of a *)
(* page can be an argument.  The permissions are kept because the failure  *)
(* path of transfer_page re-installs the source mapping with the           *)
(* permissions of the call.                                                *)
(***************************************************************************)
EXTENDS Integers, FiniteSets

CONSTANTS
    MapCap,       \* slots of the registry (512; 8 under Kani)
    Guests,       \* guest ids callers pass, 0 (the reserved id) included
    Gpas,         \* guest-physical byte addresses callers pass
    PageBytes,    \* bytes in a page
    Frames,       \* host frames
    Perms         \* permission sets

ASSUME RegistryAssumption ==
    /\ MapCap \in Nat \ {0}
    /\ Guests \subseteq Nat
    /\ Gpas \subseteq Nat
    /\ PageBytes \in Nat \ {0}
    /\ Frames \subseteq Nat

VARIABLES
    reg,          \* the EptMap
    res           \* the last call and its result

vars == <<reg, res>>

Slot == 1 .. MapCap
Empty == [guest |-> 0, gpa |-> 0, frame |-> 0, perm |-> "none"]
Mapping == [guest : Nat \ {0}, gpa : Nat, frame : Frames, perm : Perms]
Registry == [slots : [Slot -> Mapping \cup {Empty}], len : Nat]

Errors == {"AlreadyOwned", "NotMapped", "InvalidGuest", "Full"}

Used(r) == {i \in Slot : r.slots[i] # Empty}

\* Address of the page that holds a byte (gpa & !0xfff).
PageOf(gpa) == gpa - (gpa % PageBytes)

-----------------------------------------------------------------------------
(* map *)

\* Mutant: only the frame is looked up, so one guest page can get two frames.
ConflictByFrame(r, guest, page, frame) ==
    \E i \in Used(r) : r.slots[i].frame = frame

Conflict(r, guest, page, frame) ==
    \E i \in Used(r) :
        \/ r.slots[i].frame = frame
        \/ r.slots[i].guest = guest /\ r.slots[i].gpa = page

FirstEmpty(r, i) ==
    /\ r.slots[i] = Empty
    /\ \A j \in Slot : j < i => r.slots[j] # Empty

Install(r, i, mapping) ==
    [slots |-> [r.slots EXCEPT ![i] = mapping], len |-> r.len + 1]

Map(r, guest, gpa, frame, perm) ==
    IF guest = 0 THEN [reg |-> r, ret |-> "InvalidGuest"]
    ELSE IF Conflict(r, guest, PageOf(gpa), frame) THEN [reg |-> r, ret |-> "AlreadyOwned"]
    ELSE IF ~ \E i \in Slot : FirstEmpty(r, i) THEN [reg |-> r, ret |-> "Full"]
    ELSE LET i == CHOOSE s \in Slot : FirstEmpty(r, s)
         IN  [reg |-> Install(r, i, [guest |-> guest, gpa |-> PageOf(gpa),
                                     frame |-> frame, perm |-> perm]),
              ret |-> "Ok"]

-----------------------------------------------------------------------------
(* unmap and the queries; the audit event of unmap is left out.  A search  *)
(* takes the first slot that matches.                                      *)

Maps(r, i, guest, gpa) ==
    /\ r.slots[i] # Empty
    /\ r.slots[i].guest = guest
    /\ r.slots[i].gpa = PageOf(gpa)

FirstMaps(r, i, guest, gpa) ==
    /\ Maps(r, i, guest, gpa)
    /\ \A j \in Slot : j < i => ~ Maps(r, j, guest, gpa)

\* owner_of_gpa(guest, gpa) is Some(_)
Mapped(r, guest, gpa) == \E i \in Slot : Maps(r, i, guest, gpa)

Remove(r, i) == [slots |-> [r.slots EXCEPT ![i] = Empty], len |-> r.len - 1]

\* A frame, or an error.
Unmap(r, guest, gpa) ==
    IF ~ \E i \in Slot : FirstMaps(r, i, guest, gpa) THEN [reg |-> r, ret |-> "NotMapped", frame |-> 0]
    ELSE LET i == CHOOSE s \in Slot : FirstMaps(r, s, guest, gpa)
         IN  [reg |-> Remove(r, i), ret |-> "Ok", frame |-> r.slots[i].frame]

-----------------------------------------------------------------------------
(* transfer_page: the destination page is looked up before the source is   *)
(* unmapped; a map that then fails re-installs the source mapping, with    *)
(* the permissions of the call.                                            *)

\* Mutant: map before unmap, so the frame still has its old owner.
TransferMapFirst(r, src, sgpa, dst, dgpa, perm) ==
    IF src = 0 \/ dst = 0 \/ src = dst THEN [reg |-> r, ret |-> "InvalidGuest"]
    ELSE LET u == Unmap(r, src, sgpa)
             i == CHOOSE s \in Slot : FirstEmpty(r, s)
         IN  IF u.ret # "Ok" \/ ~ \E s \in Slot : FirstEmpty(r, s)
             THEN [reg |-> r, ret |-> "Full"]
             ELSE [reg |-> Install(r, i, [guest |-> dst, gpa |-> PageOf(dgpa),
                                          frame |-> u.frame, perm |-> perm]),
                   ret |-> "Ok"]

TransferPage(r, src, sgpa, dst, dgpa, perm) ==
    IF src = 0 \/ dst = 0 \/ src = dst THEN [reg |-> r, ret |-> "InvalidGuest"]
    ELSE IF Mapped(r, dst, dgpa) THEN [reg |-> r, ret |-> "AlreadyOwned"]
    ELSE LET u == Unmap(r, src, sgpa)
             p == Map(u.reg, dst, dgpa, u.frame, perm)
         IN  IF u.ret # "Ok" THEN [reg |-> r, ret |-> u.ret]
             ELSE IF p.ret = "Ok" THEN p
             ELSE [reg |-> Map(u.reg, src, sgpa, u.frame, perm).reg, ret |-> p.ret]

-----------------------------------------------------------------------------
(* The specification: any sequence of calls.                               *)

New == [slots |-> [i \in Slot |-> Empty], len |-> 0]

Init == reg = New /\ res = [op |-> "new", ret |-> "Ok"]

\* map, called by the boot path or, for a ClaimMap disposition, by
\* apply_violation_disposition.
MapCall(guest, gpa, frame, perm) ==
    LET r == Map(reg, guest, gpa, frame, perm)
    IN  reg' = r.reg /\ res' = [op |-> "map", ret |-> r.ret]

\* EmulateNoMap and Reject touch nothing.
ViolationNoMap == res' = [op |-> "violation", ret |-> "Ok"] /\ UNCHANGED reg

UnmapCall(guest, gpa) ==
    LET r == Unmap(reg, guest, gpa)
    IN  reg' = r.reg /\ res' = [op |-> "unmap", ret |-> r.ret]

TransferCall(src, sgpa, dst, dgpa, perm) ==
    LET r == TransferPage(reg, src, sgpa, dst, dgpa, perm)
    IN  reg' = r.reg /\ res' = [op |-> "transfer", ret |-> r.ret]

Next ==
    \/ \E g \in Guests, a \in Gpas, f \in Frames, p \in Perms : MapCall(g, a, f, p)
    \/ ViolationNoMap
    \/ \E g \in Guests, a \in Gpas : UnmapCall(g, a)
    \/ \E s, d \in Guests, sa, da \in Gpas, p \in Perms : TransferCall(s, sa, d, da, p)

Spec == Init /\ [][Next]_vars

-----------------------------------------------------------------------------
(* Properties *)

\* The registry and the last result have their types.
TypeOK ==
    /\ reg \in Registry
    /\ res \in [op : {"new", "map", "violation", "unmap", "transfer"}, ret : Errors \cup {"Ok"}]

ExclusiveFrames(r) ==
    \A i, j \in Used(r) : r.slots[i].frame = r.slots[j].frame => i = j

ExclusivePages(r) ==
    \A i, j \in Used(r) :
        r.slots[i].guest = r.slots[j].guest /\ r.slots[i].gpa = r.slots[j].gpa => i = j

\* ADR-004, the first half of check_invariants: no host frame is mapped by two
\* slots, whoever the guests are.
FrameExclusive == ExclusiveFrames(reg)

\* ADR-004, the second half: no guest page is mapped by two slots.
PageExclusive == ExclusivePages(reg)

LenMatches(r) == r.len = Cardinality(Used(r))

\* len counts the occupied slots (the last line of check_invariants).
LenIsUsed == LenMatches(reg)

\* A call that reports an error leaves every mapping, permissions included,
\* exactly as it was: map, unmap and transfer fail closed.
FailClosed == [][ res'.ret # "Ok" => reg' = reg ]_vars

\* The place of a frame in the abstract ownership map.
OwnerOf(r, f) ==
    IF \E i \in Used(r) : r.slots[i].frame = f
    THEN LET i == CHOOSE s \in Used(r) : r.slots[s].frame = f
         IN  <<r.slots[i].guest, r.slots[i].gpa>>
    ELSE <<>>

Ownership ==
    INSTANCE FrameOwnership WITH
        Frame <- Frames,
        Guest <- Guests \ {0},
        Page <- {PageOf(a) : a \in Gpas},
        owner <- [f \in Frames |-> OwnerOf(reg, f)]

\* The registry, slots and error codes hidden, behaves as exclusive ownership
\* with atomic hand-over (the content ept_model refines, M3.18 and M6.3).
ImplementsOwnership == Ownership!Spec
=============================================================================
