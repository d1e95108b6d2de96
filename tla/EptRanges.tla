------------------------------- MODULE EptRanges -------------------------------
(***************************************************************************)
(* The precise identity window (memory/ept.rs, EptRangeMap and             *)
(* claim_precise_with_shell_holes).  At boot the window [0, Precise) is    *)
(* cut into spans: every hole is claimed for its shell guest, everything   *)
(* else for the bring-up guest.  The call is made once per boot; here its  *)
(* loop over the sorted holes is one action per hole, so that the spans    *)
(* claimed before a failure, which the code leaves in the registry, are    *)
(* states of the model.                                                    *)
(*                                                                         *)
(* Addresses are bytes; PageBytes of EptMap scales the 4 KiB page.  A hole *)
(* that overflows 64 bits fails as one that ends beyond the window.        *)
(* PRECISE_RANGES and the registry of EptMap are two statics of the same   *)
(* file and share no state.                                                *)
(***************************************************************************)
EXTENDS EptMap, Sequences

CONSTANTS
    GuestRam,     \* GUEST_RAM_BYTES: the memory below it belongs to G0
    Precise,      \* PRECISE_BYTES: the end of the window
    HoleCap,      \* holes that fit the stack copy (8)
    RangeCap,     \* RANGE_CAP, slots of the range registry (16)
    G0,           \* M2_BRINGUP_GUEST_ID
    HoleLists     \* the arguments of the call: sequences of holes

ASSUME WindowAssumption ==
    /\ GuestRam \in Nat \ {0} /\ GuestRam % PageBytes = 0
    /\ Precise \in Nat /\ Precise % PageBytes = 0 /\ GuestRam <= Precise
    /\ HoleCap \in Nat /\ RangeCap \in Nat \ {0}
    /\ G0 \in Nat \ {0}
    /\ HoleLists \subseteq Seq([hpa : Nat, len : Nat, gid : Nat])

VARIABLES
    holes,        \* the argument of the call
    todo,         \* the holes not handled yet, by address
    cursor,       \* end of the part of the window already claimed
    ranges,       \* PRECISE_RANGES: the claimed spans, in slot order
    ret,          \* "claiming", "Ok" or the error
    latch         \* PRECISE_RANGES_OK

claimVars == <<holes, todo, cursor, ranges, ret, latch>>

ClaimErrors == {"InvalidGuest", "Invariant", "AlreadyOwned", "Full"}
EptRange == [guest : Nat, gpa : Nat, len : Nat]

\* The insertion sort: by address, holes at one address in argument order.
Ordered(hs) ==
    LET before(i, j) == \/ hs[i].hpa < hs[j].hpa
                        \/ hs[i].hpa = hs[j].hpa /\ i < j
        p == CHOOSE f \in [DOMAIN hs -> DOMAIN hs] :
                 \A i, j \in DOMAIN hs : i < j => before(f[i], f[j])
    IN  [i \in DOMAIN hs |-> hs[p[i]]]

Misaligned(a) == a % PageBytes # 0

-----------------------------------------------------------------------------
(* EptRangeMap *)

Overlaps(rs, gpa, len) ==
    \E i \in DOMAIN rs : gpa < rs[i].gpa + rs[i].len /\ rs[i].gpa < gpa + len

ClaimRange(rs, guest, gpa, len) ==
    IF guest = 0 THEN [rs |-> rs, ret |-> "InvalidGuest"]
    ELSE IF len = 0 \/ Misaligned(gpa) \/ Misaligned(len) THEN [rs |-> rs, ret |-> "Invariant"]
    ELSE IF Overlaps(rs, gpa, len) THEN [rs |-> rs, ret |-> "AlreadyOwned"]
    ELSE IF Len(rs) = RangeCap THEN [rs |-> rs, ret |-> "Full"]
    ELSE [rs |-> Append(rs, [guest |-> guest, gpa |-> gpa, len |-> len]), ret |-> "Ok"]

ContainsGpa(rs, guest, gpa) ==
    \E i \in DOMAIN rs : /\ rs[i].guest = guest
                         /\ gpa >= rs[i].gpa
                         /\ gpa < rs[i].gpa + rs[i].len

-----------------------------------------------------------------------------
(* claim_precise_with_shell_holes *)

\* Mutant: the window's last page is refused as a hole.
BadHoleStrict(h) ==
    IF h.len = 0 \/ Misaligned(h.hpa) \/ Misaligned(h.len) THEN "Invariant"
    ELSE IF h.gid = 0 \/ h.gid = G0 THEN "InvalidGuest"
    ELSE IF h.hpa + h.len >= Precise \/ h.hpa < cursor \/ h.hpa < GuestRam THEN "Invariant"
    ELSE "Ok"

\* The tests on one hole, in the order of the code.
BadHole(h) ==
    IF h.len = 0 \/ Misaligned(h.hpa) \/ Misaligned(h.len) THEN "Invariant"
    ELSE IF h.gid = 0 \/ h.gid = G0 THEN "InvalidGuest"
    ELSE IF h.hpa + h.len > Precise \/ h.hpa < cursor \/ h.hpa < GuestRam THEN "Invariant"
    ELSE "Ok"

\* The gap before a hole goes to the bring-up guest, when there is one.
ClaimGap(rs, end) ==
    IF end > cursor THEN ClaimRange(rs, G0, cursor, end - cursor)
                    ELSE [rs |-> rs, ret |-> "Ok"]

\* The look-ups made before the latch is set.
FinalCheck(rs) ==
    /\ ContainsGpa(rs, G0, 0)
    /\ ContainsGpa(rs, G0, GuestRam - PageBytes)
    /\ \A i \in DOMAIN holes : /\ ContainsGpa(rs, holes[i].gid, holes[i].hpa)
                               /\ ~ ContainsGpa(rs, G0, holes[i].hpa)

Fail(error) == ret' = error /\ UNCHANGED <<holes, todo, cursor, latch>>

ClaimInit ==
    /\ holes \in HoleLists
    /\ todo = IF Len(holes) > HoleCap THEN << >> ELSE Ordered(holes)
    /\ cursor = 0
    /\ ranges = << >>
    /\ ret = IF Len(holes) > HoleCap THEN "Full" ELSE "claiming"
    /\ latch = FALSE

\* Mutant: one page is claimed for the shell guest, whatever the hole's length.
ClaimHoleOnePage ==
    /\ ret = "claiming" /\ todo # << >>
    /\ LET h == Head(todo)
           gap == ClaimGap(ranges, h.hpa)
           own == ClaimRange(gap.rs, h.gid, h.hpa, PageBytes)
       IN  IF BadHole(h) # "Ok" THEN Fail(BadHole(h)) /\ UNCHANGED ranges
           ELSE IF gap.ret # "Ok" THEN Fail(gap.ret) /\ ranges' = gap.rs
           ELSE IF own.ret # "Ok" THEN Fail(own.ret) /\ ranges' = own.rs
           ELSE /\ ranges' = own.rs
                /\ cursor' = h.hpa + h.len
                /\ todo' = Tail(todo)
                /\ UNCHANGED <<holes, ret, latch>>

ClaimHole ==
    /\ ret = "claiming" /\ todo # << >>
    /\ LET h == Head(todo)
           gap == ClaimGap(ranges, h.hpa)
           own == ClaimRange(gap.rs, h.gid, h.hpa, h.len)
       IN  IF BadHole(h) # "Ok" THEN Fail(BadHole(h)) /\ UNCHANGED ranges
           ELSE IF gap.ret # "Ok" THEN Fail(gap.ret) /\ ranges' = gap.rs
           ELSE IF own.ret # "Ok" THEN Fail(own.ret) /\ ranges' = own.rs
           ELSE /\ ranges' = own.rs
                /\ cursor' = h.hpa + h.len
                /\ todo' = Tail(todo)
                /\ UNCHANGED <<holes, ret, latch>>

\* The rest of the window, then the final look-ups and the latch.
ClaimRest ==
    /\ ret = "claiming" /\ todo = << >>
    /\ LET rest == ClaimGap(ranges, Precise)
       IN  /\ ranges' = rest.rs
           /\ ret' = IF rest.ret = "Ok" /\ ~ FinalCheck(rest.rs) THEN "Invariant" ELSE rest.ret
           /\ latch' = (ret' = "Ok")
    /\ UNCHANGED <<holes, todo, cursor>>

ClaimStep == ClaimHole \/ ClaimRest

ClaimSpec == ClaimInit /\ [][ClaimStep]_claimVars

-----------------------------------------------------------------------------
(* Properties *)

InHole(h, a) == h.hpa <= a /\ a < h.hpa + h.len

\* Once the latch is set (the flag the VM exit marker trusts) every byte of
\* the window has exactly one span, and its guest is the guest of the hole the
\* byte lies in, the bring-up guest outside the holes (ADR-004).
WindowOwnedExactly ==
    latch => \A a \in 0 .. Precise - 1 : \E i \in DOMAIN ranges :
        /\ ranges[i].gpa <= a /\ a < ranges[i].gpa + ranges[i].len
        /\ IF \E k \in DOMAIN holes : InHole(holes[k], a)
           THEN \E k \in DOMAIN holes : InHole(holes[k], a) /\ holes[k].gid = ranges[i].guest
           ELSE ranges[i].guest = G0
        /\ \A j \in DOMAIN ranges :
               j # i => a < ranges[j].gpa \/ ranges[j].gpa + ranges[j].len <= a

WellFormed(hs) ==
    /\ \A i \in DOMAIN hs :
           /\ hs[i].len > 0 /\ hs[i].gid \notin {0, G0}
           /\ ~ Misaligned(hs[i].hpa) /\ ~ Misaligned(hs[i].len)
           /\ GuestRam <= hs[i].hpa /\ hs[i].hpa + hs[i].len <= Precise
    /\ \A i, j \in DOMAIN hs :
           i # j => ~ \E a \in 0 .. Precise : InHole(hs[i], a) /\ InHole(hs[j], a)

\* Spans the window falls into: the holes and the gaps between them.
Spans(hs) ==
    LET starts == {hs[i].hpa : i \in DOMAIN hs}
        ends == {hs[i].hpa + hs[i].len : i \in DOMAIN hs}
    IN  Cardinality(({0} \cup starts \cup ends) \ {Precise})

\* Holes that are aligned, disjoint and inside the window are accepted in any
\* order, up to the last page of the window and the last slot of the registry.
WellFormedAccepted ==
    WellFormed(holes) /\ Len(holes) <= HoleCap /\ Spans(holes) <= RangeCap => ret \notin ClaimErrors

=============================================================================
