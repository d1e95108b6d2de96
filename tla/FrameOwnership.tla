---------------------------- MODULE FrameOwnership ----------------------------
(***************************************************************************)
(* What the EPT registry promises (ADR-004), with no slots and no error    *)
(* codes: every host frame has at most one owner, and the place where the  *)
(* owner sees it, a guest page, holds at most one frame.  Ownership is     *)
(* taken only when free, given up only by its holder, and handed over in   *)
(* one step, so that a transferred frame is never without an owner and     *)
(* never with two.                                                         *)
(***************************************************************************)
CONSTANTS Frame, Guest, Page

VARIABLE owner      \* owner[f]: the place <<guest, page>> of frame f, or Nobody

Nobody == <<>>
Place == Guest \X Page

Vacant(place) == \A f \in Frame : owner[f] # place

Init == owner = [f \in Frame |-> Nobody]

Claim(f, place) ==
    /\ owner[f] = Nobody
    /\ Vacant(place)
    /\ owner' = [owner EXCEPT ![f] = place]

Release(f) ==
    /\ owner[f] # Nobody
    /\ owner' = [owner EXCEPT ![f] = Nobody]

HandOver(f, place) ==
    /\ owner[f] # Nobody
    /\ owner[f][1] # place[1]
    /\ Vacant(place)
    /\ owner' = [owner EXCEPT ![f] = place]

Next ==
    \E f \in Frame :
        \/ Release(f)
        \/ \E place \in Place : Claim(f, place) \/ HandOver(f, place)

Spec == Init /\ [][Next]_owner
=============================================================================
