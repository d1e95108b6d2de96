------------------------------ MODULE MCMemory ------------------------------
(***************************************************************************)
(* The frame pool of memory/frame_allocator.rs and the two ownership       *)
(* records of memory/ept.rs in one run.                                    *)
(*                                                                         *)
(* The pool: five frames whose first number is odd, so that alignment by   *)
(* frame number and alignment by index differ; runs from zero to one more  *)
(* than the pool; alignments legal and illegal.                            *)
(*                                                                         *)
(* The window: a page of two bytes, nine pages, two of them guest memory.  *)
(* The bounds keep HoleCap = RangeCap / 2 as in the code, so that the      *)
(* largest list of separated holes does not fit.                           *)
(*                                                                         *)
(* The registry: two guests and the reserved id 0, two guest pages, three  *)
(* frames (none of them 0) and two slots, so that it fills up before the   *)
(* frames run out and every error is reached.                              *)
(*                                                                         *)
(* The three share no state.  The window is claimed at boot, before any    *)
(* call on the registry; the registry's calls are explored after the claim *)
(* without holes and the pool's calls beside a claim not yet begun, as any *)
(* other combination would repeat the same states of the one that moves.   *)
(***************************************************************************)
EXTENDS EptRanges, FrameAllocator

Hole(hpas, lens, gids) == [hpa : hpas, len : lens, gid : gids]

\* Any one or two holes, misaligned, empty, low, overlapping and misowned
\* ones included.
MCAnyHoles ==
    LET odd == Hole({2, 4, 5, 8, 14, 16}, {0, 2, 3, 4}, {0, 1, 2})
    IN  {<< >>} \cup {<<h>> : h \in odd} \cup {<<h, k>> : h, k \in odd}

\* Three aligned holes in any order, and lists of the longest length.
MCAlignedHoles ==
    LET even == Hole({4, 6, 8, 10, 14, 16}, {2}, {2, 3}) \cup Hole({6, 8}, {4}, {3})
    IN  {<<h, k, l>> : h, k, l \in even}

MCTooMany == {<<h, h, h, h>> : h \in Hole({4}, {2}, {2})}

MCHoleLists == MCAnyHoles \cup MCAlignedHoles \cup MCTooMany

-----------------------------------------------------------------------------

MemInit == PoolInit /\ ClaimInit /\ Init

ClaimOnly == call = NoCall /\ ClaimStep /\ UNCHANGED <<poolVars, vars>>

RegistryOnly ==
    /\ call = NoCall /\ holes = << >> /\ ret # "claiming"
    /\ Next /\ UNCHANGED <<poolVars, claimVars>>

PoolOnly ==
    /\ holes = << >> /\ ret = "claiming"
    /\ PoolNext /\ UNCHANGED <<vars, claimVars>>

MemNext == ClaimOnly \/ RegistryOnly \/ PoolOnly

MemSpec == MemInit /\ [][MemNext]_<<poolVars, vars, claimVars>>
=============================================================================
