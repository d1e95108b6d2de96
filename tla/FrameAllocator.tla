---------------------------- MODULE FrameAllocator ----------------------------
(***************************************************************************)
(* The physical frame allocator of the Proven Core                         *)
(* (memory/frame_allocator.rs): a bitmap over one contiguous span of host  *)
(* frames, a redundant count of the set bits, and a scan hint that makes   *)
(* single-frame allocation resume where the last operation left off.       *)
(*                                                                         *)
(* A pool is a record [bits, count, hint]; every method is an operator     *)
(* from a pool to the pool it leaves and the value it returns, so that the *)
(* boot self-test can be written as the chain of calls it is.  The bitmap  *)
(* is the set of the indices whose bit is set.                             *)
(***************************************************************************)
EXTENDS Integers, FiniteSets

CONSTANTS
    BaseFrame,    \* number of the first frame of the pool (base_phys >> 12)
    Capacity,     \* frames in the pool
    RunLengths,   \* values of n in allocate_contiguous_aligned
    Alignments    \* values of align_pages, zero and non-powers of two included

ASSUME PoolAssumption ==
    /\ BaseFrame \in Nat
    /\ Capacity \in Nat \ {0}
    /\ RunLengths \subseteq Nat
    /\ Alignments \subseteq Nat

VARIABLES
    pool,         \* the FrameAllocator value
    call,         \* the last call and what it returned
    selftestOk    \* ALLOC_SELFTEST_OK

poolVars == <<pool, call, selftestOk>>

Index == 0 .. Capacity - 1
PoolFrames == BaseFrame .. BaseFrame + Capacity - 1
NoFrame == -1
Pools == [bits : SUBSET Index, count : Nat, hint : Index]

-----------------------------------------------------------------------------
(* Queries *)

Contains(f) == f >= BaseFrame /\ f < BaseFrame + Capacity

IndexOf(f) == f - BaseFrame

IsAllocated(p, f) == Contains(f) /\ IndexOf(f) \in p.bits

IsPowerOfTwo(a) == \E k \in 0 .. a : a = 2 ^ k

\* The frames f, f + 1, ..., f + n - 1.
Run(f, n) == f .. f + n - 1

-----------------------------------------------------------------------------
(* Allocation of one frame: probe from the hint, wrapping, take the first  *)
(* clear bit and leave the hint just behind it.                            *)

Probe(p, off) == (p.hint + off) % Capacity

\* Mutant: the scan stops at the end of the bitmap instead of wrapping.
FirstClearNoWrap(p, off) ==
    /\ p.hint + off < Capacity
    /\ Probe(p, off) \notin p.bits
    /\ \A o \in Index : o < off => Probe(p, o) \in p.bits

FirstClear(p, off) ==
    /\ Probe(p, off) \notin p.bits
    /\ \A o \in Index : o < off => Probe(p, o) \in p.bits

TakeIndex(p, i) ==
    [bits |-> p.bits \cup {i}, count |-> p.count + 1, hint |-> (i + 1) % Capacity]

AllocateFrame(p) ==
    IF p.count >= Capacity \/ ~ \E off \in Index : FirstClear(p, off)
    THEN [pool |-> p, ret |-> NoFrame]
    ELSE LET i == Probe(p, CHOOSE off \in Index : FirstClear(p, off))
         IN  [pool |-> TakeIndex(p, i), ret |-> BaseFrame + i]

-----------------------------------------------------------------------------
(* Allocation of an aligned run: first fit from index 0.  The alignment is *)
(* of the absolute frame number, not of the index.                         *)

\* Mutant: alignment tested on the pool index.
FitsByIndex(p, start, n, align) ==
    /\ start % align = 0
    /\ \A j \in 0 .. n - 1 : start + j \notin p.bits

Fits(p, start, n, align) ==
    /\ (BaseFrame + start) % align = 0
    /\ \A j \in 0 .. n - 1 : start + j \notin p.bits

FirstFit(p, start, n, align) ==
    /\ Fits(p, start, n, align)
    /\ \A s \in 0 .. start - 1 : ~ Fits(p, s, n, align)

\* Mutant: a run is counted as one allocation.
TakeRunCountOne(p, start, n) ==
    [bits |-> p.bits \cup Run(start, n),
     count |-> p.count + 1,
     hint |-> (start + n) % Capacity]

TakeRun(p, start, n) ==
    [bits |-> p.bits \cup Run(start, n),
     count |-> p.count + n,
     hint |-> (start + n) % Capacity]

AllocateContiguousAligned(p, n, align) ==
    IF n = 0 \/ ~ IsPowerOfTwo(align) THEN [pool |-> p, ret |-> NoFrame]
    ELSE IF n = 1 /\ align = 1 THEN AllocateFrame(p)
    ELSE IF \/ n > Capacity
            \/ p.count + n > Capacity
            \/ ~ \E s \in 0 .. Capacity - n : FirstFit(p, s, n, align)
    THEN [pool |-> p, ret |-> NoFrame]
    ELSE LET start == CHOOSE s \in 0 .. Capacity - n : FirstFit(p, s, n, align)
         IN  [pool |-> TakeRun(p, start, n), ret |-> BaseFrame + start]

-----------------------------------------------------------------------------
(* Free: rejected outside the pool and when the bit is already clear; the  *)
(* hint moves to the freed index, so the next allocation reuses it.        *)

ClearIndex(p, i) == [bits |-> p.bits \ {i}, count |-> p.count - 1, hint |-> i]

FreeFrame(p, f) ==
    IF ~ Contains(f) THEN [pool |-> p, ret |-> "InvalidFrame"]
    ELSE IF IndexOf(f) \notin p.bits THEN [pool |-> p, ret |-> "DoubleFree"]
    ELSE [pool |-> ClearIndex(p, IndexOf(f)), ret |-> "Ok"]

-----------------------------------------------------------------------------
(* run_allocator_selftest: the chain of calls with its early returns.  A   *)
(* failing call returns at once and leaves the frames taken so far.        *)

SelftestResult(p) ==
    LET r1 == AllocateFrame(p)
        r2 == AllocateFrame(r1.pool)
        r3 == FreeFrame(r2.pool, r1.ret)
        r4 == FreeFrame(r3.pool, r1.ret)
        r5 == AllocateFrame(r4.pool)
        r6 == FreeFrame(r5.pool, r2.ret)
        r7 == FreeFrame(r6.pool, r5.ret)
    IN  IF r1.ret = NoFrame THEN [pool |-> p, ret |-> "Oom"]
        ELSE IF r2.ret = NoFrame THEN [pool |-> r1.pool, ret |-> "Oom"]
        ELSE IF \/ r1.ret = r2.ret
                \/ ~ IsAllocated(r2.pool, r1.ret)
                \/ ~ IsAllocated(r2.pool, r2.ret)
        THEN [pool |-> r2.pool, ret |-> "Bootstrap"]
        ELSE IF r3.ret # "Ok" THEN [pool |-> r3.pool, ret |-> r3.ret]
        ELSE IF r4.ret = "Ok" THEN [pool |-> r4.pool, ret |-> "DoubleFree"]
        ELSE IF r4.ret # "DoubleFree" THEN [pool |-> r4.pool, ret |-> r4.ret]
        ELSE IF r5.ret = NoFrame THEN [pool |-> r5.pool, ret |-> "Oom"]
        ELSE IF r5.ret # r1.ret THEN [pool |-> r5.pool, ret |-> "Bootstrap"]
        ELSE IF r6.ret # "Ok" THEN [pool |-> r6.pool, ret |-> r6.ret]
        ELSE IF r7.ret # "Ok" THEN [pool |-> r7.pool, ret |-> r7.ret]
        ELSE [pool |-> r7.pool,
              ret |-> IF r7.pool.count = p.count THEN "Ok" ELSE "Bootstrap"]

-----------------------------------------------------------------------------
(* The specification: any sequence of calls on one allocator.  The         *)
(* self-test runs once, straight after the constructor (src/main.rs).      *)

NewPool == [bits |-> {}, count |-> 0, hint |-> 0]

NoCall == [op |-> "new", n |-> 0, align |-> 0, frame |-> NoFrame, ret |-> "Ok"]

PoolInit ==
    /\ pool = NewPool
    /\ call = NoCall
    /\ selftestOk = FALSE

Selftest ==
    /\ call.op = "new"
    /\ LET r == SelftestResult(pool)
       IN  /\ pool' = r.pool
           /\ selftestOk' = (r.ret = "Ok")
           /\ call' = [NoCall EXCEPT !.op = "selftest", !.ret = r.ret]

Allocate ==
    LET r == AllocateFrame(pool)
    IN  /\ pool' = r.pool
        /\ call' = [op |-> "allocate", n |-> 1, align |-> 1,
                    frame |-> r.ret, ret |-> IF r.ret = NoFrame THEN "None" ELSE "Some"]
        /\ UNCHANGED selftestOk

AllocateRun(n, align) ==
    LET r == AllocateContiguousAligned(pool, n, align)
    IN  /\ pool' = r.pool
        /\ call' = [op |-> "allocate", n |-> n, align |-> align,
                    frame |-> r.ret, ret |-> IF r.ret = NoFrame THEN "None" ELSE "Some"]
        /\ UNCHANGED selftestOk

\* Callers may also hand back a frame they do not hold, or none of the pool's.
Free(f) ==
    LET r == FreeFrame(pool, f)
    IN  /\ pool' = r.pool
        /\ call' = [op |-> "free", n |-> 1, align |-> 1, frame |-> f, ret |-> r.ret]
        /\ UNCHANGED selftestOk

PoolNext ==
    \/ Selftest
    \/ Allocate
    \/ \E n \in RunLengths, a \in Alignments : AllocateRun(n, a)
    \/ \E f \in BaseFrame - 1 .. BaseFrame + Capacity : Free(f)

PoolSpec == PoolInit /\ [][PoolNext]_poolVars

-----------------------------------------------------------------------------
(* Properties *)

\* The pool, the hint and the last call have their types.
PoolTypeOK ==
    /\ pool \in Pools
    /\ call \in [op : {"new", "selftest", "allocate", "free"},
                 n : Nat, align : Nat, frame : Int,
                 ret : {"Ok", "Oom", "Bootstrap", "DoubleFree", "InvalidFrame",
                        "Some", "None"}]
    /\ selftestOk \in BOOLEAN

\* allocated_count is the number of set bits: the early returns of both
\* allocation paths read the count, never the bitmap.
CountIsCardinality == pool.count = Cardinality(pool.bits)

\* No double allocation: a returned run lies in the pool, was entirely free,
\* is entirely allocated afterwards, starts on the alignment asked for, and
\* no other bit moves.
ReturnedRunIsFresh ==
    [][ call'.op = "allocate" /\ call'.ret = "Some" =>
          LET got == Run(call'.frame - BaseFrame, call'.n)
          IN  /\ got \subseteq Index
              /\ got \cap pool.bits = {}
              /\ pool'.bits = pool.bits \cup got
              /\ call'.frame % call'.align = 0 ]_poolVars

\* No false exhaustion: None for a legal request means that no free run of
\* that length and alignment exists anywhere in the pool; for a single frame,
\* that every frame is allocated.
NoneMeansNoRun ==
    [][ call'.op = "allocate" /\ call'.ret = "None"
          /\ call'.n > 0 /\ IsPowerOfTwo(call'.align) =>
            /\ pool' = pool
            /\ \A s \in Index :
                 s + call'.n <= Capacity /\ (BaseFrame + s) % call'.align = 0
                   => Run(s, call'.n) \cap pool.bits # {} ]_poolVars

\* A freed frame is the one the next single-frame allocation returns
\* (run_allocator_selftest relies on it: f3 must equal f1).
FreedFrameIsReused ==
    [][ /\ call.op = "free" /\ call.ret = "Ok"
        /\ call'.op = "allocate" /\ call'.n = 1 /\ call'.align = 1
        => call'.frame = call.frame ]_poolVars

=============================================================================
