---------------------------- MODULE MemoryProofs ----------------------------
(***************************************************************************)
(* Theorems about who owns memory, for every size.                         *)
(*                                                                         *)
(* The frame allocator: the inductive invariant is that the count is the   *)
(* cardinality of the bitmap and the hint an index, together with what a   *)
(* successful free leaves behind.  ADR-004: the registry of EptMap is      *)
(* exclusive, its calls fail closed, and it implements FrameOwnership.     *)
(* The precise window of EptRanges, for every window, page size and list   *)
(* of holes, accepted or not.                                              *)
(***************************************************************************)
EXTENDS EptRanges, FrameAllocator,
        NaturalsInduction, WellFoundedInduction, FunctionTheorems, FiniteSetTheorems, TLAPS

\* A non-empty set of naturals has a least element: a loop over an array that
\* stops at the first match stops whenever a match exists.
LEMMA LeastNatural ==
    ASSUME NEW S \in SUBSET Nat, S # {}
    PROVE  \E x \in S : \A y \in S : x <= y
<1>. DEFINE R == OpToRel(<, Nat)
<1>1. IsWellFoundedOn(R, Nat) BY NatLessThanWellFounded
<1>. HIDE DEF R
<1>2. \E x \in S : \A y \in S : ~ (<<y, x>> \in R) BY <1>1, WFMin
<1>3. \A x, y \in Nat : (y < x) => <<y, x>> \in R BY DEF R, OpToRel
<1>4. PICK x \in S : \A y \in S : ~ (<<y, x>> \in R) BY <1>2
<1>5. \A y \in S : ~ (y < x) BY <1>3, <1>4
<1>6. \A y \in S : x <= y BY <1>5
<1>. QED BY <1>6

\* A multiple of the page size is one, and at least a page when it is not zero.
LEMMA MultipleIs ==
    ASSUME NEW p \in Nat \ {0}, NEW a \in Nat, a % p = 0
    PROVE  (\E k \in Nat : a = k * p) /\ (a > 0 => a >= p)
<1>1. a = p * (a \div p) + (a % p) OBVIOUS
<1>2. a \div p \in Nat OBVIOUS
<1>3. a = (a \div p) * p BY <1>1, <1>2
<1>4. a > 0 => a >= p OBVIOUS
<1>5. \E k \in Nat : a = k * p BY <1>2, <1>3
<1>. QED BY <1>4, <1>5

\* Sums and differences of multiples of the page size are multiples of it.
LEMMA MultiplesClosed ==
    ASSUME NEW p \in Nat \ {0}, NEW a \in Nat, NEW b \in Nat, a % p = 0, b % p = 0
    PROVE  (a + b) % p = 0 /\ (b <= a => (a - b) % p = 0)
<1>1. PICK k \in Nat : a = k * p BY MultipleIs
<1>2. PICK l \in Nat : b = l * p BY MultipleIs
<1>3. \A m \in Nat : (m * p) % p = 0 OBVIOUS
<1>4. a + b = (k + l) * p /\ k + l \in Nat BY <1>1, <1>2
<1>5. b <= a => k - l \in Nat BY <1>1, <1>2
<1>6. a - b = (k - l) * p BY <1>1, <1>2
<1>. QED BY <1>3, <1>4, <1>5, <1>6

-----------------------------------------------------------------------------
(* The frame allocator *)

GoodPool(p) == p \in Pools /\ p.count = Cardinality(p.bits)

\* The bitmap is a finite set of indices.
LEMMA BitsFinite ==
    ASSUME NEW p \in Pools
    PROVE  IsFiniteSet(p.bits) /\ p.bits \subseteq Index /\ Cardinality(p.bits) \in Nat
<1>1. Capacity \in Nat \ {0} BY PoolAssumption
<1>2. IsFiniteSet(Index) BY <1>1, FS_Interval DEF Index
<1>3. p.bits \subseteq Index BY DEF Pools
<1>4. IsFiniteSet(p.bits) BY <1>2, <1>3, FS_Subset
<1>. QED BY <1>3, <1>4, FS_CardinalityType

\* Taking a clear index keeps the count equal to the number of set bits.
LEMMA TakeIndexGood ==
    ASSUME NEW p, GoodPool(p), NEW i \in Index, i \notin p.bits
    PROVE  GoodPool(TakeIndex(p, i))
<1>1. Capacity \in Nat \ {0} BY PoolAssumption
<1>2. p \in Pools BY DEF GoodPool
<1>3. IsFiniteSet(p.bits) /\ Cardinality(p.bits) \in Nat BY <1>2, BitsFinite
<1>4. Cardinality(p.bits \cup {i}) = Cardinality(p.bits) + 1
  BY <1>3, FS_AddElement
<1>5. (i + 1) % Capacity \in Index BY <1>1 DEF Index
<1>6. p.bits \cup {i} \in SUBSET Index BY <1>2 DEF Pools
<1>7. p.count + 1 \in Nat BY <1>2 DEF Pools
<1>8. TakeIndex(p, i) \in Pools BY <1>5, <1>6, <1>7 DEF TakeIndex, Pools
<1>. QED BY <1>4, <1>8 DEF GoodPool, TakeIndex

\* Clearing a set index does too.
LEMMA ClearIndexGood ==
    ASSUME NEW p, GoodPool(p), NEW i \in p.bits
    PROVE  GoodPool(ClearIndex(p, i))
<1>2. p \in Pools BY DEF GoodPool
<1>3. IsFiniteSet(p.bits) /\ Cardinality(p.bits) \in Nat /\ p.bits \subseteq Index
  BY <1>2, BitsFinite
<1>4. Cardinality(p.bits \ {i}) = Cardinality(p.bits) - 1
  BY <1>3, FS_RemoveElement
<1>5. IsFiniteSet(p.bits \ {i}) BY <1>3, FS_Subset
<1>6. Cardinality(p.bits \ {i}) \in Nat BY <1>5, FS_CardinalityType
<1>7. p.count - 1 \in Nat BY <1>4, <1>6 DEF GoodPool
<1>8. ClearIndex(p, i) \in Pools BY <1>2, <1>3, <1>7 DEF ClearIndex, Pools
<1>. QED BY <1>4, <1>8 DEF GoodPool, ClearIndex

\* Taking a run of clear indices adds its length to the count.
LEMMA TakeRunGood ==
    ASSUME NEW p, GoodPool(p), NEW s \in Nat, NEW n \in Nat, n > 0,
           s + n <= Capacity, Run(s, n) \cap p.bits = {}
    PROVE  GoodPool(TakeRun(p, s, n))
<1>1. Capacity \in Nat \ {0} BY PoolAssumption
<1>2. p \in Pools BY DEF GoodPool
<1>3. IsFiniteSet(p.bits) /\ Cardinality(p.bits) \in Nat BY <1>2, BitsFinite
<1>4. IsFiniteSet(Run(s, n)) /\ Cardinality(Run(s, n)) = n
  <2>1. s \in Int /\ s + n - 1 \in Int OBVIOUS
  <2>2. IsFiniteSet(s .. s + n - 1) BY <2>1, FS_Interval
  <2>3. Cardinality(s .. s + n - 1) = IF s > s + n - 1 THEN 0 ELSE (s + n - 1) - s + 1
    BY <2>1, FS_Interval
  <2>. QED BY <2>2, <2>3 DEF Run
<1>5. Cardinality(p.bits \cup Run(s, n)) = Cardinality(p.bits) + n
  <2>1. p.bits \cap Run(s, n) = {} OBVIOUS
  <2>2. Cardinality(p.bits \cap Run(s, n)) = 0 BY <2>1, FS_EmptySet
  <2>. QED BY <1>3, <1>4, <2>2, FS_Union
<1>6. Run(s, n) \subseteq Index BY <1>1 DEF Run, Index
<1>7. (s + n) % Capacity \in Index BY <1>1 DEF Index
<1>8. p.count + n \in Nat BY <1>2 DEF Pools
<1>9. TakeRun(p, s, n) \in Pools BY <1>2, <1>6, <1>7, <1>8 DEF TakeRun, Pools
<1>. QED BY <1>5, <1>9 DEF GoodPool, TakeRun

\* What allocate_frame returns: nothing, or a clear index it has now set.
LEMMA AllocateFrameGood ==
    ASSUME NEW p, GoodPool(p)
    PROVE  /\ GoodPool(AllocateFrame(p).pool)
           /\ AllocateFrame(p).ret \in Int
           /\ \/ AllocateFrame(p).ret = NoFrame /\ AllocateFrame(p).pool = p
              \/ \E i \in Index : /\ i \notin p.bits
                                  /\ AllocateFrame(p).ret = BaseFrame + i
                                  /\ AllocateFrame(p).pool = TakeIndex(p, i)
<1>1. Capacity \in Nat \ {0} /\ BaseFrame \in Nat BY PoolAssumption
<1>. DEFINE none == p.count >= Capacity \/ ~ \E off \in Index : FirstClear(p, off)
<1>2. CASE none
  <2>1. AllocateFrame(p) = [pool |-> p, ret |-> NoFrame] BY <1>2 DEF AllocateFrame
  <2>. QED BY <2>1 DEF NoFrame
<1>3. CASE ~ none
  <2>. DEFINE off == CHOOSE o \in Index : FirstClear(p, o)
              i == Probe(p, off)
  <2>1. off \in Index /\ FirstClear(p, off) BY <1>3
  <2>2. p.hint \in Index BY DEF GoodPool, Pools
  <2>3. i \in Index BY <1>1, <2>1, <2>2 DEF Probe, Index
  <2>4. i \notin p.bits BY <2>1 DEF FirstClear
  <2>5. AllocateFrame(p) = [pool |-> TakeIndex(p, i), ret |-> BaseFrame + i]
    BY <1>3 DEF AllocateFrame
  <2>6. GoodPool(TakeIndex(p, i)) BY <2>3, <2>4, TakeIndexGood
  <2>7. BaseFrame + i \in Int BY <1>1, <2>3 DEF Index
  <2>. HIDE DEF i
  <2>8. /\ AllocateFrame(p).ret = BaseFrame + i
        /\ AllocateFrame(p).pool = TakeIndex(p, i)
    BY <2>5
  <2>. QED BY <2>3, <2>4, <2>6, <2>7, <2>8
<1>. QED BY <1>2, <1>3

\* r is an answer to a request for n frames aligned on a: nothing, or a run.
Granted(p, n, a, r) ==
    \/ r.ret = NoFrame /\ r.pool = p
    \/ \E s \in Index : /\ r.ret = BaseFrame + s
                        /\ (BaseFrame + s) % a = 0
                        /\ Run(s, n) \subseteq Index
                        /\ Run(s, n) \cap p.bits = {}
                        /\ r.pool.bits = p.bits \cup Run(s, n)

\* What allocate_contiguous_aligned returns: nothing, or the base of a run of
\* clear indices it has now set, on the alignment asked for.
LEMMA AllocateRunGood ==
    ASSUME NEW p, GoodPool(p), NEW n \in Nat, NEW a \in Nat
    PROVE  LET r == AllocateContiguousAligned(p, n, a)
           IN  /\ GoodPool(r.pool)
               /\ r.ret \in Int
               /\ Granted(p, n, a, r)
<1>. DEFINE r == AllocateContiguousAligned(p, n, a)
<1>0. SUFFICES /\ GoodPool(r.pool)
               /\ r.ret \in Int
               /\ \/ r.ret = NoFrame /\ r.pool = p
                  \/ \E s \in Index : /\ r.ret = BaseFrame + s
                                      /\ (BaseFrame + s) % a = 0
                                      /\ Run(s, n) \subseteq Index
                                      /\ Run(s, n) \cap p.bits = {}
                                      /\ r.pool.bits = p.bits \cup Run(s, n)
  BY DEF Granted
<1>. HIDE DEF r
<1>1. Capacity \in Nat \ {0} /\ BaseFrame \in Nat BY PoolAssumption
<1>. DEFINE bad == n = 0 \/ ~ IsPowerOfTwo(a)
            single == n = 1 /\ a = 1
            none == \/ n > Capacity
                    \/ p.count + n > Capacity
                    \/ ~ \E s \in 0 .. Capacity - n : FirstFit(p, s, n, a)
<1>2. CASE bad
  <2>1. r = [pool |-> p, ret |-> NoFrame] BY <1>2 DEF r, AllocateContiguousAligned
  <2>. QED BY <2>1 DEF NoFrame
<1>3. CASE ~ bad /\ single
  <2>1. r = AllocateFrame(p) BY <1>3 DEF r, AllocateContiguousAligned
  <2>2. CASE r.ret = NoFrame /\ r.pool = p
    BY <2>2, <2>1, AllocateFrameGood
  <2>3. CASE \E i \in Index : /\ i \notin p.bits
                              /\ r.ret = BaseFrame + i
                              /\ r.pool = TakeIndex(p, i)
    <3>1. PICK i \in Index : /\ i \notin p.bits
                             /\ r.ret = BaseFrame + i
                             /\ r.pool = TakeIndex(p, i)
      BY <2>3
    <3>2. Run(i, n) = {i} BY <1>3 DEF Run, Index
    <3>3. (BaseFrame + i) % a = 0 BY <1>1, <1>3 DEF Index
    <3>4. r.pool.bits = p.bits \cup {i} BY <3>1 DEF TakeIndex
    <3>5. GoodPool(r.pool) /\ r.ret \in Int BY <2>1, AllocateFrameGood
    <3>. QED BY <3>1, <3>2, <3>3, <3>4, <3>5
  <2>. QED BY <2>1, <2>2, <2>3, AllocateFrameGood
<1>4. CASE ~ bad /\ ~ single /\ none
  <2>1. r = [pool |-> p, ret |-> NoFrame] BY <1>4 DEF r, AllocateContiguousAligned
  <2>. QED BY <2>1 DEF NoFrame
<1>5. CASE ~ bad /\ ~ single /\ ~ none
  <2>. DEFINE s == CHOOSE t \in 0 .. Capacity - n : FirstFit(p, t, n, a)
  <2>1. s \in 0 .. Capacity - n /\ FirstFit(p, s, n, a) BY <1>5
  <2>2. r = [pool |-> TakeRun(p, s, n), ret |-> BaseFrame + s]
    BY <1>5 DEF r, AllocateContiguousAligned
  <2>. HIDE DEF s
  <2>3. /\ (BaseFrame + s) % a = 0
        /\ \A j \in 0 .. n - 1 : s + j \notin p.bits
    BY <2>1 DEF FirstFit, Fits
  <2>4. s \in Nat /\ n > 0 /\ s + n <= Capacity BY <1>1, <1>5, <2>1
  <2>5. Run(s, n) \cap p.bits = {}
    <3>1. SUFFICES ASSUME NEW k \in Run(s, n), k \in p.bits PROVE FALSE OBVIOUS
    <3>2. k \in s .. s + n - 1 BY <3>1 DEF Run
    <3>3. k - s \in 0 .. n - 1 /\ s + (k - s) = k BY <2>4, <3>2
    <3>. QED BY <2>3, <3>1, <3>3
  <2>6. Run(s, n) \subseteq Index BY <1>1, <2>4 DEF Run, Index
  <2>7. GoodPool(TakeRun(p, s, n)) BY <2>4, <2>5, TakeRunGood
  <2>8. s \in Index BY <1>1, <2>4 DEF Index
  <2>9. /\ r.ret = BaseFrame + s
        /\ r.pool = TakeRun(p, s, n)
        /\ r.pool.bits = p.bits \cup Run(s, n)
    BY <2>2 DEF TakeRun
  <2>10. BaseFrame + s \in Int BY <1>1, <2>4
  <2>. QED BY <2>3, <2>5, <2>6, <2>7, <2>8, <2>9, <2>10
<1>. QED BY <1>2, <1>3, <1>4, <1>5

\* What free_frame returns, and that the hint of a successful free is the
\* freed index.
LEMMA FreeFrameGood ==
    ASSUME NEW p, GoodPool(p), NEW f \in Int
    PROVE  LET r == FreeFrame(p, f)
           IN  /\ GoodPool(r.pool)
               /\ r.ret \in {"Ok", "DoubleFree", "InvalidFrame"}
               /\ IF r.ret = "Ok"
                  THEN IndexOf(f) \in p.bits /\ r.pool = ClearIndex(p, IndexOf(f))
                  ELSE ~ IsAllocated(p, f) /\ r.pool = p
<1>1. CASE ~ Contains(f)
  BY <1>1 DEF FreeFrame, IsAllocated
<1>2. CASE Contains(f) /\ IndexOf(f) \notin p.bits
  BY <1>2 DEF FreeFrame, IsAllocated
<1>3. CASE Contains(f) /\ IndexOf(f) \in p.bits
  <2>1. GoodPool(ClearIndex(p, IndexOf(f))) BY <1>3, ClearIndexGood
  <2>2. FreeFrame(p, f) = [pool |-> ClearIndex(p, IndexOf(f)), ret |-> "Ok"]
    BY <1>3 DEF FreeFrame
  <2>. QED BY <1>3, <2>1, <2>2
<1>. QED BY <1>1, <1>2, <1>3

\* Whatever the self-test finds, the pool it leaves is consistent.
LEMMA SelftestGood ==
    ASSUME NEW p, GoodPool(p)
    PROVE  /\ GoodPool(SelftestResult(p).pool)
           /\ SelftestResult(p).ret \in {"Ok", "Oom", "Bootstrap", "DoubleFree", "InvalidFrame"}
<1>. DEFINE r1 == AllocateFrame(p)
            r2 == AllocateFrame(r1.pool)
            r3 == FreeFrame(r2.pool, r1.ret)
            r4 == FreeFrame(r3.pool, r1.ret)
            r5 == AllocateFrame(r4.pool)
            r6 == FreeFrame(r5.pool, r2.ret)
            r7 == FreeFrame(r6.pool, r5.ret)
            Err == {"Ok", "DoubleFree", "InvalidFrame"}
<1>1. GoodPool(r1.pool) /\ r1.ret \in Int BY AllocateFrameGood
<1>2. GoodPool(r2.pool) /\ r2.ret \in Int BY <1>1, AllocateFrameGood
<1>3. GoodPool(r3.pool) /\ r3.ret \in Err BY <1>1, <1>2, FreeFrameGood
<1>4. GoodPool(r4.pool) /\ r4.ret \in Err BY <1>1, <1>3, FreeFrameGood
<1>5. GoodPool(r5.pool) /\ r5.ret \in Int
  <2>. HIDE DEF r4
  <2>. QED BY <1>4, AllocateFrameGood
<1>6. GoodPool(r6.pool) /\ r6.ret \in Err
  <2>. HIDE DEF r2, r5
  <2>. QED BY <1>2, <1>5, FreeFrameGood
<1>7. GoodPool(r7.pool) /\ r7.ret \in Err
  <2>. HIDE DEF r5, r6
  <2>. QED BY <1>5, <1>6, FreeFrameGood
<1>. DEFINE Results == {"Ok", "Oom", "Bootstrap", "DoubleFree", "InvalidFrame"}
            v == SelftestResult(p)
<1>8. \/ v = [pool |-> p, ret |-> "Oom"]
      \/ v = [pool |-> r1.pool, ret |-> "Oom"]
      \/ v = [pool |-> r2.pool, ret |-> "Bootstrap"]
      \/ v = [pool |-> r3.pool, ret |-> r3.ret]
      \/ v = [pool |-> r4.pool, ret |-> "DoubleFree"]
      \/ v = [pool |-> r4.pool, ret |-> r4.ret]
      \/ v = [pool |-> r5.pool, ret |-> "Oom"]
      \/ v = [pool |-> r5.pool, ret |-> "Bootstrap"]
      \/ v = [pool |-> r6.pool, ret |-> r6.ret]
      \/ v = [pool |-> r7.pool, ret |-> r7.ret]
      \/ v = [pool |-> r7.pool, ret |-> "Bootstrap"]
      \/ v = [pool |-> r7.pool, ret |-> "Ok"]
  BY DEF SelftestResult
<1>. HIDE DEF v, r1, r2, r3, r4, r5, r6, r7
<1>9. GoodPool(v.pool) /\ v.ret \in Results
  BY <1>1, <1>2, <1>3, <1>4, <1>5, <1>6, <1>7, <1>8
<1>. QED BY <1>9 DEF v

-----------------------------------------------------------------------------
(* The inductive invariant. *)

\* After a successful free the hint points at the freed, clear index.
HintAtFreedFrame ==
    call.op = "free" /\ call.ret = "Ok" =>
        /\ Contains(call.frame)
        /\ pool.hint = IndexOf(call.frame)
        /\ pool.hint \notin pool.bits

PoolIInv == PoolTypeOK /\ CountIsCardinality /\ HintAtFreedFrame

\* Bootstrap leaves a sound pool.
LEMMA PoolIInvInit == PoolInit => PoolIInv
<1>1. Capacity \in Nat \ {0} BY PoolAssumption
<1>2. Cardinality({}) = 0 BY FS_EmptySet
<1>. SUFFICES ASSUME PoolInit PROVE PoolIInv OBVIOUS
<1>3. pool \in Pools /\ CountIsCardinality
  BY <1>1, <1>2 DEF PoolInit, NewPool, Pools, Index, CountIsCardinality
<1>4. PoolTypeOK
  <2>1. selftestOk \in BOOLEAN BY DEF PoolInit
  <2>2. call = [op |-> "new", n |-> 0, align |-> 0, frame |-> -1, ret |-> "Ok"]
    BY DEF PoolInit, NoCall, NoFrame
  <2>. QED BY <1>3, <2>1, <2>2 DEF PoolTypeOK
<1>5. HintAtFreedFrame BY DEF PoolInit, NoCall, HintAtFreedFrame
<1>. QED BY <1>3, <1>4, <1>5 DEF PoolIInv

\* Every call keeps the pool sound.
LEMMA PoolIInvStep == PoolIInv /\ [PoolNext]_poolVars => PoolIInv'
<1>. SUFFICES ASSUME PoolIInv, [PoolNext]_poolVars PROVE PoolIInv' OBVIOUS
<1>. USE DEF PoolTypeOK, CountIsCardinality
<1>1. GoodPool(pool) /\ BaseFrame \in Nat /\ Capacity \in Nat
  BY PoolAssumption DEF PoolIInv, GoodPool
<1>2. CASE Selftest
  <2>1. pool' = SelftestResult(pool).pool /\ call' = [NoCall EXCEPT !.op = "selftest", !.ret = SelftestResult(pool).ret]
        /\ selftestOk' = (SelftestResult(pool).ret = "Ok")
    BY <1>2 DEF Selftest
  <2>2. GoodPool(pool') BY <1>1, <2>1, SelftestGood
  <2>3. call'.op = "selftest" BY <2>1 DEF NoCall
  <2>4. PoolTypeOK'
    <3>. DEFINE e == SelftestResult(pool).ret
    <3>1. e \in {"Ok", "Oom", "Bootstrap", "DoubleFree", "InvalidFrame"}
      BY <1>1, SelftestGood
    <3>2. call' = [op |-> "selftest", n |-> 0, align |-> 0, frame |-> -1, ret |-> e]
      BY <2>1 DEF NoCall, NoFrame
    <3>3. selftestOk' \in BOOLEAN BY <2>1
    <3>. QED BY <2>2, <3>1, <3>2, <3>3 DEF GoodPool
  <2>. QED BY <2>2, <2>3, <2>4 DEF PoolIInv, HintAtFreedFrame, GoodPool
<1>3. CASE Allocate
  <2>1. GoodPool(pool') /\ AllocateFrame(pool).ret \in Int
    BY <1>1, <1>3, AllocateFrameGood DEF Allocate
  <2>2. call'.op = "allocate" BY <1>3 DEF Allocate
  <2>3. PoolTypeOK' BY <1>3, <2>1 DEF Allocate, PoolIInv, GoodPool
  <2>. QED BY <2>1, <2>2, <2>3 DEF PoolIInv, HintAtFreedFrame, GoodPool
<1>4. ASSUME NEW n \in RunLengths, NEW a \in Alignments, AllocateRun(n, a)
      PROVE  PoolIInv'
  <2>1. n \in Nat /\ a \in Nat BY PoolAssumption
  <2>2. GoodPool(pool') /\ AllocateContiguousAligned(pool, n, a).ret \in Int
    BY <1>1, <1>4, <2>1, AllocateRunGood DEF AllocateRun
  <2>3. call'.op = "allocate" BY <1>4 DEF AllocateRun
  <2>4. PoolTypeOK' BY <1>4, <2>1, <2>2 DEF AllocateRun, PoolIInv, GoodPool
  <2>. QED BY <2>2, <2>3, <2>4 DEF PoolIInv, HintAtFreedFrame, GoodPool
<1>5. ASSUME NEW f \in BaseFrame - 1 .. BaseFrame + Capacity, Free(f)
      PROVE  PoolIInv'
  <2>1. f \in Int BY <1>1
  <2>. DEFINE r == FreeFrame(pool, f)
  <2>2. /\ pool' = r.pool
        /\ call' = [op |-> "free", n |-> 1, align |-> 1, frame |-> f, ret |-> r.ret]
        /\ selftestOk' = selftestOk
    BY <1>5 DEF Free
  <2>3. /\ GoodPool(r.pool)
        /\ r.ret \in {"Ok", "DoubleFree", "InvalidFrame"}
        /\ r.ret = "Ok" => IndexOf(f) \in pool.bits /\ r.pool = ClearIndex(pool, IndexOf(f))
    BY <1>1, <2>1, FreeFrameGood
  <2>. HIDE DEF r
  <2>4. PoolTypeOK' BY <2>1, <2>2, <2>3 DEF PoolIInv, GoodPool
  <2>5. HintAtFreedFrame'
    <3>1. SUFFICES ASSUME r.ret = "Ok"
                   PROVE  /\ Contains(f)
                          /\ pool'.hint = IndexOf(f)
                          /\ pool'.hint \notin pool'.bits
      BY <2>2 DEF HintAtFreedFrame
    <3>2. IndexOf(f) \in Index BY <1>1, <2>3, <3>1 DEF GoodPool, Pools
    <3>3. Contains(f) BY <1>1, <2>1, <3>2 DEF IndexOf, Index, Contains
    <3>. QED BY <2>2, <2>3, <3>1, <3>3 DEF ClearIndex
  <2>. QED BY <2>2, <2>3, <2>4, <2>5 DEF PoolIInv, GoodPool
<1>6. CASE UNCHANGED poolVars
  BY <1>6 DEF poolVars, PoolIInv, HintAtFreedFrame
<1>. QED BY <1>2, <1>3, <1>4, <1>5, <1>6 DEF PoolNext

\* The bitmap, the hint and the last call always have their types
\* (FrameAllocator's fields after any sequence of calls).
THEOREM PoolTypeCorrect == PoolSpec => []PoolTypeOK
BY PoolIInvInit, PoolIInvStep, PTL DEF PoolSpec, PoolIInv

\* allocated_count equals the number of set bits after any sequence of calls,
\* for every pool: the invariant |Allocated| == allocated_count that
\* frame_allocator_spec.rs states.
THEOREM CountCorrect == PoolSpec => []CountIsCardinality
BY PoolIInvInit, PoolIInvStep, PTL DEF PoolSpec, PoolIInv

-----------------------------------------------------------------------------
(* What the calls return, as action properties. *)

\* No double allocation, for every pool and every request: whatever
\* allocate_frame or allocate_contiguous_aligned returns was free, and lies on
\* the requested alignment of the absolute frame number.
THEOREM NoDoubleAllocation == PoolSpec => ReturnedRunIsFresh
<1>. DEFINE got == Run(call'.frame - BaseFrame, call'.n)
            Fresh == call'.op = "allocate" /\ call'.ret = "Some" =>
                        /\ got \subseteq Index
                        /\ got \cap pool.bits = {}
                        /\ pool'.bits = pool.bits \cup got
                        /\ call'.frame % call'.align = 0
<1>1. PoolIInv /\ [PoolNext]_poolVars => [Fresh]_poolVars
  <2>. SUFFICES ASSUME PoolIInv, PoolNext, call'.op = "allocate", call'.ret = "Some"
                PROVE  Fresh
    OBVIOUS
  <2>1. GoodPool(pool) /\ BaseFrame \in Nat /\ Capacity \in Nat \ {0}
    BY PoolAssumption DEF PoolIInv, GoodPool, PoolTypeOK, CountIsCardinality
  <2>2. CASE Allocate
    <3>1. /\ pool' = AllocateFrame(pool).pool
          /\ call'.frame = AllocateFrame(pool).ret /\ call'.n = 1 /\ call'.align = 1
          /\ AllocateFrame(pool).ret # NoFrame
      BY <2>2 DEF Allocate
    <3>2. PICK i \in Index : /\ i \notin pool.bits
                             /\ call'.frame = BaseFrame + i
                             /\ pool' = TakeIndex(pool, i)
      BY <2>1, <3>1, AllocateFrameGood
    <3>3. got = {i} BY <2>1, <3>1, <3>2 DEF Run, Index
    <3>4. call'.frame % call'.align = 0 BY <2>1, <3>1, <3>2 DEF Index
    <3>5. pool'.bits = pool.bits \cup {i} BY <3>2 DEF TakeIndex
    <3>. QED BY <3>2, <3>3, <3>4, <3>5
  <2>3. ASSUME NEW n \in RunLengths, NEW a \in Alignments, AllocateRun(n, a)
        PROVE  Fresh
    <3>0. n \in Nat /\ a \in Nat BY PoolAssumption
    <3>. DEFINE r == AllocateContiguousAligned(pool, n, a)
    <3>1. /\ pool' = r.pool
          /\ call'.frame = r.ret /\ call'.n = n /\ call'.align = a
          /\ r.ret # NoFrame
      BY <2>3 DEF AllocateRun
    <3>a. Granted(pool, n, a, r) BY <2>1, <3>0, AllocateRunGood
    <3>. HIDE DEF r
    <3>2. PICK s \in Index : /\ r.ret = BaseFrame + s
                             /\ (BaseFrame + s) % a = 0
                             /\ Run(s, n) \subseteq Index
                             /\ Run(s, n) \cap pool.bits = {}
                             /\ r.pool.bits = pool.bits \cup Run(s, n)
      BY <3>1, <3>a DEF Granted
    <3>3. call'.frame - BaseFrame = s BY <2>1, <3>1, <3>2 DEF Index
    <3>. QED BY <3>1, <3>2, <3>3
  <2>4. ASSUME NEW f \in BaseFrame - 1 .. BaseFrame + Capacity, Free(f)
        PROVE  Fresh
    BY <2>4 DEF Free
  <2>5. CASE Selftest
    BY <2>5 DEF Selftest, NoCall
  <2>. QED BY <2>2, <2>3, <2>4, <2>5 DEF PoolNext
<1>. QED BY <1>1, PoolIInvInit, PoolIInvStep, PTL DEF PoolSpec, ReturnedRunIsFresh

\* The frame a successful free_frame released is the one the next
\* allocate_frame returns: the scan starts at the hint the free left.
THEOREM FreedFrameReused == PoolSpec => FreedFrameIsReused
<1>. DEFINE Reused == /\ call.op = "free" /\ call.ret = "Ok"
                      /\ call'.op = "allocate" /\ call'.n = 1 /\ call'.align = 1
                      => call'.frame = call.frame
<1>1. PoolIInv /\ [PoolNext]_poolVars => [Reused]_poolVars
  <2>. SUFFICES ASSUME PoolIInv, PoolNext, call.op = "free", call.ret = "Ok",
                       call'.op = "allocate", call'.n = 1, call'.align = 1
                PROVE  call'.frame = call.frame
    OBVIOUS
  <2>1. /\ GoodPool(pool) /\ BaseFrame \in Nat /\ Capacity \in Nat \ {0}
        /\ call.frame \in Int
    BY PoolAssumption DEF PoolIInv, GoodPool, PoolTypeOK, CountIsCardinality
  <2>2. /\ pool.hint = call.frame - BaseFrame /\ pool.hint \notin pool.bits
        /\ pool.hint \in Index
    BY <2>1 DEF PoolIInv, HintAtFreedFrame, IndexOf, GoodPool, Pools
  <2>3. pool.count < Capacity
    <3>1. IsFiniteSet(Index) /\ Cardinality(Index) = Capacity
      BY <2>1, FS_Interval DEF Index
    <3>2. pool.bits \subseteq Index /\ pool.bits # Index BY <2>1, <2>2 DEF GoodPool, Pools
    <3>a. Cardinality(pool.bits) <= Cardinality(Index) /\ Cardinality(pool.bits) # Cardinality(Index)
      BY <3>1, <3>2, FS_Subset
    <3>3. Cardinality(pool.bits) < Cardinality(Index)
      BY <2>1, <3>1, <3>a, BitsFinite DEF GoodPool
    <3>. QED BY <3>1, <3>3, <2>1 DEF GoodPool
  <2>4. FirstClear(pool, 0) /\ 0 \in Index
    <3>1. Probe(pool, 0) = pool.hint BY <2>1, <2>2 DEF Probe, Index
    <3>. QED BY <2>1, <2>2, <3>1 DEF FirstClear, Index
  <2>5. \A off \in Index : FirstClear(pool, off) => off = 0
    <3>1. SUFFICES ASSUME NEW off \in Index, FirstClear(pool, off), off # 0 PROVE FALSE
      OBVIOUS
    <3>2. 0 < off BY <3>1 DEF Index
    <3>. QED BY <2>4, <3>1, <3>2 DEF FirstClear
  <2>6. (CHOOSE off \in Index : FirstClear(pool, off)) = 0
    <3>. DEFINE o == CHOOSE off \in Index : FirstClear(pool, off)
    <3>1. o \in Index /\ FirstClear(pool, o) BY <2>4
    <3>. QED BY <2>5, <3>1
  <2>7. Probe(pool, 0) = pool.hint BY <2>1, <2>2 DEF Probe, Index
  <2>8. AllocateFrame(pool).ret = BaseFrame + pool.hint
    <3>1. ~ (pool.count >= Capacity) BY <2>1, <2>3 DEF GoodPool, Pools
    <3>2. \E off \in Index : FirstClear(pool, off) BY <2>4
    <3>3. AllocateFrame(pool).ret = BaseFrame + Probe(pool, CHOOSE off \in Index : FirstClear(pool, off))
      BY <3>1, <3>2 DEF AllocateFrame
    <3>. QED BY <2>6, <2>7, <3>3
  <2>9. AllocateFrame(pool).ret = call.frame BY <2>1, <2>2, <2>8
  <2>10. CASE Allocate BY <2>9, <2>10 DEF Allocate
  <2>11. ASSUME NEW n \in RunLengths, NEW a \in Alignments, AllocateRun(n, a)
         PROVE  call'.frame = call.frame
    <3>1. n = 1 /\ a = 1 /\ call'.frame = AllocateContiguousAligned(pool, n, a).ret
      BY <2>11 DEF AllocateRun
    <3>2. IsPowerOfTwo(1)
      <4>1. 1 = 2 ^ 0 OBVIOUS
      <4>. QED BY <4>1 DEF IsPowerOfTwo
    <3>3. AllocateContiguousAligned(pool, n, a) = AllocateFrame(pool)
      BY <3>1, <3>2 DEF AllocateContiguousAligned
    <3>. QED BY <2>9, <3>1, <3>3
  <2>12. ASSUME NEW f \in BaseFrame - 1 .. BaseFrame + Capacity, Free(f)
         PROVE  FALSE
    BY <2>12 DEF Free
  <2>13. CASE Selftest BY <2>13 DEF Selftest, NoCall
  <2>. QED BY <2>10, <2>11, <2>12, <2>13 DEF PoolNext
<1>. QED BY <1>1, PoolIInvInit, PoolIInvStep, PTL DEF PoolSpec, FreedFrameIsReused

-----------------------------------------------------------------------------
(* No false exhaustion. *)

\* A consistent pool never counts more frames than it has, and counts them all
\* only when every bit is set.
LEMMA CountBounded ==
    ASSUME NEW p, GoodPool(p)
    PROVE  p.count <= Capacity /\ (p.count = Capacity => p.bits = Index)
<1>1. Capacity \in Nat \ {0} BY PoolAssumption
<1>2. IsFiniteSet(Index) /\ Cardinality(Index) = Capacity BY <1>1, FS_Interval DEF Index
<1>3. p.bits \in SUBSET Index BY DEF GoodPool, Pools
<1>4. Cardinality(p.bits) <= Cardinality(Index) /\ (Cardinality(p.bits) = Cardinality(Index) => p.bits = Index)
  BY <1>2, <1>3, FS_Subset
<1>. QED BY <1>2, <1>4 DEF GoodPool

\* allocate_frame finds a clear bit whenever there is one: the scan wraps and
\* visits every index.
LEMMA FrameNone ==
    ASSUME NEW p, GoodPool(p), AllocateFrame(p).ret = NoFrame
    PROVE  p.bits = Index
<1>1. Capacity \in Nat \ {0} /\ BaseFrame \in Nat BY PoolAssumption
<1>2. p.bits \in SUBSET Index /\ p.hint \in Index /\ p.count \in Nat BY DEF GoodPool, Pools
<1>3. p.count >= Capacity \/ ~ \E off \in Index : FirstClear(p, off)
  <2>. SUFFICES ASSUME ~ (p.count >= Capacity), \E off \in Index : FirstClear(p, off) PROVE FALSE
    OBVIOUS
  <2>. DEFINE off == CHOOSE o \in Index : FirstClear(p, o)
  <2>1. off \in Index OBVIOUS
  <2>2. AllocateFrame(p).ret = BaseFrame + Probe(p, off) BY DEF AllocateFrame
  <2>. HIDE DEF off
  <2>3. Probe(p, off) \in Nat BY <1>1, <1>2, <2>1 DEF Probe, Index
  <2>. QED BY <1>1, <2>2, <2>3 DEF NoFrame
<1>4. CASE p.count >= Capacity BY <1>1, <1>2, <1>4, CountBounded
<1>5. CASE ~ \E off \in Index : FirstClear(p, off)
  <2>. SUFFICES ASSUME NEW i \in Index, i \notin p.bits PROVE FALSE BY <1>2
  <2>. DEFINE S == {o \in Index : Probe(p, o) \notin p.bits}
              o == IF i >= p.hint THEN i - p.hint ELSE i - p.hint + Capacity
  <2>1. o \in Index BY <1>1, <1>2 DEF Index
  <2>2. Probe(p, o) = i
    <3>1. \A x \in Index : x % Capacity = x /\ (x + Capacity) % Capacity = x BY <1>1 DEF Index
    <3>2. CASE i >= p.hint
      <4>1. p.hint + o = i BY <1>1, <1>2, <3>2 DEF Index
      <4>. QED BY <3>1, <4>1 DEF Probe
    <3>3. CASE ~ (i >= p.hint)
      <4>1. p.hint + o = i + Capacity BY <1>1, <1>2, <3>3 DEF Index
      <4>. QED BY <3>1, <4>1 DEF Probe
    <3>. QED BY <3>2, <3>3
  <2>3. o \in S BY <2>1, <2>2
  <2>4. S \in SUBSET Nat BY <1>1 DEF Index
  <2>5. PICK x \in S : \A y \in S : x <= y BY <2>3, <2>4, LeastNatural
  <2>6. FirstClear(p, x)
    <3>. SUFFICES ASSUME NEW y \in Index, y < x PROVE Probe(p, y) \in p.bits
      BY <2>5 DEF FirstClear
    <3>1. x \in Nat /\ y \in Nat BY <1>1, <2>5 DEF Index
    <3>2. y \notin S BY <2>5, <3>1
    <3>. QED BY <3>2
  <2>. QED BY <1>5, <2>5, <2>6
<1>. QED BY <1>3, <1>4, <1>5

\* allocate_contiguous_aligned finds an aligned free run whenever there is one:
\* the count never hides one, and first fit tries every start.
LEMMA RunNone ==
    ASSUME NEW p, GoodPool(p), NEW n \in Nat \ {0}, NEW a \in Nat, IsPowerOfTwo(a),
           AllocateContiguousAligned(p, n, a).ret = NoFrame,
           NEW s \in Index, s + n <= Capacity, (BaseFrame + s) % a = 0
    PROVE  Run(s, n) \cap p.bits # {}
<1>1. Capacity \in Nat \ {0} /\ BaseFrame \in Nat BY PoolAssumption
<1>2. CASE n = 1 /\ a = 1
  <2>1. AllocateContiguousAligned(p, n, a) = AllocateFrame(p) BY <1>2 DEF AllocateContiguousAligned
  <2>2. p.bits = Index BY <2>1, FrameNone
  <2>3. s \in Run(s, n) BY <1>1, <1>2 DEF Run, Index
  <2>. QED BY <2>2, <2>3
<1>3. CASE ~ (n = 1 /\ a = 1)
  <2>1. s \in Nat /\ s \in 0 .. Capacity - n BY <1>1 DEF Index
  <2>2. SUFFICES ASSUME Run(s, n) \cap p.bits = {} PROVE FALSE OBVIOUS
  <2>3. n <= Capacity BY <1>1, <2>1
  <2>4. p.count + n <= Capacity
    <3>1. GoodPool(TakeRun(p, s, n)) BY <2>1, <2>2, TakeRunGood
    <3>2. TakeRun(p, s, n).count = p.count + n BY DEF TakeRun
    <3>. QED BY <3>1, <3>2, CountBounded
  <2>5. PICK x \in 0 .. Capacity - n : FirstFit(p, x, n, a)
    <3>. DEFINE S == {t \in 0 .. Capacity - n : Fits(p, t, n, a)}
    <3>1. Fits(p, s, n, a)
      <4>. SUFFICES ASSUME NEW j \in 0 .. n - 1 PROVE s + j \notin p.bits BY DEF Fits
      <4>1. s + j \in Run(s, n) BY <2>1 DEF Run
      <4>. QED BY <2>2, <4>1
    <3>2. s \in S /\ S \in SUBSET Nat BY <2>1, <3>1
    <3>3. PICK x \in S : \A y \in S : x <= y BY <3>2, LeastNatural
    <3>4. \A t \in 0 .. x - 1 : ~ Fits(p, t, n, a)
      <4>. SUFFICES ASSUME NEW t \in 0 .. x - 1 PROVE t \notin S BY <1>1, <3>3
      <4>. QED BY <3>2, <3>3
    <3>. QED BY <3>3, <3>4 DEF FirstFit
  <2>6. AllocateContiguousAligned(p, n, a).ret = BaseFrame + CHOOSE t \in 0 .. Capacity - n : FirstFit(p, t, n, a)
    <3>1. p.count \in Nat BY DEF GoodPool, Pools
    <3>2. ~ (n > Capacity) /\ ~ (p.count + n > Capacity) BY <1>1, <2>3, <2>4, <3>1
    <3>. QED BY <1>3, <2>5, <3>2 DEF AllocateContiguousAligned
  <2>7. (CHOOSE t \in 0 .. Capacity - n : FirstFit(p, t, n, a)) \in 0 .. Capacity - n BY <2>5
  <2>. QED BY <1>1, <2>6, <2>7 DEF NoFrame
<1>. QED BY <1>2, <1>3

\* No false exhaustion, for every pool and every request: when an allocation
\* returns None, no free run of that length and alignment exists.
THEOREM NoFalseExhaustion == PoolSpec => NoneMeansNoRun
<1>. DEFINE Exhausted == call'.op = "allocate" /\ call'.ret = "None"
                           /\ call'.n > 0 /\ IsPowerOfTwo(call'.align) =>
                /\ pool' = pool
                /\ \A s \in Index : s + call'.n <= Capacity /\ (BaseFrame + s) % call'.align = 0
                                     => Run(s, call'.n) \cap pool.bits # {}
<1>1. PoolIInv /\ [PoolNext]_poolVars => [Exhausted]_poolVars
  <2>. SUFFICES ASSUME PoolIInv, PoolNext, call'.op = "allocate", call'.ret = "None",
                       call'.n > 0, IsPowerOfTwo(call'.align)
                PROVE  /\ pool' = pool
                       /\ \A s \in Index : s + call'.n <= Capacity /\ (BaseFrame + s) % call'.align = 0
                                            => Run(s, call'.n) \cap pool.bits # {}
    OBVIOUS
  <2>1. GoodPool(pool) /\ BaseFrame \in Nat /\ Capacity \in Nat \ {0}
    BY PoolAssumption DEF PoolIInv, GoodPool, PoolTypeOK, CountIsCardinality
  <2>2. CASE Allocate
    <3>1. /\ pool' = AllocateFrame(pool).pool /\ call'.n = 1
          /\ AllocateFrame(pool).ret = NoFrame
      BY <2>2 DEF Allocate
    <3>2. pool' = pool
      <4>1. ASSUME NEW i \in Index PROVE BaseFrame + i # NoFrame BY <2>1 DEF NoFrame, Index
      <4>. QED BY <2>1, <3>1, <4>1, AllocateFrameGood
    <3>3. pool.bits = Index BY <2>1, <3>1, FrameNone
    <3>4. \A s \in Index : s \in Run(s, 1) BY <2>1 DEF Run, Index
    <3>. QED BY <3>1, <3>2, <3>3, <3>4
  <2>3. ASSUME NEW n \in RunLengths, NEW a \in Alignments, AllocateRun(n, a)
        PROVE  /\ pool' = pool
               /\ \A s \in Index : s + call'.n <= Capacity /\ (BaseFrame + s) % call'.align = 0
                                    => Run(s, call'.n) \cap pool.bits # {}
    <3>0. n \in Nat /\ a \in Nat BY PoolAssumption
    <3>. DEFINE r == AllocateContiguousAligned(pool, n, a)
    <3>1. pool' = r.pool /\ call'.n = n /\ call'.align = a /\ r.ret = NoFrame
      BY <2>3 DEF AllocateRun
    <3>2. Granted(pool, n, a, r) BY <2>1, <3>0, AllocateRunGood
    <3>3. n \in Nat \ {0} BY <3>0, <3>1
    <3>4. \A s \in Index : s + n <= Capacity /\ (BaseFrame + s) % a = 0 => Run(s, n) \cap pool.bits # {}
      BY <2>1, <3>0, <3>1, <3>3, RunNone
    <3>. HIDE DEF r
    <3>5. pool' = pool
      <4>1. ASSUME NEW s \in Index PROVE BaseFrame + s # NoFrame BY <2>1 DEF NoFrame, Index
      <4>. QED BY <3>1, <3>2, <4>1 DEF Granted
    <3>. QED BY <3>1, <3>4, <3>5
  <2>4. ASSUME NEW f \in BaseFrame - 1 .. BaseFrame + Capacity, Free(f) PROVE FALSE
    BY <2>4 DEF Free
  <2>5. CASE Selftest BY <2>5 DEF Selftest, NoCall
  <2>. QED BY <2>2, <2>3, <2>4, <2>5 DEF PoolNext
<1>. QED BY <1>1, PoolIInvInit, PoolIInvStep, PTL DEF PoolSpec, NoneMeansNoRun
-----------------------------------------------------------------------------
(* The registry *)

Good(r) ==
    /\ r \in Registry
    /\ ExclusiveFrames(r)
    /\ ExclusivePages(r)
    /\ LenMatches(r)

Pages == {PageOf(a) : a \in Gpas}

\* Rounding an address down to its page stays among the naturals.
LEMMA PageOfNat == ASSUME NEW a \in Nat PROVE PageOf(a) \in Nat
BY RegistryAssumption DEF PageOf

\* Installing a mapping that conflicts with none, in an empty slot.
LEMMA InstallGood ==
    ASSUME NEW r, Good(r), NEW i \in Slot, r.slots[i] = Empty, NEW m \in Mapping,
           ~ Conflict(r, m.guest, m.gpa, m.frame)
    PROVE  Good(Install(r, i, m)) /\ Used(Install(r, i, m)) = Used(r) \cup {i}
<1>. DEFINE q == Install(r, i, m)
<1>1. m # Empty BY DEF Mapping, Empty
<1>2. /\ q.slots = [r.slots EXCEPT ![i] = m]
      /\ q.len = r.len + 1
  BY DEF Install
<1>3. r.slots \in [Slot -> Mapping \cup {Empty}] /\ r.len \in Nat BY DEF Good, Registry
<1>4. q \in Registry BY <1>3 DEF Install, Registry
<1>. HIDE DEF q
<1>5. Used(q) = Used(r) \cup {i} BY <1>1, <1>2, <1>3 DEF Used
<1>6. i \notin Used(r) BY DEF Used
<1>7. Used(r) \subseteq Slot BY DEF Used
<1>8. \A j \in Used(r) : q.slots[j] = r.slots[j] BY <1>2, <1>3, <1>6, <1>7
<1>9. q.slots[i] = m BY <1>2, <1>3
<1>10. ExclusiveFrames(q)
  BY <1>5, <1>6, <1>8, <1>9 DEF Good, ExclusiveFrames, Conflict
<1>11. ExclusivePages(q)
  BY <1>5, <1>6, <1>8, <1>9 DEF Good, ExclusivePages, Conflict
<1>12. IsFiniteSet(Used(r))
  <2>1. IsFiniteSet(Slot) BY RegistryAssumption, FS_Interval DEF Slot
  <2>. QED BY <1>7, <2>1, FS_Subset
<1>13. LenMatches(q)
  <2>1. Cardinality(Used(q)) = Cardinality(Used(r)) + 1 BY <1>5, <1>6, <1>12, FS_AddElement
  <2>. QED BY <1>2, <2>1 DEF Good, LenMatches
<1>. QED BY <1>4, <1>5, <1>10, <1>11, <1>13 DEF Good, q

\* Removing an occupied slot.
LEMMA RemoveGood ==
    ASSUME NEW r, Good(r), NEW i \in Used(r)
    PROVE  Good(Remove(r, i)) /\ Used(Remove(r, i)) = Used(r) \ {i}
<1>. DEFINE q == Remove(r, i)
<1>2. /\ q.slots = [r.slots EXCEPT ![i] = Empty]
      /\ q.len = r.len - 1
  BY DEF Remove
<1>3. r.slots \in [Slot -> Mapping \cup {Empty}] /\ r.len \in Nat BY DEF Good, Registry
<1>7. Used(r) \subseteq Slot BY DEF Used
<1>5. Used(q) = Used(r) \ {i}
  <2>. HIDE DEF q
  <2>. QED BY <1>2, <1>3, <1>7 DEF Used
<1>12. IsFiniteSet(Used(r))
  <2>1. IsFiniteSet(Slot) BY RegistryAssumption, FS_Interval DEF Slot
  <2>. QED BY <1>7, <2>1, FS_Subset
<1>13. /\ Cardinality(Used(r) \ {i}) = Cardinality(Used(r)) - 1
       /\ Cardinality(Used(r) \ {i}) \in Nat
  BY <1>12, FS_RemoveElement, FS_CardinalityType
<1>14. q.len = Cardinality(Used(r) \ {i}) /\ q.len \in Nat
  <2>1. q.len = Cardinality(Used(r)) - 1 BY <1>2 DEF Good, LenMatches
  <2>. QED BY <1>13, <2>1
<1>4. q \in Registry
  <2>1. q.slots \in [Slot -> Mapping \cup {Empty}] BY <1>2, <1>3
  <2>2. q = [slots |-> q.slots, len |-> q.len] BY DEF Remove
  <2>. HIDE DEF q
  <2>. QED BY <1>14, <2>1, <2>2 DEF Registry
<1>. HIDE DEF q
<1>8. \A j \in Used(q) : q.slots[j] = r.slots[j] /\ j \in Used(r) BY <1>2, <1>3, <1>5, <1>7
<1>10. ExclusiveFrames(q) BY <1>8 DEF Good, ExclusiveFrames
<1>11. ExclusivePages(q) BY <1>8 DEF Good, ExclusivePages
<1>. QED BY <1>4, <1>5, <1>10, <1>11, <1>14 DEF Good, LenMatches, q

\* The search for the first empty slot succeeds when a slot is empty.
LEMMA FirstEmptyExists ==
    ASSUME NEW r, NEW k \in Slot, r.slots[k] = Empty
    PROVE  \E i \in Slot : FirstEmpty(r, i)
<1>. DEFINE S == {i \in Slot : r.slots[i] = Empty}
<1>1. S \in SUBSET Nat BY RegistryAssumption DEF Slot
<1>2. S # {} OBVIOUS
<1>3. \E x \in S : \A y \in S : x <= y BY <1>1, <1>2, LeastNatural
<1>4. PICK x \in S : \A y \in S : x <= y BY <1>3
<1>5. \A j \in Slot : j < x => r.slots[j] # Empty
  <2>1. SUFFICES ASSUME NEW j \in Slot, j < x, r.slots[j] = Empty PROVE FALSE OBVIOUS
  <2>2. x <= j BY <1>4, <2>1
  <2>. QED BY <1>1, <2>1, <2>2 DEF Slot
<1>. QED BY <1>4, <1>5 DEF FirstEmpty

-----------------------------------------------------------------------------
(* What each call does: it fails and leaves the registry alone, or it      *)
(* installs or removes one slot, or both.                                  *)

NewMapping(g, a, f, p) == [guest |-> g, gpa |-> PageOf(a), frame |-> f, perm |-> p]

MapOutcome(r, v, g, a, f, p) ==
    \/ v.reg = r /\ v.ret \in Errors
    \/ /\ v.ret = "Ok" /\ g # 0 /\ ~ Conflict(r, g, PageOf(a), f)
       /\ \E i \in Slot : /\ r.slots[i] = Empty
                          /\ v.reg = Install(r, i, NewMapping(g, a, f, p))

UnmapOutcome(r, v, g, a) ==
    \/ v.reg = r /\ v.ret = "NotMapped"
    \/ /\ v.ret = "Ok"
       /\ \E i \in Used(r) : /\ Maps(r, i, g, a)
                             /\ v.reg = Remove(r, i)
                             /\ v.frame = r.slots[i].frame

TransferOutcome(r, v, src, sa, dst, da, p) ==
    \/ v.reg = r /\ v.ret \in Errors
    \/ /\ v.ret = "Ok" /\ src # dst /\ dst # 0 /\ ~ Mapped(r, dst, da)
       /\ \E i \in Used(r), k \in Slot :
             /\ Maps(r, i, src, sa)
             /\ Remove(r, i).slots[k] = Empty
             /\ ~ Conflict(Remove(r, i), dst, PageOf(da), r.slots[i].frame)
             /\ v.reg = Install(Remove(r, i), k, NewMapping(dst, da, r.slots[i].frame, p))

\* map returns one of the outcomes its guards allow.
LEMMA MapDoes ==
    ASSUME NEW r, NEW g, NEW a, NEW f, NEW p
    PROVE  MapOutcome(r, Map(r, g, a, f, p), g, a, f, p)
<1>. DEFINE v == Map(r, g, a, f, p)
<1>1. CASE g = 0 BY <1>1 DEF Map, MapOutcome, Errors
<1>2. CASE g # 0 /\ Conflict(r, g, PageOf(a), f) BY <1>2 DEF Map, MapOutcome, Errors
<1>3. CASE g # 0 /\ ~ Conflict(r, g, PageOf(a), f) /\ ~ \E i \in Slot : FirstEmpty(r, i)
  BY <1>3 DEF Map, MapOutcome, Errors
<1>4. CASE g # 0 /\ ~ Conflict(r, g, PageOf(a), f) /\ \E i \in Slot : FirstEmpty(r, i)
  <2>. DEFINE i == CHOOSE s \in Slot : FirstEmpty(r, s)
  <2>1. i \in Slot /\ FirstEmpty(r, i) BY <1>4
  <2>2. v = [reg |-> Install(r, i, NewMapping(g, a, f, p)), ret |-> "Ok"]
    BY <1>4 DEF Map, NewMapping
  <2>3. r.slots[i] = Empty BY <2>1 DEF FirstEmpty
  <2>4. v.ret = "Ok" /\ v.reg = Install(r, i, NewMapping(g, a, f, p)) BY <2>2
  <2>. HIDE DEF i, v
  <2>5. MapOutcome(r, v, g, a, f, p) BY <1>4, <2>1, <2>3, <2>4 DEF MapOutcome
  <2>. QED BY <2>5 DEF v
<1>. QED BY <1>1, <1>2, <1>3, <1>4

\* Each outcome of map leaves a sound registry.
LEMMA MapGood ==
    ASSUME NEW r, Good(r), NEW g \in Nat, NEW a \in Nat, NEW f \in Frames, NEW p \in Perms,
           NEW v, MapOutcome(r, v, g, a, f, p)
    PROVE  Good(v.reg) /\ v.ret \in Errors \cup {"Ok"}
<1>1. CASE v.reg = r /\ v.ret \in Errors BY <1>1
<1>2. CASE ~ (v.reg = r /\ v.ret \in Errors)
  <2>. DEFINE m == NewMapping(g, a, f, p)
  <2>1. PICK i \in Slot : r.slots[i] = Empty /\ v.reg = Install(r, i, m)
    BY <1>2 DEF MapOutcome
  <2>2. v.ret = "Ok" /\ g # 0 /\ ~ Conflict(r, g, PageOf(a), f) BY <1>2 DEF MapOutcome
  <2>3. m \in Mapping BY <2>2, PageOfNat DEF NewMapping, Mapping
  <2>4. m.guest = g /\ m.gpa = PageOf(a) /\ m.frame = f BY DEF NewMapping
  <2>. HIDE DEF m
  <2>5. Good(Install(r, i, m)) BY <2>1, <2>2, <2>3, <2>4, InstallGood
  <2>. QED BY <2>1, <2>2, <2>5
<1>. QED BY <1>1, <1>2

\* unmap returns one of the outcomes its search allows.
LEMMA UnmapDoes ==
    ASSUME NEW r, NEW g, NEW a
    PROVE  UnmapOutcome(r, Unmap(r, g, a), g, a)
<1>. DEFINE v == Unmap(r, g, a)
<1>1. CASE ~ \E i \in Slot : FirstMaps(r, i, g, a) BY <1>1 DEF Unmap, UnmapOutcome
<1>2. CASE \E i \in Slot : FirstMaps(r, i, g, a)
  <2>. DEFINE i == CHOOSE s \in Slot : FirstMaps(r, s, g, a)
  <2>1. i \in Slot /\ FirstMaps(r, i, g, a) BY <1>2
  <2>2. i \in Used(r) /\ Maps(r, i, g, a) BY <2>1 DEF FirstMaps, Maps, Used
  <2>3. /\ v.ret = "Ok" /\ v.reg = Remove(r, i) /\ v.frame = r.slots[i].frame
    BY <1>2 DEF Unmap
  <2>. HIDE DEF i, v
  <2>4. UnmapOutcome(r, v, g, a) BY <2>2, <2>3 DEF UnmapOutcome
  <2>. QED BY <2>4 DEF v
<1>. QED BY <1>1, <1>2

\* After the source slot is removed there is a slot to map into and no
\* conflict: the re-install path of transfer_page is never taken.
LEMMA TransferDoes ==
    ASSUME NEW r, Good(r), NEW src, NEW sa, NEW dst, NEW da, NEW p
    PROVE  TransferOutcome(r, TransferPage(r, src, sa, dst, da, p), src, sa, dst, da, p)
<1>. DEFINE v == TransferPage(r, src, sa, dst, da, p)
            u == Unmap(r, src, sa)
            w == Map(u.reg, dst, da, u.frame, p)
<1>1. CASE src = 0 \/ dst = 0 \/ src = dst
  BY <1>1 DEF TransferPage, TransferOutcome, Errors
<1>2. CASE ~ (src = 0 \/ dst = 0 \/ src = dst) /\ Mapped(r, dst, da)
  BY <1>2 DEF TransferPage, TransferOutcome, Errors
<1>3. CASE ~ (src = 0 \/ dst = 0 \/ src = dst) /\ ~ Mapped(r, dst, da)
  <2>1. v = IF u.ret # "Ok" THEN [reg |-> r, ret |-> u.ret]
            ELSE IF w.ret = "Ok" THEN w
            ELSE [reg |-> Map(u.reg, src, sa, u.frame, p).reg, ret |-> w.ret]
    BY <1>3 DEF TransferPage
  <2>2. UnmapOutcome(r, u, src, sa) BY UnmapDoes
  <2>3. CASE u.ret # "Ok"
    <3>1. u.ret = "NotMapped" BY <2>2, <2>3 DEF UnmapOutcome
    <3>2. v.reg = r /\ v.ret = "NotMapped" BY <2>1, <2>3, <3>1
    <3>. QED BY <3>2 DEF TransferOutcome, Errors
  <2>4. CASE u.ret = "Ok"
    <3>1. PICK i \in Used(r) : /\ Maps(r, i, src, sa)
                               /\ u.reg = Remove(r, i)
                               /\ u.frame = r.slots[i].frame
      BY <2>2, <2>4 DEF UnmapOutcome
    <3>. DEFINE q == Remove(r, i)
    <3>2. Good(q) /\ Used(q) = Used(r) \ {i} BY <3>1, RemoveGood
    <3>3. r.slots \in [Slot -> Mapping \cup {Empty}] BY DEF Good, Registry
    <3>4. i \in Slot /\ q.slots = [r.slots EXCEPT ![i] = Empty] BY DEF Remove, Used
    <3>5. q.slots[i] = Empty BY <3>3, <3>4
    <3>6. \A j \in Used(q) : q.slots[j] = r.slots[j] /\ j \in Used(r) /\ j # i /\ j \in Slot
      BY <3>2, <3>3, <3>4 DEF Used
    <3>. HIDE DEF q
    <3>7. ~ Conflict(q, dst, PageOf(da), r.slots[i].frame)
      <4>1. SUFFICES ASSUME NEW j \in Used(q),
                            \/ q.slots[j].frame = r.slots[i].frame
                            \/ q.slots[j].guest = dst /\ q.slots[j].gpa = PageOf(da)
                     PROVE  FALSE
        BY DEF Conflict
      <4>2. q.slots[j] = r.slots[j] /\ j \in Used(r) /\ j # i /\ j \in Slot BY <3>6
      <4>3. CASE r.slots[j].frame = r.slots[i].frame
        BY <4>2, <4>3 DEF Good, ExclusiveFrames
      <4>4. CASE r.slots[j].guest = dst /\ r.slots[j].gpa = PageOf(da)
        BY <1>3, <4>2, <4>4 DEF Mapped, Maps, Used
      <4>. QED BY <4>1, <4>2, <4>3, <4>4
    <3>8. \E k \in Slot : FirstEmpty(q, k) BY <3>4, <3>5, FirstEmptyExists
    <3>9. w = Map(q, dst, da, r.slots[i].frame, p) BY <3>1 DEF q
    <3>10. w.ret = "Ok" BY <1>3, <3>7, <3>8, <3>9 DEF Map
    <3>11. MapOutcome(q, w, dst, da, r.slots[i].frame, p) BY <3>9, MapDoes
    <3>. HIDE DEF w
    <3>12. PICK k \in Slot : q.slots[k] = Empty /\ w.reg = Install(q, k, NewMapping(dst, da, r.slots[i].frame, p))
      BY <3>10, <3>11 DEF MapOutcome, Errors
    <3>13. v = w BY <2>1, <2>4, <3>10
    <3>. QED BY <1>3, <3>1, <3>7, <3>10, <3>12, <3>13 DEF TransferOutcome, q
  <2>. QED BY <2>3, <2>4
<1>. QED BY <1>1, <1>2, <1>3

\* Each outcome of transfer_page leaves a sound registry.
LEMMA TransferGood ==
    ASSUME NEW r, Good(r), NEW dst \in Nat, NEW da \in Nat, NEW p \in Perms, NEW src, NEW sa,
           NEW v, TransferOutcome(r, v, src, sa, dst, da, p)
    PROVE  Good(v.reg) /\ v.ret \in Errors \cup {"Ok"}
<1>1. CASE v.reg = r /\ v.ret \in Errors BY <1>1
<1>2. CASE ~ (v.reg = r /\ v.ret \in Errors)
  <2>1. PICK i \in Used(r), k \in Slot :
             /\ Remove(r, i).slots[k] = Empty
             /\ ~ Conflict(Remove(r, i), dst, PageOf(da), r.slots[i].frame)
             /\ v.reg = Install(Remove(r, i), k, NewMapping(dst, da, r.slots[i].frame, p))
    BY <1>2 DEF TransferOutcome
  <2>. DEFINE m == NewMapping(dst, da, r.slots[i].frame, p)
  <2>2. v.ret = "Ok" /\ dst # 0 BY <1>2 DEF TransferOutcome
  <2>3. r.slots[i] \in Mapping BY DEF Good, Registry, Used
  <2>4. m \in Mapping BY <2>2, <2>3, PageOfNat DEF NewMapping, Mapping
  <2>5. m.guest = dst /\ m.gpa = PageOf(da) /\ m.frame = r.slots[i].frame BY DEF NewMapping
  <2>6. Good(Remove(r, i)) BY RemoveGood
  <2>. HIDE DEF m
  <2>7. Good(Install(Remove(r, i), k, m)) BY <2>1, <2>4, <2>5, <2>6, InstallGood
  <2>. QED BY <2>1, <2>2, <2>7 DEF m
<1>. QED BY <1>1, <1>2

-----------------------------------------------------------------------------
(* The inductive invariant and the safety theorems. *)

Results == [op : {"new", "map", "violation", "unmap", "transfer"}, ret : Errors \cup {"Ok"}]

IInv == Good(reg) /\ res \in Results

\* The empty registry is sound.
LEMMA NewGood == Good(New)
<1>1. New \in Registry BY DEF New, Registry
<1>2. Used(New) = {} BY DEF Used, New
<1>3. New.len = 0 BY DEF New
<1>. QED BY <1>1, <1>2, <1>3, FS_EmptySet DEF Good, ExclusiveFrames, ExclusivePages, LenMatches

\* The initial registry satisfies the invariant.
LEMMA IInvInit == Init => IInv
<1>. SUFFICES ASSUME Init PROVE IInv OBVIOUS
<1>1. Good(reg) BY NewGood DEF Init
<1>2. res \in Results BY DEF Init, Results
<1>. QED BY <1>1, <1>2 DEF IInv

\* Every call keeps the invariant.
LEMMA IInvStep == IInv /\ [Next]_vars => IInv'
<1>. SUFFICES ASSUME IInv, [Next]_vars PROVE IInv' OBVIOUS
<1>1. Good(reg) BY DEF IInv
<1>2. ASSUME NEW g \in Guests, NEW a \in Gpas, NEW f \in Frames, NEW p \in Perms, MapCall(g, a, f, p)
      PROVE  IInv'
  <2>. DEFINE v == Map(reg, g, a, f, p)
  <2>1. reg' = v.reg /\ res' = [op |-> "map", ret |-> v.ret] BY <1>2 DEF MapCall
  <2>2. g \in Nat /\ a \in Nat BY RegistryAssumption
  <2>3. MapOutcome(reg, v, g, a, f, p) BY MapDoes
  <2>. HIDE DEF v
  <2>4. Good(v.reg) /\ v.ret \in Errors \cup {"Ok"} BY <1>1, <2>2, <2>3, MapGood
  <2>. QED BY <2>1, <2>4 DEF IInv, Results
<1>3. ASSUME NEW g \in Guests, NEW a \in Gpas, UnmapCall(g, a)
      PROVE  IInv'
  <2>. DEFINE v == Unmap(reg, g, a)
  <2>1. reg' = v.reg /\ res' = [op |-> "unmap", ret |-> v.ret] BY <1>3 DEF UnmapCall
  <2>2. UnmapOutcome(reg, v, g, a) BY UnmapDoes
  <2>. HIDE DEF v
  <2>3. CASE v.reg = reg /\ v.ret = "NotMapped" BY <1>1, <2>1, <2>3 DEF IInv, Results, Errors
  <2>4. CASE v.ret = "Ok" /\ \E i \in Used(reg) : v.reg = Remove(reg, i)
    BY <1>1, <2>1, <2>4, RemoveGood DEF IInv, Results
  <2>. QED BY <2>2, <2>3, <2>4 DEF UnmapOutcome
<1>4. ASSUME NEW s \in Guests, NEW d \in Guests, NEW sa \in Gpas, NEW da \in Gpas, NEW p \in Perms,
             TransferCall(s, sa, d, da, p)
      PROVE  IInv'
  <2>. DEFINE v == TransferPage(reg, s, sa, d, da, p)
  <2>1. reg' = v.reg /\ res' = [op |-> "transfer", ret |-> v.ret] BY <1>4 DEF TransferCall
  <2>2. d \in Nat /\ da \in Nat BY RegistryAssumption
  <2>3. TransferOutcome(reg, v, s, sa, d, da, p) BY <1>1, TransferDoes
  <2>. HIDE DEF v
  <2>4. Good(v.reg) /\ v.ret \in Errors \cup {"Ok"} BY <1>1, <2>2, <2>3, TransferGood
  <2>. QED BY <2>1, <2>4 DEF IInv, Results
<1>5. CASE ViolationNoMap BY <1>1, <1>5 DEF ViolationNoMap, IInv, Results
<1>6. CASE UNCHANGED vars BY <1>6 DEF vars, IInv
<1>. QED BY <1>2, <1>3, <1>4, <1>5, <1>6 DEF Next

\* The registry is well typed after any sequence of calls.
THEOREM TypeCorrect == Spec => []TypeOK
<1>1. IInv => TypeOK BY DEF IInv, TypeOK, Good, Results
<1>. QED BY <1>1, IInvInit, IInvStep, PTL DEF Spec

\* ADR-004: whatever sequence of map, unmap, violation and transfer calls is
\* made, no host frame is ever mapped by two slots.
THEOREM ExclusiveFrameOwnership == Spec => []FrameExclusive
<1>1. IInv => FrameExclusive BY DEF IInv, FrameExclusive, Good
<1>. QED BY <1>1, IInvInit, IInvStep, PTL DEF Spec

\* ADR-004: no guest page is ever mapped by two slots.
THEOREM ExclusivePageOwnership == Spec => []PageExclusive
<1>1. IInv => PageExclusive BY DEF IInv, PageExclusive, Good
<1>. QED BY <1>1, IInvInit, IInvStep, PTL DEF Spec

\* len is the number of occupied slots.
THEOREM LenCorrect == Spec => []LenIsUsed
<1>1. IInv => LenIsUsed BY DEF IInv, LenIsUsed, Good
<1>. QED BY <1>1, IInvInit, IInvStep, PTL DEF Spec

\* Every call that reports an error leaves the registry exactly as it was, the
\* two-step transfer_page included.
THEOREM CallsFailClosed == Spec => FailClosed
<1>1. IInv /\ [Next]_vars => [res'.ret # "Ok" => reg' = reg]_vars
  <2>. SUFFICES ASSUME IInv, Next, res'.ret # "Ok" PROVE reg' = reg OBVIOUS
  <2>1. ASSUME NEW g \in Guests, NEW a \in Gpas, NEW f \in Frames, NEW p \in Perms, MapCall(g, a, f, p)
        PROVE  reg' = reg
    BY <2>1, MapDoes DEF MapCall, MapOutcome
  <2>2. ASSUME NEW g \in Guests, NEW a \in Gpas, UnmapCall(g, a)
        PROVE  reg' = reg
    BY <2>2, UnmapDoes DEF UnmapCall, UnmapOutcome
  <2>3. ASSUME NEW s \in Guests, NEW d \in Guests, NEW sa \in Gpas, NEW da \in Gpas, NEW p \in Perms,
               TransferCall(s, sa, d, da, p)
        PROVE  reg' = reg
    BY <2>3, TransferDoes DEF TransferCall, TransferOutcome, IInv
  <2>4. CASE ViolationNoMap BY <2>4 DEF ViolationNoMap
  <2>. QED BY <2>1, <2>2, <2>3, <2>4 DEF Next
<1>. QED BY <1>1, IInvInit, IInvStep, PTL DEF Spec, FailClosed

-----------------------------------------------------------------------------
(* The registry implements FrameOwnership. *)

OwnerMap(r) == [f \in Frames |-> OwnerOf(r, f)]

\* Exclusivity makes the owner of a mapped frame the place of its one slot.
LEMMA OwnerOfSlot ==
    ASSUME NEW r, ExclusiveFrames(r), NEW i \in Used(r)
    PROVE  OwnerOf(r, r.slots[i].frame) = <<r.slots[i].guest, r.slots[i].gpa>>
<1>. DEFINE f == r.slots[i].frame
            c == CHOOSE s \in Used(r) : r.slots[s].frame = f
<1>1. c \in Used(r) /\ r.slots[c].frame = f OBVIOUS
<1>2. c = i BY <1>1 DEF ExclusiveFrames
<1>3. OwnerOf(r, f) = <<r.slots[c].guest, r.slots[c].gpa>> BY DEF OwnerOf
<1>. QED BY <1>2, <1>3

\* A frame no slot maps is owned by nobody.
LEMMA OwnerOfNone ==
    ASSUME NEW r, NEW f, \A i \in Used(r) : r.slots[i].frame # f
    PROVE  OwnerOf(r, f) = <<>>
BY DEF OwnerOf

\* A place no slot maps is nobody's place in the abstract map.
LEMMA NoOwnerAt ==
    ASSUME NEW r, ExclusiveFrames(r), NEW g, NEW page,
           \A i \in Used(r) : ~ (r.slots[i].guest = g /\ r.slots[i].gpa = page), NEW f
    PROVE  OwnerOf(r, f) # <<g, page>>
<1>1. CASE \A i \in Used(r) : r.slots[i].frame # f
  BY <1>1, OwnerOfNone
<1>2. CASE \E i \in Used(r) : r.slots[i].frame = f
  <2>1. PICK i \in Used(r) : r.slots[i].frame = f BY <1>2
  <2>2. OwnerOf(r, f) = <<r.slots[i].guest, r.slots[i].gpa>> BY <2>1, OwnerOfSlot
  <2>. QED BY <2>2
<1>. QED BY <1>1, <1>2

\* Installing a mapping gives its frame, until then free, that owner.
LEMMA OwnerAfterInstall ==
    ASSUME NEW r, Good(r), NEW i \in Slot, r.slots[i] = Empty, NEW m \in Mapping,
           ~ Conflict(r, m.guest, m.gpa, m.frame)
    PROVE  /\ OwnerMap(Install(r, i, m)) = [OwnerMap(r) EXCEPT ![m.frame] = <<m.guest, m.gpa>>]
           /\ OwnerMap(r)[m.frame] = <<>>
<1>. DEFINE q == Install(r, i, m)
<1>1. Good(q) /\ Used(q) = Used(r) \cup {i} BY InstallGood
<1>2. r.slots \in [Slot -> Mapping \cup {Empty}] /\ i \notin Used(r) /\ Used(r) \subseteq Slot
  BY DEF Good, Registry, Used
<1>3. q.slots = [r.slots EXCEPT ![i] = m] BY DEF Install
<1>4. q.slots[i] = m /\ \A j \in Used(r) : q.slots[j] = r.slots[j] BY <1>2, <1>3
<1>. HIDE DEF q
<1>5. m.frame \in Frames BY DEF Mapping
<1>6. OwnerOf(q, m.frame) = <<m.guest, m.gpa>> BY <1>1, <1>4, OwnerOfSlot DEF Good
<1>7. OwnerOf(r, m.frame) = <<>> BY OwnerOfNone DEF Conflict
<1>8. ASSUME NEW f \in Frames, f # m.frame PROVE OwnerOf(q, f) = OwnerOf(r, f)
  <2>1. CASE \A j \in Used(r) : r.slots[j].frame # f
    <3>1. OwnerOf(r, f) = <<>> BY <2>1, OwnerOfNone
    <3>2. \A j \in Used(q) : q.slots[j].frame # f BY <1>1, <1>4, <1>8, <2>1
    <3>3. OwnerOf(q, f) = <<>> BY <3>2, OwnerOfNone
    <3>. QED BY <3>1, <3>3
  <2>2. CASE \E j \in Used(r) : r.slots[j].frame = f
    <3>1. PICK j \in Used(r) : r.slots[j].frame = f BY <2>2
    <3>2. OwnerOf(r, f) = <<r.slots[j].guest, r.slots[j].gpa>> BY <3>1, OwnerOfSlot DEF Good
    <3>3. j \in Used(q) /\ q.slots[j] = r.slots[j] BY <1>1, <1>4
    <3>4. OwnerOf(q, f) = <<q.slots[j].guest, q.slots[j].gpa>> BY <1>1, <3>1, <3>3, OwnerOfSlot DEF Good
    <3>. QED BY <3>2, <3>3, <3>4
  <2>. QED BY <2>1, <2>2
<1>9. OwnerMap(q) = [OwnerMap(r) EXCEPT ![m.frame] = <<m.guest, m.gpa>>]
  BY <1>5, <1>6, <1>8 DEF OwnerMap
<1>. QED BY <1>5, <1>7, <1>9 DEF OwnerMap, q

\* Removing a mapping frees its frame and no other.
LEMMA OwnerAfterRemove ==
    ASSUME NEW r, Good(r), NEW i \in Used(r)
    PROVE  /\ OwnerMap(Remove(r, i)) = [OwnerMap(r) EXCEPT ![r.slots[i].frame] = <<>>]
           /\ OwnerMap(r)[r.slots[i].frame] = <<r.slots[i].guest, r.slots[i].gpa>>
           /\ r.slots[i].frame \in Frames
<1>. DEFINE q == Remove(r, i)
            h == r.slots[i].frame
<1>1. Good(q) /\ Used(q) = Used(r) \ {i} BY RemoveGood
<1>2. r.slots \in [Slot -> Mapping \cup {Empty}] /\ Used(r) \subseteq Slot
  BY DEF Good, Registry, Used
<1>3. q.slots = [r.slots EXCEPT ![i] = Empty] BY DEF Remove
<1>4. \A j \in Used(q) : q.slots[j] = r.slots[j] BY <1>1, <1>2, <1>3
<1>. HIDE DEF q
<1>5. r.slots[i] \in Mapping BY <1>2 DEF Used
<1>6. h \in Frames BY <1>5 DEF Mapping
<1>7. OwnerOf(r, h) = <<r.slots[i].guest, r.slots[i].gpa>> BY OwnerOfSlot DEF Good
<1>8. OwnerOf(q, h) = <<>>
  <2>1. \A j \in Used(q) : q.slots[j].frame # h BY <1>1, <1>4 DEF Good, ExclusiveFrames
  <2>. QED BY <2>1, OwnerOfNone
<1>9. ASSUME NEW f \in Frames, f # h PROVE OwnerOf(q, f) = OwnerOf(r, f)
  <2>1. CASE \A j \in Used(r) : r.slots[j].frame # f
    <3>1. OwnerOf(r, f) = <<>> BY <2>1, OwnerOfNone
    <3>2. \A j \in Used(q) : q.slots[j].frame # f BY <1>1, <1>4, <2>1
    <3>3. OwnerOf(q, f) = <<>> BY <3>2, OwnerOfNone
    <3>. QED BY <3>1, <3>3
  <2>2. CASE \E j \in Used(r) : r.slots[j].frame = f
    <3>1. PICK j \in Used(r) : r.slots[j].frame = f BY <2>2
    <3>2. OwnerOf(r, f) = <<r.slots[j].guest, r.slots[j].gpa>> BY <3>1, OwnerOfSlot DEF Good
    <3>3. j \in Used(q) /\ q.slots[j] = r.slots[j] BY <1>1, <1>4, <1>9, <3>1
    <3>4. OwnerOf(q, f) = <<q.slots[j].guest, q.slots[j].gpa>> BY <1>1, <3>1, <3>3, OwnerOfSlot DEF Good
    <3>. QED BY <3>2, <3>3, <3>4
  <2>. QED BY <2>1, <2>2
<1>10. OwnerMap(q) = [OwnerMap(r) EXCEPT ![h] = <<>>]
  BY <1>6, <1>8, <1>9 DEF OwnerMap
<1>. QED BY <1>6, <1>7, <1>10 DEF OwnerMap, q

AbsClaim(r, q, f, place) ==
    /\ OwnerMap(r)[f] = <<>>
    /\ \A h \in Frames : OwnerMap(r)[h] # place
    /\ OwnerMap(q) = [OwnerMap(r) EXCEPT ![f] = place]

AbsRelease(r, q, f) ==
    /\ OwnerMap(r)[f] # <<>>
    /\ OwnerMap(q) = [OwnerMap(r) EXCEPT ![f] = <<>>]

AbsHandOver(r, q, f, place) ==
    /\ OwnerMap(r)[f] # <<>>
    /\ OwnerMap(r)[f][1] # place[1]
    /\ \A h \in Frames : OwnerMap(r)[h] # place
    /\ OwnerMap(q) = [OwnerMap(r) EXCEPT ![f] = place]

AbsPlaces == (Guests \ {0}) \X Pages

AbsStep(r, q) ==
    \/ OwnerMap(q) = OwnerMap(r)
    \/ \E f \in Frames : \/ AbsRelease(r, q, f)
                         \/ \E place \in AbsPlaces : AbsClaim(r, q, f, place) \/ AbsHandOver(r, q, f, place)

\* map is a claim of the abstract map, or nothing.
LEMMA MapIsClaim ==
    ASSUME NEW r, Good(r), NEW g \in Guests, NEW a \in Gpas, NEW f \in Frames, NEW p \in Perms,
           NEW v, MapOutcome(r, v, g, a, f, p)
    PROVE  AbsStep(r, v.reg)
<1>1. CASE v.reg = r BY <1>1 DEF AbsStep
<1>2. CASE v.reg # r
  <2>. DEFINE m == NewMapping(g, a, f, p)
  <2>1. PICK i \in Slot : r.slots[i] = Empty /\ v.reg = Install(r, i, m)
    BY <1>2 DEF MapOutcome
  <2>2. g # 0 /\ ~ Conflict(r, g, PageOf(a), f) BY <1>2 DEF MapOutcome
  <2>3. g \in Nat /\ a \in Nat BY RegistryAssumption
  <2>4. m \in Mapping BY <2>2, <2>3, PageOfNat DEF NewMapping, Mapping
  <2>5. m.guest = g /\ m.gpa = PageOf(a) /\ m.frame = f BY DEF NewMapping
  <2>. HIDE DEF m
  <2>. DEFINE place == <<g, PageOf(a)>>
  <2>6. /\ OwnerMap(v.reg) = [OwnerMap(r) EXCEPT ![f] = place]
        /\ OwnerMap(r)[f] = <<>>
    <3>1. ~ Conflict(r, m.guest, m.gpa, m.frame) BY <2>2, <2>5
    <3>2. /\ OwnerMap(Install(r, i, m)) = [OwnerMap(r) EXCEPT ![m.frame] = <<m.guest, m.gpa>>]
          /\ OwnerMap(r)[m.frame] = <<>>
      BY <2>1, <2>4, <3>1, OwnerAfterInstall
    <3>. QED BY <2>1, <2>5, <3>2
  <2>7. \A h \in Frames : OwnerMap(r)[h] # place
    <3>1. \A i1 \in Used(r) : ~ (r.slots[i1].guest = g /\ r.slots[i1].gpa = PageOf(a))
      BY <2>2 DEF Conflict
    <3>2. ExclusiveFrames(r) BY DEF Good
    <3>3. \A h : OwnerOf(r, h) # <<g, PageOf(a)>> BY <3>1, <3>2, NoOwnerAt
    <3>. QED BY <3>3 DEF OwnerMap
  <2>8. place \in AbsPlaces BY <2>2 DEF AbsPlaces, Pages
  <2>9. AbsClaim(r, v.reg, f, place) BY <2>6, <2>7 DEF AbsClaim
  <2>. QED BY <2>8, <2>9 DEF AbsStep
<1>. QED BY <1>1, <1>2

\* unmap is a release of the abstract map, or nothing.
LEMMA UnmapIsRelease ==
    ASSUME NEW r, Good(r), NEW g, NEW a, NEW v, UnmapOutcome(r, v, g, a)
    PROVE  AbsStep(r, v.reg)
<1>1. CASE v.reg = r BY <1>1 DEF AbsStep
<1>2. CASE v.reg # r
  <2>1. PICK i \in Used(r) : v.reg = Remove(r, i) BY <1>2 DEF UnmapOutcome
  <2>. DEFINE h == r.slots[i].frame
  <2>2. /\ OwnerMap(v.reg) = [OwnerMap(r) EXCEPT ![h] = <<>>]
        /\ OwnerMap(r)[h] = <<r.slots[i].guest, r.slots[i].gpa>>
        /\ h \in Frames
    BY <2>1, OwnerAfterRemove
  <2>3. OwnerMap(r)[h] # <<>> BY <2>2
  <2>4. AbsRelease(r, v.reg, h) BY <2>2, <2>3 DEF AbsRelease
  <2>. QED BY <2>2, <2>4 DEF AbsStep
<1>. QED BY <1>1, <1>2

\* transfer_page is one atomic hand-over of the abstract map, or nothing.
LEMMA TransferIsHandOver ==
    ASSUME NEW r, Good(r), NEW src, NEW sa, NEW dst \in Guests, NEW da \in Gpas, NEW p \in Perms,
           NEW v, TransferOutcome(r, v, src, sa, dst, da, p)
    PROVE  AbsStep(r, v.reg)
<1>1. CASE v.reg = r BY <1>1 DEF AbsStep
<1>2. CASE v.reg # r
  <2>1. PICK i \in Used(r), k \in Slot :
             /\ Maps(r, i, src, sa)
             /\ Remove(r, i).slots[k] = Empty
             /\ ~ Conflict(Remove(r, i), dst, PageOf(da), r.slots[i].frame)
             /\ v.reg = Install(Remove(r, i), k, NewMapping(dst, da, r.slots[i].frame, p))
    BY <1>2 DEF TransferOutcome
  <2>2. src # dst /\ dst # 0 /\ ~ Mapped(r, dst, da) BY <1>2 DEF TransferOutcome
  <2>. DEFINE q == Remove(r, i)
              h == r.slots[i].frame
              m == NewMapping(dst, da, h, p)
              place == <<dst, PageOf(da)>>
  <2>3. Good(q) BY RemoveGood
  <2>4. /\ OwnerMap(q) = [OwnerMap(r) EXCEPT ![h] = <<>>]
        /\ OwnerMap(r)[h] = <<r.slots[i].guest, r.slots[i].gpa>>
        /\ h \in Frames
    BY OwnerAfterRemove
  <2>5. dst \in Nat /\ da \in Nat BY RegistryAssumption
  <2>6. m \in Mapping BY <2>2, <2>4, <2>5, PageOfNat DEF NewMapping, Mapping
  <2>7. m.guest = dst /\ m.gpa = PageOf(da) /\ m.frame = h BY DEF NewMapping
  <2>8. v.reg = Install(q, k, m) /\ q.slots[k] = Empty /\ ~ Conflict(q, m.guest, m.gpa, m.frame)
    BY <2>1, <2>7
  <2>. HIDE DEF m, q
  <2>9. OwnerMap(v.reg) = [OwnerMap(q) EXCEPT ![h] = place]
    BY <2>3, <2>6, <2>7, <2>8, OwnerAfterInstall
  <2>10. OwnerMap(v.reg) = [OwnerMap(r) EXCEPT ![h] = place]
    <3>1. OwnerMap(r) \in [Frames -> {OwnerOf(r, x) : x \in Frames}] BY DEF OwnerMap
    <3>. QED BY <2>4, <2>9, <3>1
  <2>11. OwnerMap(r)[h][1] = src
    <3>1. r.slots[i].guest = src BY <2>1 DEF Maps
    <3>. QED BY <2>4, <3>1
  <2>12. \A x \in Frames : OwnerMap(r)[x] # place
    <3>1. \A i1 \in Used(r) : ~ (r.slots[i1].guest = dst /\ r.slots[i1].gpa = PageOf(da))
      BY <2>2 DEF Mapped, Maps, Used
    <3>2. ExclusiveFrames(r) BY DEF Good
    <3>3. \A x : OwnerOf(r, x) # <<dst, PageOf(da)>> BY <3>1, <3>2, NoOwnerAt
    <3>. QED BY <3>3 DEF OwnerMap
  <2>13. place \in AbsPlaces BY <2>2 DEF AbsPlaces, Pages
  <2>14. OwnerMap(r)[h] # <<>> /\ OwnerMap(r)[h][1] # place[1] BY <2>2, <2>4, <2>11
  <2>15. AbsHandOver(r, v.reg, h, place) BY <2>10, <2>12, <2>14 DEF AbsHandOver
  <2>. QED BY <2>4, <2>13, <2>15 DEF AbsStep
<1>. QED BY <1>1, <1>2

\* The registry implements FrameOwnership for every size: each call is one
\* claim, one release, one hand-over or nothing at all.
THEOREM RegistryRefinesOwnership == Spec => ImplementsOwnership
<1>1. Init => Ownership!Init
  <2>1. Used(New) = {} BY DEF Used, New
  <2>2. \A f : OwnerOf(New, f) = <<>> BY <2>1, OwnerOfNone
  <2>. QED BY <2>2 DEF Init, Ownership!Init, Ownership!Nobody
<1>2. IInv /\ [Next]_vars => AbsStep(reg, reg')
  <2>. SUFFICES ASSUME IInv, [Next]_vars PROVE AbsStep(reg, reg') OBVIOUS
  <2>0. Good(reg) BY DEF IInv
  <2>1. ASSUME NEW g \in Guests, NEW a \in Gpas, NEW f \in Frames, NEW p \in Perms, MapCall(g, a, f, p)
        PROVE  AbsStep(reg, reg')
    <3>1. reg' = Map(reg, g, a, f, p).reg BY <2>1 DEF MapCall
    <3>. QED BY <2>0, <3>1, MapDoes, MapIsClaim
  <2>2. ASSUME NEW g \in Guests, NEW a \in Gpas, UnmapCall(g, a)
        PROVE  AbsStep(reg, reg')
    <3>1. reg' = Unmap(reg, g, a).reg BY <2>2 DEF UnmapCall
    <3>. QED BY <2>0, <3>1, UnmapDoes, UnmapIsRelease
  <2>3. ASSUME NEW s \in Guests, NEW d \in Guests, NEW sa \in Gpas, NEW da \in Gpas, NEW p \in Perms,
               TransferCall(s, sa, d, da, p)
        PROVE  AbsStep(reg, reg')
    <3>1. reg' = TransferPage(reg, s, sa, d, da, p).reg BY <2>3 DEF TransferCall
    <3>. QED BY <2>0, <3>1, TransferDoes, TransferIsHandOver
  <2>4. CASE ViolationNoMap \/ UNCHANGED vars
    BY <2>4 DEF ViolationNoMap, vars, AbsStep
  <2>. QED BY <2>1, <2>2, <2>3, <2>4 DEF Next
<1>3. AbsStep(reg, reg') => [Ownership!Next]_([f \in Frames |-> OwnerOf(reg, f)])
  <2>1. ASSUME NEW f \in Frames, AbsRelease(reg, reg', f) PROVE Ownership!Next
    <3>1. Ownership!Release(f)
      BY <2>1 DEF AbsRelease, OwnerMap, Ownership!Release, Ownership!Nobody
    <3>. QED BY <3>1 DEF Ownership!Next
  <2>2. ASSUME NEW f \in Frames, NEW place \in AbsPlaces, AbsClaim(reg, reg', f, place)
        PROVE  Ownership!Next
    <3>1. Ownership!Claim(f, place)
      BY <2>2 DEF AbsClaim, OwnerMap, Ownership!Claim, Ownership!Nobody, Ownership!Vacant
    <3>. QED BY <3>1 DEF Ownership!Next, Ownership!Place, AbsPlaces, Pages
  <2>3. ASSUME NEW f \in Frames, NEW place \in AbsPlaces, AbsHandOver(reg, reg', f, place)
        PROVE  Ownership!Next
    <3>1. Ownership!HandOver(f, place)
      BY <2>3 DEF AbsHandOver, OwnerMap, Ownership!HandOver, Ownership!Nobody, Ownership!Vacant
    <3>. QED BY <3>1 DEF Ownership!Next, Ownership!Place, AbsPlaces, Pages
  <2>4. OwnerMap(reg') = OwnerMap(reg) =>
          [f \in Frames |-> OwnerOf(reg, f)]' = [f \in Frames |-> OwnerOf(reg, f)]
    BY DEF OwnerMap
  <2>. QED BY <2>1, <2>2, <2>3, <2>4 DEF AbsStep
<1>. QED BY <1>1, <1>2, <1>3, IInvInit, IInvStep, PTL DEF Spec, ImplementsOwnership, Ownership!Spec

-----------------------------------------------------------------------------
(* The precise window *)

Hole == [hpa : Nat, len : Nat, gid : Nat]

-----------------------------------------------------------------------------
(* The sort *)

\* The order of the insertion sort, and the place it gives to a hole.
Before(hs, i, j) == hs[i].hpa < hs[j].hpa \/ (hs[i].hpa = hs[j].hpa /\ i < j)
Rank(hs) == [i \in DOMAIN hs |-> Cardinality({j \in DOMAIN hs : Before(hs, j, i)}) + 1]

\* Ranking the holes by address is a permutation, and a stable one.
LEMMA RankIsBijection ==
    ASSUME NEW hs \in Seq(Hole)
    PROVE  /\ Rank(hs) \in Bijection(DOMAIN hs, DOMAIN hs)
           /\ \A i, j \in DOMAIN hs : Rank(hs)[i] < Rank(hs)[j] => Before(hs, i, j)
<1>. DEFINE D == DOMAIN hs
            Below(i) == {j \in D : Before(hs, j, i)}
            n == Len(hs)
<1>1. D = 1 .. n /\ n \in Nat OBVIOUS
<1>2. IsFiniteSet(D) /\ Cardinality(D) = n BY <1>1, FS_Interval
<1>3. \A i \in D : hs[i].hpa \in Nat
  <2>. SUFFICES ASSUME NEW i \in D PROVE hs[i].hpa \in Nat OBVIOUS
  <2>1. hs[i] \in Hole OBVIOUS
  <2>. QED BY <2>1 DEF Hole
<1>4. \A i \in D : /\ Below(i) \in SUBSET D /\ i \in D \ Below(i)
  BY <1>1, <1>3 DEF Before
<1>5. \A i \in D : IsFiniteSet(Below(i)) /\ Cardinality(Below(i)) \in Nat /\ Cardinality(Below(i)) < n
  <2>. SUFFICES ASSUME NEW i \in D
                PROVE  IsFiniteSet(Below(i)) /\ Cardinality(Below(i)) \in Nat /\ Cardinality(Below(i)) < n
    OBVIOUS
  <2>. DEFINE B == Below(i)
  <2>1. B \in SUBSET D /\ B # D BY <1>4
  <2>. HIDE DEF B
  <2>2. IsFiniteSet(B) /\ Cardinality(B) <= n /\ Cardinality(B) # n BY <1>2, <2>1, FS_Subset
  <2>3. Cardinality(B) \in Nat BY <2>2, FS_CardinalityType
  <2>. QED BY <1>1, <2>2, <2>3 DEF B
<1>6. ASSUME NEW i \in D, NEW j \in D, Before(hs, i, j)
      PROVE  Cardinality(Below(i)) < Cardinality(Below(j))
  <2>. DEFINE A == Below(i)  B == Below(j)
  <2>1. A \in SUBSET B BY <1>1, <1>3, <1>6 DEF Before
  <2>2. i \in B /\ i \notin A BY <1>1, <1>3, <1>6 DEF Before
  <2>3. IsFiniteSet(B) /\ Cardinality(B) \in Nat /\ Cardinality(A) \in Nat BY <1>5
  <2>. HIDE DEF A, B
  <2>4. Cardinality(A) <= Cardinality(B) /\ Cardinality(A) # Cardinality(B) BY <2>1, <2>2, <2>3, FS_Subset
  <2>5. Cardinality(A) < Cardinality(B) BY <2>3, <2>4
  <2>. QED BY <2>5 DEF A, B
<1>7. \A i, j \in D : i = j \/ Before(hs, i, j) \/ Before(hs, j, i) BY <1>1, <1>3 DEF Before
<1>8. \A i \in D : Rank(hs)[i] = Cardinality(Below(i)) + 1 BY DEF Rank
<1>. HIDE DEF Below, n, D
<1>9. Rank(hs) \in [D -> D]
  <2>1. \A i \in D : Rank(hs)[i] \in D BY <1>1, <1>5, <1>8
  <2>2. Rank(hs) = [i \in D |-> Rank(hs)[i]] BY DEF Rank, D
  <2>. QED BY <2>1, <2>2
<1>10. \A i, j \in D : Rank(hs)[i] = Rank(hs)[j] => i = j BY <1>5, <1>6, <1>7, <1>8
<1>11. \A i, j \in D : Rank(hs)[i] < Rank(hs)[j] => Before(hs, i, j) BY <1>5, <1>6, <1>7, <1>8
<1>12. Rank(hs) \in Injection(D, D) BY <1>9, <1>10 DEF Injection, IsInjective
<1>13. Rank(hs) \in Surjection(D, D) BY <1>2, <1>12, FS_Injection
<1>. QED BY <1>11, <1>12, <1>13 DEF Bijection, D

\* The insertion sort keeps the holes, and puts them in order.
LEMMA OrderedSorts ==
    ASSUME NEW hs \in Seq(Hole)
    PROVE  /\ Ordered(hs) \in Seq(Hole)
           /\ \A i \in DOMAIN Ordered(hs) : \E k \in DOMAIN hs : Ordered(hs)[i] = hs[k]
           /\ \A k \in DOMAIN hs : \E i \in DOMAIN Ordered(hs) : Ordered(hs)[i] = hs[k]
           /\ \A i, j \in DOMAIN Ordered(hs) : i < j =>
                 \E k, l \in DOMAIN hs : /\ Before(hs, k, l)
                                         /\ Ordered(hs)[i] = hs[k] /\ Ordered(hs)[j] = hs[l]
<1>. DEFINE D == DOMAIN hs
            Sorts(f) == \A i, j \in D : i < j => Before(hs, f[i], f[j])
            q == [m \in D |-> CHOOSE i \in D : Rank(hs)[i] = m]
            p == CHOOSE f \in [D -> D] : Sorts(f)
<1>1. D = 1 .. Len(hs) /\ Len(hs) \in Nat OBVIOUS
<1>2. q \in [D -> D] /\ \A m \in D : Rank(hs)[q[m]] = m
  BY RankIsBijection DEF Bijection, Surjection
<1>. HIDE DEF q
<1>3. Sorts(q)
  <2>. SUFFICES ASSUME NEW i \in D, NEW j \in D, i < j PROVE Before(hs, q[i], q[j]) OBVIOUS
  <2>1. q[i] \in D /\ q[j] \in D /\ Rank(hs)[q[i]] < Rank(hs)[q[j]] BY <1>2
  <2>. QED BY <2>1, RankIsBijection
<1>4. p \in [D -> D] /\ Sorts(p) BY <1>2, <1>3, Zenon
<1>5. Ordered(hs) = [i \in D |-> hs[p[i]]] BY DEF Ordered, Before
<1>. HIDE DEF p
<1>6. p \in Injection(D, D)
  <2>. SUFFICES ASSUME NEW i \in D, NEW j \in D, i < j PROVE p[i] # p[j]
    BY <1>1, <1>4 DEF Injection, IsInjective
  <2>1. Before(hs, p[i], p[j]) BY <1>4
  <2>2. p[i] \in D /\ hs[p[i]] \in Hole BY <1>4
  <2>3. p[i] \in Nat BY <1>1, <2>2
  <2>4. hs[p[i]].hpa \in Nat BY <2>2 DEF Hole
  <2>. QED BY <2>1, <2>3, <2>4 DEF Before
<1>7. IsFiniteSet(D) BY <1>1, FS_Interval
<1>8. p \in Surjection(D, D) BY <1>6, <1>7, FS_Injection
<1>9. DOMAIN Ordered(hs) = D BY <1>5
<1>10. \A i \in D : Ordered(hs)[i] = hs[p[i]] /\ p[i] \in D BY <1>4, <1>5
<1>11. \A k \in D : \E i \in D : Ordered(hs)[i] = hs[k]
  <2>. SUFFICES ASSUME NEW k \in D PROVE \E i \in D : Ordered(hs)[i] = hs[k] OBVIOUS
  <2>1. PICK i \in D : p[i] = k BY <1>8 DEF Surjection
  <2>2. Ordered(hs)[i] = hs[k] BY <1>10, <2>1
  <2>. QED BY <2>2
<1>12. Ordered(hs) \in Seq(Hole)
  <2>1. \A i \in D : hs[p[i]] \in Hole BY <1>10
  <2>. QED BY <1>1, <1>5, <2>1
<1>. QED BY <1>4, <1>9, <1>10, <1>11, <1>12

-----------------------------------------------------------------------------
(* The registry of spans *)

Within(r, a) == r.gpa <= a /\ a < r.gpa + r.len

\* The spans are disjoint and make up [0, c).
Partitions(rs, c) ==
    /\ rs \in Seq(EptRange) /\ c \in Nat
    /\ \A i \in DOMAIN rs : rs[i].len > 0 /\ rs[i].gpa + rs[i].len <= c
    /\ \A a \in 0 .. c - 1 : \E i \in DOMAIN rs : Within(rs[i], a)
    /\ \A i, j \in DOMAIN rs :
           i # j => rs[i].gpa + rs[i].len <= rs[j].gpa \/ rs[j].gpa + rs[j].len <= rs[i].gpa

\* A span claimed at the end of the part claimed already extends it.
LEMMA AppendPartitions ==
    ASSUME NEW rs, NEW c, Partitions(rs, c), NEW g \in Nat, NEW n \in Nat \ {0}
    PROVE  Partitions(Append(rs, [guest |-> g, gpa |-> c, len |-> n]), c + n)
<1>. DEFINE e == [guest |-> g, gpa |-> c, len |-> n]
            ss == Append(rs, e)
<1>1. c \in Nat /\ rs \in Seq(EptRange) /\ e \in EptRange BY DEF Partitions, EptRange
<1>2. ss \in Seq(EptRange) /\ DOMAIN ss = 1 .. Len(rs) + 1 /\ DOMAIN rs = 1 .. Len(rs) /\ Len(rs) \in Nat
  BY <1>1
<1>3. (\A i \in DOMAIN rs : ss[i] = rs[i]) /\ ss[Len(rs) + 1] = e BY <1>1
<1>4. e.gpa = c /\ e.len = n OBVIOUS
<1>5. \A i \in DOMAIN rs : rs[i].gpa \in Nat /\ rs[i].len \in Nat
  <2>. SUFFICES ASSUME NEW i \in DOMAIN rs PROVE rs[i].gpa \in Nat /\ rs[i].len \in Nat OBVIOUS
  <2>1. rs[i] \in EptRange BY <1>1
  <2>. QED BY <2>1 DEF EptRange
<1>. HIDE DEF e, ss
<1>6. \A i \in DOMAIN ss : ss[i].len > 0 /\ ss[i].gpa + ss[i].len <= c + n
  <2>. SUFFICES ASSUME NEW i \in DOMAIN ss PROVE ss[i].len > 0 /\ ss[i].gpa + ss[i].len <= c + n
    OBVIOUS
  <2>1. CASE i \in DOMAIN rs BY <1>1, <1>3, <1>5, <2>1 DEF Partitions
  <2>2. CASE i = Len(rs) + 1 BY <1>1, <1>3, <1>4, <2>2
  <2>. QED BY <1>2, <2>1, <2>2
<1>7. \A a \in 0 .. c + n - 1 : \E i \in DOMAIN ss : Within(ss[i], a)
  <2>. SUFFICES ASSUME NEW a \in 0 .. c + n - 1 PROVE \E i \in DOMAIN ss : Within(ss[i], a) OBVIOUS
  <2>1. CASE a < c
    <3>1. PICK i \in DOMAIN rs : Within(rs[i], a) BY <1>1, <2>1 DEF Partitions
    <3>. QED BY <1>2, <1>3, <3>1
  <2>2. CASE a >= c
    <3>1. Within(e, a) BY <1>1, <1>4, <2>2 DEF Within
    <3>. QED BY <1>2, <1>3, <3>1
  <2>. QED BY <1>1, <2>1, <2>2
<1>8. \A i, j \in DOMAIN ss :
           i # j => ss[i].gpa + ss[i].len <= ss[j].gpa \/ ss[j].gpa + ss[j].len <= ss[i].gpa
  <2>. SUFFICES ASSUME NEW i \in DOMAIN ss, NEW j \in DOMAIN ss, i # j
                PROVE  ss[i].gpa + ss[i].len <= ss[j].gpa \/ ss[j].gpa + ss[j].len <= ss[i].gpa
    OBVIOUS
  <2>1. CASE i \in DOMAIN rs /\ j \in DOMAIN rs BY <1>3, <2>1 DEF Partitions
  <2>2. CASE i = Len(rs) + 1 BY <1>2, <1>3, <1>4, <2>2 DEF Partitions
  <2>3. CASE j = Len(rs) + 1 BY <1>2, <1>3, <1>4, <2>3 DEF Partitions
  <2>. QED BY <1>2, <2>1, <2>2, <2>3
<1>9. c + n \in Nat BY <1>1
<1>10. Partitions(ss, c + n) BY <1>2, <1>6, <1>7, <1>8, <1>9 DEF Partitions
<1>. QED BY <1>10 DEF ss, e

-----------------------------------------------------------------------------
(* Exact ownership *)

IsSpanOf(r, h) == r.gpa = h.hpa /\ r.len = h.len /\ r.guest = h.gid

\* Spans are the bring-up guest's or those of holes, and every hole has its span
\* or waits for its turn.
Accounts(hs, rs, left) ==
    /\ left \in Seq(Hole)
    /\ \A j \in DOMAIN left : \E k \in DOMAIN hs : left[j] = hs[k]
    /\ \A i \in DOMAIN rs : rs[i].guest = G0 \/ \E k \in DOMAIN hs : IsSpanOf(rs[i], hs[k])
    /\ \A k \in DOMAIN hs : \/ \E j \in DOMAIN left : left[j] = hs[k]
                            \/ \E i \in DOMAIN rs : IsSpanOf(rs[i], hs[k])

ClaimIInv ==
    /\ holes \in Seq(Hole)
    /\ ret = "claiming" =>
           Partitions(ranges, cursor) /\ cursor <= Precise /\ Accounts(holes, ranges, todo)
    /\ latch => ret = "Ok"
    /\ WindowOwnedExactly

\* What WindowOwnedExactly says of a registry rs made from the holes hs.
OwnedExactly(hs, rs) ==
    \A a \in 0 .. Precise - 1 : \E i \in DOMAIN rs :
        /\ rs[i].gpa <= a /\ a < rs[i].gpa + rs[i].len
        /\ IF \E k \in DOMAIN hs : InHole(hs[k], a)
           THEN \E k \in DOMAIN hs : InHole(hs[k], a) /\ hs[k].gid = rs[i].guest
           ELSE rs[i].guest = G0
        /\ \A j \in DOMAIN rs : j # i => a < rs[j].gpa \/ rs[j].gpa + rs[j].len <= a

\* A registry that covers the window and accounts for all holes owns every byte
\* as it should.
LEMMA CoveredIsOwned ==
    ASSUME NEW hs \in Seq(Hole), NEW rs, Partitions(rs, Precise), Accounts(hs, rs, << >>)
    PROVE  OwnedExactly(hs, rs)
<1>1. \A i \in DOMAIN rs : rs[i].gpa \in Nat /\ rs[i].len \in Nat
  <2>. SUFFICES ASSUME NEW i \in DOMAIN rs PROVE rs[i].gpa \in Nat /\ rs[i].len \in Nat
    OBVIOUS
  <2>1. rs[i] \in EptRange BY DEF Partitions
  <2>. QED BY <2>1 DEF EptRange
<1>2. \A k \in DOMAIN hs : \E i \in DOMAIN rs : IsSpanOf(rs[i], hs[k])
  BY DEF Accounts
<1>. SUFFICES ASSUME NEW a \in 0 .. Precise - 1
     PROVE  \E i \in DOMAIN rs :
        /\ rs[i].gpa <= a /\ a < rs[i].gpa + rs[i].len
        /\ IF \E k \in DOMAIN hs : InHole(hs[k], a)
           THEN \E k \in DOMAIN hs : InHole(hs[k], a) /\ hs[k].gid = rs[i].guest
           ELSE rs[i].guest = G0
        /\ \A j \in DOMAIN rs :
               j # i => a < rs[j].gpa \/ rs[j].gpa + rs[j].len <= a
  BY DEF OwnedExactly
<1>3. PICK i \in DOMAIN rs : Within(rs[i], a) BY DEF Partitions
<1>4. a \in Nat BY WindowAssumption
<1>5. \A j \in DOMAIN rs : j # i => a < rs[j].gpa \/ rs[j].gpa + rs[j].len <= a
  <2>. SUFFICES ASSUME NEW j \in DOMAIN rs, j # i
                PROVE  a < rs[j].gpa \/ rs[j].gpa + rs[j].len <= a
    OBVIOUS
  <2>1. \/ rs[i].gpa + rs[i].len <= rs[j].gpa
        \/ rs[j].gpa + rs[j].len <= rs[i].gpa
    BY DEF Partitions
  <2>. QED BY <1>1, <1>3, <1>4, <2>1 DEF Within
<1>6. ASSUME NEW k \in DOMAIN hs, InHole(hs[k], a) PROVE hs[k].gid = rs[i].guest
  <2>1. PICK j \in DOMAIN rs : IsSpanOf(rs[j], hs[k]) BY <1>2
  <2>2. rs[j].gpa <= a /\ a < rs[j].gpa + rs[j].len BY <1>6, <2>1 DEF IsSpanOf, InHole
  <2>3. j = i BY <1>1, <1>4, <1>5, <2>2
  <2>. QED BY <2>1, <2>3 DEF IsSpanOf
<1>7. ASSUME ~ \E k \in DOMAIN hs : InHole(hs[k], a) PROVE rs[i].guest = G0
  <2>. SUFFICES ASSUME NEW k \in DOMAIN hs, IsSpanOf(rs[i], hs[k]) PROVE FALSE
    BY DEF Accounts
  <2>1. InHole(hs[k], a) BY <1>3 DEF IsSpanOf, InHole, Within
  <2>. QED BY <1>7, <2>1
<1>. QED BY <1>3, <1>5, <1>6, <1>7 DEF Within

\* Nothing is claimed yet and every hole is still to come.
LEMMA ClaimIInvInit == ClaimInit => ClaimIInv
<1>. SUFFICES ASSUME ClaimInit PROVE ClaimIInv OBVIOUS
<1>1. holes \in Seq(Hole) BY WindowAssumption DEF ClaimInit, Hole
<1>2. Partitions(<< >>, 0)
  <2>1. << >> \in Seq(EptRange) /\ DOMAIN << >> = {} OBVIOUS
  <2>. QED BY <2>1 DEF Partitions
<1>3. Accounts(holes, << >>, Ordered(holes)) BY <1>1, OrderedSorts DEF Accounts
<1>4. 0 <= Precise BY WindowAssumption
<1>. QED BY <1>1, <1>2, <1>3, <1>4 DEF ClaimInit, ClaimIInv, WindowOwnedExactly

\* What a claim that succeeds has done: gaps for the bring-up guest, spans for
\* the holes.
LEMMA GapDoes ==
    ASSUME NEW rs, Partitions(rs, cursor), NEW end \in Nat, end >= cursor,
           ClaimGap(rs, end).ret = "Ok"
    PROVE  LET ss == ClaimGap(rs, end).rs
           IN  /\ Partitions(ss, end)
               /\ \A left : Accounts(holes, rs, left) => Accounts(holes, ss, left)
<1>. DEFINE e == [guest |-> G0, gpa |-> cursor, len |-> end - cursor]
<1>0. cursor \in Nat /\ rs \in Seq(EptRange) /\ G0 \in Nat BY WindowAssumption DEF Partitions
<1>1. CASE end = cursor BY <1>0, <1>1 DEF ClaimGap
<1>2. CASE end > cursor
  <2>1. ClaimGap(rs, end).rs = Append(rs, e) BY <1>2 DEF ClaimGap, ClaimRange
  <2>2. Partitions(Append(rs, e), cursor + (end - cursor)) BY <1>0, <1>2, AppendPartitions
  <2>3. cursor + (end - cursor) = end BY <1>0
  <2>4. DOMAIN Append(rs, e) = 1 .. Len(rs) + 1 /\ DOMAIN rs = 1 .. Len(rs) /\ Len(rs) \in Nat BY <1>0
  <2>5. (\A i \in DOMAIN rs : Append(rs, e)[i] = rs[i]) /\ Append(rs, e)[Len(rs) + 1] = e BY <1>0
  <2>6. e.guest = G0 OBVIOUS
  <2>. HIDE DEF e
  <2>7. ASSUME NEW left, Accounts(holes, rs, left) PROVE Accounts(holes, Append(rs, e), left)
    BY <2>4, <2>5, <2>6, <2>7 DEF Accounts
  <2>. QED BY <2>1, <2>2, <2>3, <2>7
<1>. QED BY <1>0, <1>1, <1>2

\* Claiming the next hole extends the partition to its end and accounts for it.
LEMMA HoleDoes ==
    ASSUME NEW rs, NEW left, left # << >>, Accounts(holes, rs, left), Partitions(rs, Head(left).hpa),
           ClaimRange(rs, Head(left).gid, Head(left).hpa, Head(left).len).ret = "Ok"
    PROVE  LET ss == ClaimRange(rs, Head(left).gid, Head(left).hpa, Head(left).len).rs
           IN  /\ Partitions(ss, Head(left).hpa + Head(left).len)
               /\ Accounts(holes, ss, Tail(left))
<1>. DEFINE h == Head(left)
            e == [guest |-> h.gid, gpa |-> h.hpa, len |-> h.len]
<1>1. rs \in Seq(EptRange) /\ left \in Seq(Hole) BY DEF Partitions, Accounts
<1>2. h \in Hole /\ Tail(left) \in Seq(Hole) /\ h = left[1] BY <1>1
<1>3. h.gid \in Nat /\ h.hpa \in Nat /\ h.len \in Nat BY <1>2 DEF Hole
<1>. HIDE DEF h
<1>4. h.len # 0 /\ ClaimRange(rs, h.gid, h.hpa, h.len).rs = Append(rs, e)
  BY DEF ClaimRange, h
<1>5. Partitions(Append(rs, e), h.hpa + h.len) BY <1>3, <1>4, AppendPartitions DEF h
<1>6. DOMAIN Append(rs, e) = 1 .. Len(rs) + 1 /\ DOMAIN rs = 1 .. Len(rs) /\ Len(rs) \in Nat BY <1>1
<1>7. (\A i \in DOMAIN rs : Append(rs, e)[i] = rs[i]) /\ Append(rs, e)[Len(rs) + 1] = e BY <1>1
<1>8. IsSpanOf(e, h) BY DEF IsSpanOf
<1>. HIDE DEF e
<1>9. Accounts(holes, Append(rs, e), Tail(left))
  <2>1. \A j \in DOMAIN Tail(left) : \E k \in DOMAIN holes : Tail(left)[j] = holes[k]
    <3>. SUFFICES ASSUME NEW j \in DOMAIN Tail(left) PROVE \E k \in DOMAIN holes : Tail(left)[j] = holes[k]
      OBVIOUS
    <3>1. Tail(left)[j] = left[j + 1] /\ j + 1 \in DOMAIN left BY <1>1
    <3>. QED BY <3>1 DEF Accounts
  <2>2. \E k \in DOMAIN holes : IsSpanOf(e, holes[k])
    <3>1. 1 \in DOMAIN left BY <1>1
    <3>. QED BY <1>2, <1>8, <3>1 DEF Accounts
  <2>3. \A i \in DOMAIN Append(rs, e) : \/ Append(rs, e)[i].guest = G0
                                        \/ \E k \in DOMAIN holes : IsSpanOf(Append(rs, e)[i], holes[k])
    BY <1>6, <1>7, <2>2 DEF Accounts
  <2>4. \A k \in DOMAIN holes : \/ \E j \in DOMAIN Tail(left) : Tail(left)[j] = holes[k]
                                \/ \E i \in DOMAIN Append(rs, e) : IsSpanOf(Append(rs, e)[i], holes[k])
    <3>. SUFFICES ASSUME NEW k \in DOMAIN holes
                  PROVE  \/ \E j \in DOMAIN Tail(left) : Tail(left)[j] = holes[k]
                         \/ \E i \in DOMAIN Append(rs, e) : IsSpanOf(Append(rs, e)[i], holes[k])
      OBVIOUS
    <3>1. CASE \E i \in DOMAIN rs : IsSpanOf(rs[i], holes[k]) BY <1>6, <1>7, <3>1
    <3>2. ASSUME NEW j \in DOMAIN left, left[j] = holes[k]
          PROVE  \/ \E jj \in DOMAIN Tail(left) : Tail(left)[jj] = holes[k]
                 \/ \E i \in DOMAIN Append(rs, e) : IsSpanOf(Append(rs, e)[i], holes[k])
      <4>1. CASE j = 1 BY <1>2, <1>6, <1>7, <1>8, <3>2, <4>1
      <4>2. CASE j # 1
        <5>1. j - 1 \in DOMAIN Tail(left) /\ Tail(left)[j - 1] = left[j] BY <1>1, <4>2
        <5>. QED BY <3>2, <5>1
      <4>. QED BY <4>1, <4>2
    <3>. QED BY <3>1, <3>2 DEF Accounts
  <2>. QED BY <1>2, <2>1, <2>3, <2>4 DEF Accounts
<1>. QED BY <1>4, <1>5, <1>9 DEF h

\* Every step of the claim keeps the partition and the account.
LEMMA ClaimIInvStep == ClaimIInv /\ [ClaimStep]_claimVars => ClaimIInv'
<1>. SUFFICES ASSUME ClaimIInv, [ClaimStep]_claimVars PROVE ClaimIInv' OBVIOUS
<1>1. CASE UNCHANGED claimVars
  BY <1>1 DEF claimVars, ClaimIInv, Accounts, WindowOwnedExactly
<1>2. CASE ClaimHole
  <2>. DEFINE h == Head(todo)
              gap == ClaimGap(ranges, h.hpa)
              own == ClaimRange(gap.rs, h.gid, h.hpa, h.len)
  <2>1. ret = "claiming" /\ ~ latch /\ todo # << >> /\ UNCHANGED holes
    BY <1>2 DEF ClaimHole, ClaimIInv, Fail
  <2>2. CASE BadHole(h) # "Ok" \/ gap.ret # "Ok" \/ own.ret # "Ok"
    <3>1. ret' # "claiming" /\ UNCHANGED latch
      <4>1. CASE BadHole(h) # "Ok" BY <1>2, <4>1 DEF ClaimHole, Fail, BadHole
      <4>2. CASE BadHole(h) = "Ok" /\ gap.ret # "Ok"
        <5>1. ret' = gap.ret /\ UNCHANGED latch BY <1>2, <4>2 DEF ClaimHole, Fail
        <5>. QED BY <5>1 DEF ClaimGap, ClaimRange
      <4>3. CASE BadHole(h) = "Ok" /\ gap.ret = "Ok" /\ own.ret # "Ok"
        <5>1. ret' = own.ret /\ UNCHANGED latch BY <1>2, <4>3, SMTT(30) DEF ClaimHole, Fail
        <5>. QED BY <5>1 DEF ClaimRange
      <4>. QED BY <2>2, <4>1, <4>2, <4>3
    <3>. QED BY <2>1, <3>1 DEF ClaimIInv, WindowOwnedExactly
  <2>3. CASE BadHole(h) = "Ok" /\ gap.ret = "Ok" /\ own.ret = "Ok"
    <3>1. /\ ranges' = own.rs /\ cursor' = h.hpa + h.len /\ todo' = Tail(todo)
          /\ UNCHANGED <<holes, ret, latch>>
      BY <1>2, <2>3 DEF ClaimHole
    <3>2. Partitions(ranges, cursor) /\ Accounts(holes, ranges, todo) BY <2>1 DEF ClaimIInv
    <3>3. h \in Hole /\ cursor \in Nat BY <2>1, <3>2 DEF Accounts, Partitions
    <3>4. h.hpa \in Nat /\ h.len \in Nat BY <3>3 DEF Hole
    <3>5. h.hpa >= cursor /\ h.hpa + h.len <= Precise
      BY <2>3, <3>3, <3>4, WindowAssumption DEF BadHole
    <3>6. Partitions(gap.rs, h.hpa) /\ Accounts(holes, gap.rs, todo) BY <2>3, <3>2, <3>4, <3>5, GapDoes
    <3>7. Partitions(own.rs, h.hpa + h.len) /\ Accounts(holes, own.rs, Tail(todo))
      BY <2>1, <2>3, <3>6, HoleDoes
    <3>. QED BY <2>1, <3>1, <3>5, <3>7 DEF ClaimIInv, WindowOwnedExactly
  <2>. QED BY <2>2, <2>3
<1>3. CASE ClaimRest
  <2>. DEFINE rest == ClaimGap(ranges, Precise)
  <2>1. /\ ret = "claiming" /\ todo = << >> /\ ranges' = rest.rs /\ holes' = holes
        /\ ret' = IF rest.ret = "Ok" /\ ~ FinalCheck(rest.rs) THEN "Invariant" ELSE rest.ret
        /\ latch' = (ret' = "Ok")
    BY <1>3 DEF ClaimRest
  <2>2. ret' # "claiming" BY <2>1 DEF ClaimGap, ClaimRange
  <2>3. WindowOwnedExactly'
    <3>1. CASE ~ latch' BY <3>1 DEF WindowOwnedExactly
    <3>2. CASE latch'
      <4>1. rest.ret = "Ok" BY <2>1, <3>2
      <4>2. Partitions(ranges, cursor) /\ cursor <= Precise /\ Accounts(holes, ranges, todo)
        BY <2>1 DEF ClaimIInv
      <4>3. Partitions(rest.rs, Precise) /\ Accounts(holes, rest.rs, todo)
        BY <4>1, <4>2, GapDoes, WindowAssumption DEF Partitions
      <4>4. OwnedExactly(holes, rest.rs) BY <2>1, <4>3, CoveredIsOwned DEF ClaimIInv
      <4>5. OwnedExactly(holes', ranges') BY <2>1, <4>4
      <4>. QED BY <4>5 DEF WindowOwnedExactly, OwnedExactly
    <3>. QED BY <3>1, <3>2
  <2>. QED BY <2>1, <2>2, <2>3 DEF ClaimIInv
<1>. QED BY <1>1, <1>2, <1>3 DEF ClaimStep

(* When the call succeeds and the latch is set, every byte of the window     *)
(* belongs to exactly one span of PRECISE_RANGES: that of its hole's guest,  *)
(* or of the bring-up guest outside the holes (claim_precise_with_shell_holes). *)
THEOREM WindowIsOwnedExactly == ClaimSpec => []WindowOwnedExactly
<1>1. ClaimIInv => WindowOwnedExactly BY DEF ClaimIInv
<1>. QED BY <1>1, ClaimIInvInit, ClaimIInvStep, PTL DEF ClaimSpec

-----------------------------------------------------------------------------
(* Well-formed holes are accepted *)

\* The addresses at which a span of the window may begin: Spans counts them.
Starts(hs) ==
    ({0} \cup {hs[i].hpa : i \in DOMAIN hs} \cup {hs[i].hpa + hs[i].len : i \in DOMAIN hs}) \ {Precise}

\* The registry has a slot left for a span that begins where none begins yet.
LEMMA RoomLeft ==
    ASSUME NEW hs \in Seq(Hole), Spans(hs) <= RangeCap,
           NEW rs, NEW c, Partitions(rs, c), c \in Starts(hs),
           \A i \in DOMAIN rs : rs[i].gpa \in Starts(hs)
    PROVE  Len(rs) < RangeCap
<1>. DEFINE D == DOMAIN hs
            S == Starts(hs)
            f == [i \in 1 .. Len(rs) |-> rs[i].gpa]
<1>1. IsFiniteSet(D)
  <2>1. D = 1 .. Len(hs) /\ Len(hs) \in Nat OBVIOUS
  <2>. QED BY <2>1, FS_Interval
<1>2. IsFiniteSet({hs[i].hpa : i \in D})
  <2>. DEFINE T == {hs[i].hpa : i \in D}
              g == [i \in D |-> hs[i].hpa]
  <2>1. g \in Surjection(D, T) BY DEF Surjection
  <2>. HIDE DEF g, T
  <2>2. IsFiniteSet(T) BY <1>1, <2>1, FS_Surjection
  <2>. QED BY <2>2 DEF T
<1>3. IsFiniteSet({hs[i].hpa + hs[i].len : i \in D})
  <2>. DEFINE T == {hs[i].hpa + hs[i].len : i \in D}
              g == [i \in D |-> hs[i].hpa + hs[i].len]
  <2>1. g \in Surjection(D, T) BY DEF Surjection
  <2>. HIDE DEF g, T
  <2>2. IsFiniteSet(T) BY <1>1, <2>1, FS_Surjection
  <2>. QED BY <2>2 DEF T
<1>4. IsFiniteSet(S) /\ Cardinality(S) = Spans(hs) /\ Cardinality(S) \in Nat
  <2>1. IsFiniteSet({0} \cup {hs[i].hpa : i \in D} \cup {hs[i].hpa + hs[i].len : i \in D})
    BY <1>2, <1>3, FS_Singleton, FS_Union
  <2>2. S \in SUBSET ({0} \cup {hs[i].hpa : i \in D} \cup {hs[i].hpa + hs[i].len : i \in D})
    BY DEF Starts
  <2>3. IsFiniteSet(S) BY <2>1, <2>2, FS_Subset
  <2>. QED BY <2>3, FS_CardinalityType DEF Spans, Starts
<1>5. rs \in Seq(EptRange) /\ DOMAIN rs = 1 .. Len(rs) /\ Len(rs) \in Nat BY DEF Partitions
<1>6. \A i \in 1 .. Len(rs) : rs[i].gpa \in Nat /\ rs[i].len \in Nat
  <2>. SUFFICES ASSUME NEW i \in 1 .. Len(rs) PROVE rs[i].gpa \in Nat /\ rs[i].len \in Nat OBVIOUS
  <2>1. rs[i] \in EptRange BY <1>5
  <2>. QED BY <2>1 DEF EptRange
<1>. HIDE DEF S
<1>7. f \in [1 .. Len(rs) -> S \ {c}]
  <2>. SUFFICES ASSUME NEW i \in 1 .. Len(rs) PROVE rs[i].gpa \in S /\ rs[i].gpa # c OBVIOUS
  <2>1. rs[i].gpa \in S BY <1>5 DEF S
  <2>2. rs[i].len > 0 /\ rs[i].gpa + rs[i].len <= c /\ c \in Nat BY <1>5 DEF Partitions
  <2>. QED BY <1>6, <2>1, <2>2
<1>8. \A i, j \in 1 .. Len(rs) : f[i] = f[j] => i = j
  <2>. SUFFICES ASSUME NEW i \in 1 .. Len(rs), NEW j \in 1 .. Len(rs), rs[i].gpa = rs[j].gpa, i # j
                PROVE  FALSE
    OBVIOUS
  <2>1. rs[i].len > 0 /\ rs[j].len > 0 BY <1>5 DEF Partitions
  <2>2. rs[i].gpa + rs[i].len <= rs[j].gpa \/ rs[j].gpa + rs[j].len <= rs[i].gpa
    BY <1>5 DEF Partitions
  <2>. QED BY <1>6, <2>1, <2>2
<1>. HIDE DEF f
<1>9. f \in Injection(1 .. Len(rs), S \ {c}) BY <1>7, <1>8 DEF Injection, IsInjective
<1>10. IsFiniteSet(S \ {c}) /\ Cardinality(S \ {c}) = Cardinality(S) - 1
  BY <1>4, FS_RemoveElement DEF S
<1>11. Cardinality(1 .. Len(rs)) = Len(rs) /\ IsFiniteSet(1 .. Len(rs))
  <2>. DEFINE n == Len(rs)
  <2>1. n \in Nat BY <1>5
  <2>. HIDE DEF n
  <2>2. Cardinality(1 .. n) = n /\ IsFiniteSet(1 .. n) BY <2>1, FS_Interval
  <2>. QED BY <2>2 DEF n
<1>12. Len(rs) <= Cardinality(S) - 1 BY <1>9, <1>10, <1>11, FS_Injection
<1>. QED BY <1>4, <1>5, <1>12, WindowAssumption

\* An aligned span at the end of the part already claimed is granted.
LEMMA ClaimGranted ==
    ASSUME NEW rs, NEW c, Partitions(rs, c), Len(rs) < RangeCap,
           NEW g \in Nat \ {0}, NEW n \in Nat \ {0}, ~ Misaligned(c), ~ Misaligned(n)
    PROVE  ClaimRange(rs, g, c, n) = [rs |-> Append(rs, [guest |-> g, gpa |-> c, len |-> n]), ret |-> "Ok"]
<1>1. ~ Overlaps(rs, c, n)
  <2>. SUFFICES ASSUME NEW i \in DOMAIN rs, c < rs[i].gpa + rs[i].len PROVE FALSE BY DEF Overlaps
  <2>1. rs[i] \in EptRange /\ rs[i].gpa + rs[i].len <= c /\ c \in Nat BY DEF Partitions
  <2>2. rs[i].gpa \in Nat /\ rs[i].len \in Nat BY <2>1 DEF EptRange
  <2>. QED BY <2>1, <2>2
<1>2. Len(rs) # RangeCap BY WindowAssumption
<1>. QED BY <1>1, <1>2 DEF ClaimRange

\* The call's argument is one it must accept.
ListFits == WellFormed(holes) /\ Len(holes) <= HoleCap /\ Spans(holes) <= RangeCap

\* The holes still to be claimed: in order, disjoint and beyond the cursor.
Ahead(left, c) ==
    /\ \A j \in DOMAIN left : c <= left[j].hpa
    /\ \A i, j \in DOMAIN left : i < j => left[i].hpa + left[i].len <= left[j].hpa

\* While the holes of such a call are claimed, none has failed: the next hole
\* is ahead of the cursor and every span begins at an address of its own.
OnTrack(hs, left, c, rs) ==
    /\ Ahead(left, c)
    /\ c = 0 \/ \E k \in DOMAIN hs : c = hs[k].hpa + hs[k].len
    /\ \A i \in DOMAIN rs : rs[i].gpa \in Starts(hs)

AcceptIInv ==
    /\ ClaimIInv
    /\ ListFits => /\ ret \in {"claiming", "Ok"}
                   /\ ret = "claiming" => OnTrack(holes, todo, cursor, ranges)

\* Sorted disjoint holes follow one another.
LEMMA OrderedIsAhead ==
    ASSUME NEW hs \in Seq(Hole), WellFormed(hs)
    PROVE  Ahead(Ordered(hs), 0)
<1>1. \A k \in DOMAIN hs : hs[k].hpa \in Nat /\ hs[k].len \in Nat
  <2>. SUFFICES ASSUME NEW k \in DOMAIN hs PROVE hs[k].hpa \in Nat /\ hs[k].len \in Nat OBVIOUS
  <2>1. hs[k] \in Hole OBVIOUS
  <2>. QED BY <2>1 DEF Hole
<1>2. \A j \in DOMAIN Ordered(hs) : 0 <= Ordered(hs)[j].hpa
  <2>. SUFFICES ASSUME NEW j \in DOMAIN Ordered(hs) PROVE 0 <= Ordered(hs)[j].hpa OBVIOUS
  <2>1. PICK k \in DOMAIN hs : Ordered(hs)[j] = hs[k] BY OrderedSorts
  <2>. QED BY <1>1, <2>1
<1>3. ASSUME NEW i \in DOMAIN Ordered(hs), NEW j \in DOMAIN Ordered(hs), i < j
      PROVE  Ordered(hs)[i].hpa + Ordered(hs)[i].len <= Ordered(hs)[j].hpa
  <2>1. PICK k \in DOMAIN hs, l \in DOMAIN hs :
            Before(hs, k, l) /\ Ordered(hs)[i] = hs[k] /\ Ordered(hs)[j] = hs[l]
    BY <1>3, OrderedSorts
  <2>. DEFINE a == hs[l].hpa
  <2>2. k # l /\ hs[k].hpa <= a
    <3>1. k \in Nat /\ l \in Nat OBVIOUS
    <3>. QED BY <1>1, <2>1, <3>1 DEF Before
  <2>3. hs[l].len > 0 /\ hs[l].hpa + hs[l].len <= Precise BY DEF WellFormed
  <2>4. InHole(hs[l], a) /\ a \in 0 .. Precise BY <1>1, <2>3, WindowAssumption DEF InHole
  <2>5. ~ InHole(hs[k], a) BY <2>2, <2>4 DEF WellFormed
  <2>6. hs[k].hpa + hs[k].len <= a BY <1>1, <2>2, <2>5 DEF InHole
  <2>. QED BY <2>1, <2>6
<1>. QED BY <1>2, <1>3 DEF Ahead

\* With well-formed holes, claiming begins on track.
LEMMA AcceptIInvInit == ClaimInit => AcceptIInv
<1>. SUFFICES ASSUME ClaimInit PROVE AcceptIInv OBVIOUS
<1>1. ClaimIInv BY ClaimIInvInit
<1>2. ASSUME ListFits PROVE ret = "claiming" /\ OnTrack(holes, todo, cursor, ranges)
  <2>1. Len(holes) \in Nat /\ ~ (Len(holes) > HoleCap)
    BY <1>1, <1>2, WindowAssumption DEF ListFits, ClaimIInv
  <2>2. ret = "claiming" /\ todo = Ordered(holes) /\ cursor = 0 /\ ranges = << >>
    BY <2>1 DEF ClaimInit
  <2>3. Ahead(Ordered(holes), 0) BY <1>1, <1>2, OrderedIsAhead DEF ClaimIInv, ListFits
  <2>. QED BY <2>2, <2>3 DEF OnTrack
<1>. QED BY <1>1, <1>2 DEF AcceptIInv

\* A span granted at c keeps every span at an address of its own.
LEMMA StartsAppend ==
    ASSUME NEW hs, NEW rs \in Seq(EptRange), NEW e, e.gpa \in Starts(hs),
           \A i \in DOMAIN rs : rs[i].gpa \in Starts(hs)
    PROVE  \A i \in DOMAIN Append(rs, e) : Append(rs, e)[i].gpa \in Starts(hs)
<1>1. DOMAIN Append(rs, e) = 1 .. Len(rs) + 1 /\ DOMAIN rs = 1 .. Len(rs) /\ Len(rs) \in Nat OBVIOUS
<1>2. (\A i \in DOMAIN rs : Append(rs, e)[i] = rs[i]) /\ Append(rs, e)[Len(rs) + 1] = e OBVIOUS
<1>3. ASSUME NEW i \in DOMAIN Append(rs, e) PROVE Append(rs, e)[i].gpa \in Starts(hs)
  <2>1. CASE i \in DOMAIN rs BY <1>2, <2>1
  <2>2. CASE i = Len(rs) + 1 BY <1>2, <2>2
  <2>. QED BY <1>1, <2>1, <2>2
<1>. QED BY <1>3

\* The numbers of a well-formed list of holes.
LEMMA HoleNumbers ==
    ASSUME NEW hs \in Seq(Hole), WellFormed(hs), NEW k \in DOMAIN hs
    PROVE  /\ hs[k].hpa \in Nat /\ hs[k].len \in Nat \ {0} /\ hs[k].gid \in Nat \ {0, G0}
           /\ ~ Misaligned(hs[k].hpa) /\ ~ Misaligned(hs[k].len)
           /\ ~ Misaligned(hs[k].hpa + hs[k].len)
           /\ GuestRam <= hs[k].hpa /\ hs[k].hpa + hs[k].len <= Precise
           /\ hs[k].hpa \in Starts(hs)
<1>1. hs[k] \in Hole OBVIOUS
<1>2. hs[k].hpa \in Nat /\ hs[k].len \in Nat /\ hs[k].gid \in Nat BY <1>1 DEF Hole
<1>3. /\ hs[k].len > 0 /\ hs[k].gid \notin {0, G0}
      /\ ~ Misaligned(hs[k].hpa) /\ ~ Misaligned(hs[k].len)
      /\ GuestRam <= hs[k].hpa /\ hs[k].hpa + hs[k].len <= Precise
  BY DEF WellFormed
<1>4. ~ Misaligned(hs[k].hpa + hs[k].len)
  BY <1>2, <1>3, MultiplesClosed, RegistryAssumption DEF Misaligned
<1>5. hs[k].hpa \in Starts(hs) BY <1>2, <1>3, WindowAssumption DEF Starts
<1>. QED BY <1>2, <1>3, <1>4, <1>5

\* The gap up to an aligned address is granted to the bring-up guest.
LEMMA GapGranted ==
    ASSUME NEW hs \in Seq(Hole), WellFormed(hs), Spans(hs) <= RangeCap,
           NEW rs, NEW left, Partitions(rs, cursor), OnTrack(hs, left, cursor, rs),
           NEW end \in Nat, cursor <= end, end <= Precise, ~ Misaligned(end)
    PROVE  /\ ClaimGap(rs, end).ret = "Ok"
           /\ \A i \in DOMAIN ClaimGap(rs, end).rs : ClaimGap(rs, end).rs[i].gpa \in Starts(hs)
<1>1. cursor \in Nat /\ rs \in Seq(EptRange) /\ G0 \in Nat \ {0} BY WindowAssumption DEF Partitions
<1>2. CASE end = cursor BY <1>1, <1>2 DEF ClaimGap, OnTrack
<1>3. CASE end > cursor
  <2>1. ~ Misaligned(cursor) /\ cursor \in Starts(hs)
    <3>1. CASE cursor = 0
      <4>1. 0 % PageBytes = 0 BY RegistryAssumption
      <4>2. 0 # Precise BY WindowAssumption
      <4>. QED BY <3>1, <4>1, <4>2 DEF Misaligned, Starts
    <3>2. ASSUME NEW k \in DOMAIN hs, cursor = hs[k].hpa + hs[k].len
          PROVE  ~ Misaligned(cursor) /\ cursor \in Starts(hs)
      <4>1. cursor # Precise BY <1>1, <1>3, WindowAssumption
      <4>. QED BY <3>2, <4>1, HoleNumbers DEF Starts
    <3>. QED BY <3>1, <3>2 DEF OnTrack
  <2>2. end - cursor \in Nat \ {0} /\ ~ Misaligned(end - cursor)
    <3>1. PageBytes \in Nat \ {0} /\ end % PageBytes = 0 /\ cursor % PageBytes = 0
      BY <2>1, RegistryAssumption DEF Misaligned
    <3>2. (end - cursor) % PageBytes = 0 BY <1>1, <3>1, MultiplesClosed
    <3>3. end - cursor \in Nat \ {0} BY <1>1, <1>3
    <3>. QED BY <3>2, <3>3 DEF Misaligned
  <2>3. Len(rs) < RangeCap BY <2>1, RoomLeft DEF OnTrack
  <2>. DEFINE e == [guest |-> G0, gpa |-> cursor, len |-> end - cursor]
  <2>4. ClaimGap(rs, end) = [rs |-> Append(rs, e), ret |-> "Ok"]
    BY <1>1, <1>3, <2>1, <2>2, <2>3, ClaimGranted DEF ClaimGap
  <2>5. e.gpa = cursor OBVIOUS
  <2>. HIDE DEF e
  <2>6. \A i \in DOMAIN Append(rs, e) : Append(rs, e)[i].gpa \in Starts(hs)
    BY <1>1, <2>1, <2>5, StartsAppend DEF OnTrack
  <2>. QED BY <2>4, <2>6
<1>. QED BY <1>1, <1>2, <1>3

\* The look-ups made before the latch is set succeed on exact ownership.
LEMMA FinalCheckHolds ==
    ASSUME NEW rs \in Seq(EptRange), OwnedExactly(holes, rs), holes \in Seq(Hole), WellFormed(holes)
    PROVE  FinalCheck(rs)
<1>1. Precise \in Nat /\ GuestRam \in Nat /\ PageBytes \in Nat \ {0} /\ G0 \in Nat
  BY WindowAssumption, RegistryAssumption
<1>2. GuestRam <= Precise /\ GuestRam >= PageBytes
  BY <1>1, MultipleIs, WindowAssumption
<1>3. ASSUME NEW a \in 0 .. Precise - 1, a < GuestRam PROVE ContainsGpa(rs, G0, a)
  <2>1. ~ \E k \in DOMAIN holes : InHole(holes[k], a)
    <3>. SUFFICES ASSUME NEW k \in DOMAIN holes PROVE ~ InHole(holes[k], a) OBVIOUS
    <3>. QED BY <1>1, <1>3, HoleNumbers DEF InHole
  <2>2. PICK i \in DOMAIN rs : rs[i].gpa <= a /\ a < rs[i].gpa + rs[i].len /\ rs[i].guest = G0
    BY <2>1 DEF OwnedExactly
  <2>. QED BY <2>2 DEF ContainsGpa
<1>4. ASSUME NEW k \in DOMAIN holes
      PROVE  ContainsGpa(rs, holes[k].gid, holes[k].hpa) /\ ~ ContainsGpa(rs, G0, holes[k].hpa)
  <2>. DEFINE a == holes[k].hpa
  <2>1. a \in 0 .. Precise - 1 /\ InHole(holes[k], a) BY <1>1, HoleNumbers DEF InHole
  <2>2. PICK i \in DOMAIN rs :
            /\ rs[i].gpa <= a /\ a < rs[i].gpa + rs[i].len
            /\ \E l \in DOMAIN holes : InHole(holes[l], a) /\ holes[l].gid = rs[i].guest
            /\ \A j \in DOMAIN rs : j # i => a < rs[j].gpa \/ rs[j].gpa + rs[j].len <= a
    BY <2>1 DEF OwnedExactly
  <2>3. holes[k].gid = rs[i].guest
    <3>1. PICK l \in DOMAIN holes : InHole(holes[l], a) /\ holes[l].gid = rs[i].guest BY <2>2
    <3>2. a \in 0 .. Precise BY <1>1, <2>1
    <3>3. l = k BY <2>1, <3>1, <3>2 DEF WellFormed
    <3>. QED BY <3>1, <3>3
  <2>4. rs[i].guest # G0 BY <2>3, HoleNumbers
  <2>5. ContainsGpa(rs, holes[k].gid, a) BY <2>2, <2>3 DEF ContainsGpa
  <2>6. ~ ContainsGpa(rs, G0, a)
    <3>. SUFFICES ASSUME NEW j \in DOMAIN rs, rs[j].guest = G0, a >= rs[j].gpa, a < rs[j].gpa + rs[j].len
                  PROVE  FALSE
      BY DEF ContainsGpa
    <3>1. j = i
      <4>1. rs[j] \in EptRange OBVIOUS
      <4>2. rs[j].gpa \in Nat /\ rs[j].len \in Nat /\ a \in Nat BY <1>1, <2>1, <4>1 DEF EptRange
      <4>. QED BY <2>2, <4>2
    <3>. QED BY <2>4, <3>1
  <2>. QED BY <2>5, <2>6
<1>5. ContainsGpa(rs, G0, 0) /\ ContainsGpa(rs, G0, GuestRam - PageBytes) BY <1>1, <1>2, <1>3
<1>. QED BY <1>4, <1>5 DEF FinalCheck

\* On track, the next hole or the last gap is granted.
LEMMA AcceptIInvStep == AcceptIInv /\ [ClaimStep]_claimVars => AcceptIInv'
<1>. SUFFICES ASSUME AcceptIInv, [ClaimStep]_claimVars PROVE AcceptIInv' OBVIOUS
<1>1. ClaimIInv' BY ClaimIInvStep DEF AcceptIInv
<1>2. CASE UNCHANGED claimVars
  BY <1>1, <1>2 DEF claimVars, AcceptIInv, ListFits, OnTrack
<1>3. UNCHANGED holes BY DEF ClaimStep, ClaimHole, ClaimRest, Fail, claimVars
<1>4. SUFFICES ASSUME ListFits, ClaimStep
               PROVE  ret' \in {"claiming", "Ok"} /\ (ret' = "claiming" => OnTrack(holes, todo', cursor', ranges'))
  BY <1>1, <1>2, <1>3 DEF AcceptIInv, ListFits
<1>5. /\ holes \in Seq(Hole) /\ WellFormed(holes) /\ Spans(holes) <= RangeCap
      /\ ret = "claiming" /\ Partitions(ranges, cursor) /\ cursor <= Precise
      /\ Accounts(holes, ranges, todo) /\ OnTrack(holes, todo, cursor, ranges)
  BY <1>4 DEF AcceptIInv, ClaimIInv, ListFits, ClaimStep, ClaimHole, ClaimRest
<1>6. cursor \in Nat /\ ranges \in Seq(EptRange) /\ todo \in Seq(Hole) /\ Precise \in Nat
  BY <1>5, WindowAssumption DEF Partitions, Accounts
<1>7. CASE ClaimHole
  <2>. DEFINE h == Head(todo)
              gap == ClaimGap(ranges, h.hpa)
              own == ClaimRange(gap.rs, h.gid, h.hpa, h.len)
              e == [guest |-> h.gid, gpa |-> h.hpa, len |-> h.len]
  <2>1. todo # << >> /\ h = todo[1] /\ 1 \in DOMAIN todo BY <1>6, <1>7 DEF ClaimHole
  <2>2. PICK k \in DOMAIN holes : h = holes[k] BY <1>5, <2>1 DEF Accounts
  <2>3. /\ h.hpa \in Nat /\ h.len \in Nat \ {0} /\ h.gid \in Nat \ {0, G0}
        /\ ~ Misaligned(h.hpa) /\ ~ Misaligned(h.len)
        /\ GuestRam <= h.hpa /\ h.hpa + h.len <= Precise /\ h.hpa \in Starts(holes)
    BY <1>5, <2>2, HoleNumbers
  <2>4. cursor <= h.hpa /\ h.hpa <= Precise BY <1>5, <1>6, <2>1, <2>3 DEF OnTrack, Ahead
  <2>5. BadHole(h) = "Ok" BY <1>6, <2>3, <2>4, WindowAssumption DEF BadHole
  <2>6. gap.ret = "Ok" /\ \A i \in DOMAIN gap.rs : gap.rs[i].gpa \in Starts(holes)
    BY <1>5, <2>3, <2>4, GapGranted
  <2>7. Partitions(gap.rs, h.hpa) BY <1>5, <2>3, <2>4, <2>6, GapDoes
  <2>. HIDE DEF gap, h
  <2>8. Len(gap.rs) < RangeCap BY <1>5, <2>3, <2>6, <2>7, RoomLeft
  <2>9. own = [rs |-> Append(gap.rs, e), ret |-> "Ok"] BY <2>3, <2>7, <2>8, ClaimGranted
  <2>10. /\ ranges' = own.rs /\ cursor' = h.hpa + h.len /\ todo' = Tail(todo) /\ ret' = ret
    BY <1>7, <2>5, <2>6, <2>9 DEF ClaimHole, gap, h
  <2>11. e.gpa \in Starts(holes) /\ gap.rs \in Seq(EptRange) BY <2>3, <2>7 DEF Partitions
  <2>. HIDE DEF e
  <2>12. \A i \in DOMAIN Append(gap.rs, e) : Append(gap.rs, e)[i].gpa \in Starts(holes)
    BY <2>6, <2>11, StartsAppend
  <2>13. Ahead(Tail(todo), h.hpa + h.len)
    <3>1. \A j \in DOMAIN Tail(todo) : j + 1 \in DOMAIN todo /\ Tail(todo)[j] = todo[j + 1] /\ j \in Nat \ {0}
      BY <1>6, <2>1
    <3>2. \A j \in DOMAIN Tail(todo) : h.hpa + h.len <= Tail(todo)[j].hpa
      BY <1>5, <2>1, <3>1 DEF OnTrack, Ahead
    <3>3. \A i, j \in DOMAIN Tail(todo) : i < j => Tail(todo)[i].hpa + Tail(todo)[i].len <= Tail(todo)[j].hpa
      BY <1>5, <3>1 DEF OnTrack, Ahead
    <3>. QED BY <3>2, <3>3 DEF Ahead
  <2>14. OnTrack(holes, Tail(todo), h.hpa + h.len, Append(gap.rs, e))
    BY <2>2, <2>12, <2>13 DEF OnTrack
  <2>. QED BY <1>5, <2>9, <2>10, <2>14
<1>8. CASE ClaimRest
  <2>. DEFINE rest == ClaimGap(ranges, Precise)
  <2>1. /\ todo = << >>
        /\ ret' = IF rest.ret = "Ok" /\ ~ FinalCheck(rest.rs) THEN "Invariant" ELSE rest.ret
    BY <1>8 DEF ClaimRest
  <2>2. ~ Misaligned(Precise) /\ Precise <= Precise BY WindowAssumption DEF Misaligned
  <2>3. rest.ret = "Ok" BY <1>5, <1>6, <2>2, GapGranted
  <2>4. Partitions(rest.rs, Precise) /\ Accounts(holes, rest.rs, << >>)
    BY <1>5, <1>6, <2>1, <2>3, GapDoes
  <2>. HIDE DEF rest
  <2>5. FinalCheck(rest.rs) BY <1>5, <2>4, CoveredIsOwned, FinalCheckHolds DEF Partitions
  <2>. QED BY <2>1, <2>3, <2>5
<1>. QED BY <1>4, <1>7, <1>8 DEF ClaimStep

(* Aligned, disjoint holes inside the window are never refused, in whatever  *)
(* order the call lists them, as long as their spans fit the registry        *)
(* (claim_precise_with_shell_holes).                                         *)
THEOREM WellFormedIsAccepted == ClaimSpec => []WellFormedAccepted
<1>1. AcceptIInv => WellFormedAccepted BY DEF AcceptIInv, WellFormedAccepted, ListFits, ClaimErrors
<1>. QED BY <1>1, AcceptIInvInit, AcceptIInvStep, PTL DEF ClaimSpec
=============================================================================
