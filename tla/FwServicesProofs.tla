-------------------------- MODULE FwServicesProofs --------------------------
(***************************************************************************)
(* The RayNu-F page pool and the services above it, for every size of the  *)
(* regions and any number of spans, calls and images: the pool hands out   *)
(* and takes back exactly what was named, and pages have one holder.       *)
(***************************************************************************)
EXTENDS FwServices, NaturalsInduction, WellFoundedInduction, SequenceTheorems, TLAPS

\* A non-empty set of naturals has a least element: a loop over an array that
\* stops at the first match stops whenever a match exists.
LEMMA LeastNatural ==
    ASSUME NEW S \in SUBSET Nat, S # {}
    PROVE  \E x \in S : \A y \in S : x <= y
<1>. DEFINE R == OpToRel(<, Nat)
<1>1. IsWellFoundedOn(R, Nat) BY NatLessThanWellFounded
<1>. HIDE DEF R
<1>2. \E x \in S : \A y \in S : ~ (<<y, x>> \in R) BY <1>1, WFMin
<1>3. \A x, y \in Nat : (y < x) => <<y, x>> \in R BY DEF R, OpToRel
<1>4. PICK x \in S : \A y \in S : ~ (<<y, x>> \in R) BY <1>2
<1>5. \A y \in S : ~ (y < x) BY <1>3, <1>4
<1>6. \A y \in S : x <= y BY <1>5
<1>. QED BY <1>6

-----------------------------------------------------------------------------
(* Layout *)

\* set_high_region: the bitmap takes the first pages, and all of them are in use
\* when there is a tail.
LEMMA Layout ==
    ASSUME mapped \in 0 .. MaxMapped
    PROVE  /\ high \in Nat /\ tail \in Nat /\ high <= HighMax
           /\ Below \in Nat /\ Low \in Nat /\ HighMax \in Nat
           /\ BelowBase = 1 /\ OneMeg = Below + 2 /\ LowBase = Below + 3
           /\ HighBase = Below + Low + 4 /\ TailBase = HighBase + high
           /\ Limit = HighBase + MaxMapped + 1 /\ high + tail <= MaxMapped
           /\ MaxMapped \in Nat
<1>. USE SizesAreNat
<1>1. \E x \in {mapped, HighMax} : \A y \in {mapped, HighMax} : x <= y BY SMT
<1>2. high \in {mapped, HighMax} /\ high <= mapped /\ high <= HighMax BY <1>1 DEF high, Min
<1>. QED BY <1>2 DEF tail, TailBase, HighBase, LowBase, OneMeg, BelowBase, Limit

\* What lies where.
LEMMA Pages ==
    ASSUME mapped \in 0 .. MaxMapped
    PROVE  /\ \A p : p \in BelowPages <=> p \in Int /\ 1 <= p /\ p <= Below
           /\ \A p : p \in LowPages <=> p \in Int /\ LowBase <= p /\ p < LowBase + Low
           /\ \A p : p \in HighPages <=> p \in Int /\ HighBase <= p /\ p < TailBase
           /\ \A p : p \in TailPages <=> p \in Int /\ TailBase <= p /\ p < TailBase + tail
BY Layout DEF BelowPages, LowPages, HighPages, TailPages, Run

InRegions == UNION Regions

\* No page of a region is in the tail, the bitmap has a bit for each, and none is 0.
LEMMA RegionPages ==
    ASSUME mapped \in 0 .. MaxMapped
    PROVE  /\ InRegions \subseteq Bitmap /\ InRegions \cap TailPages = {}
           /\ Managed \subseteq Nat \ {0} /\ Managed = InRegions \cup TailPages
           /\ InRegions = BelowPages \cup LowPages \cup HighPages
<1>1. /\ BelowPages \subseteq Nat \ {0} /\ LowPages \subseteq Nat \ {0}
      /\ HighPages \subseteq Nat \ {0} /\ TailPages \subseteq Nat \ {0}
  BY Layout, Pages
<1>2. /\ BelowPages \cap TailPages = {} /\ LowPages \cap TailPages = {}
      /\ HighPages \cap TailPages = {}
  BY Layout, Pages
<1>3. HighPages \subseteq Run(HighBase, HighMax) BY Layout DEF HighPages, Run
<1>4. InRegions = BelowPages \cup LowPages \cup HighPages BY DEF Regions, InRegions
<1>5. InRegions \subseteq Bitmap BY <1>3, <1>4 DEF Bitmap
<1>6. InRegions \cap TailPages = {} BY <1>2, <1>4
<1>7. Managed = InRegions \cup TailPages BY DEF Managed, InRegions
<1>8. Managed \subseteq Nat \ {0} BY <1>1, <1>4, <1>7
<1>. QED BY <1>4, <1>5, <1>6, <1>7, <1>8

\* The least of a non-empty set of numbers is one of them.
LEMMA MinIs ==
    ASSUME NEW S \in SUBSET Nat, S # {}
    PROVE  Min(S) \in S
<1>1. \E x \in S : \A y \in S : x <= y BY LeastNatural
<1>. QED BY <1>1 DEF Min

\* Two equal runs that are not empty start and end together.
LEMMA RunEqual ==
    ASSUME NEW a \in Int, NEW b \in Int, NEW n \in Nat \ {0}, NEW m \in Nat \ {0},
           Run(a, n) = Run(b, m)
    PROVE  a = b /\ n = m
<1>1. a \in Run(b, m) /\ b \in Run(a, n) BY DEF Run
<1>2. a + n - 1 \in Run(b, m) /\ b + m - 1 \in Run(a, n) BY DEF Run
<1>. QED BY <1>1, <1>2 DEF Run

-----------------------------------------------------------------------------
(* The pool *)

Span == [start : Nat, pages : Nat \ {0}, typ : Types]

\* Every bitmap page is free or typed, the spans lie in the tail and do not overlap.
PoolGood(pp) ==
    /\ pp = [use |-> pp.use, spans |-> pp.spans]
    /\ pp.use \in [Bitmap -> Types \cup {"free"}]
    /\ \A s \in pp.spans : s \in Span /\ SpanPages(s) \subseteq TailPages
    /\ \A s, t \in pp.spans : s = t \/ SpanPages(s) \cap SpanPages(t) = {}

\* PageType of a pool.
TypeIn(pp, p) ==
    IF p \notin TailPages THEN pp.use[p]
    ELSE IF \E s \in pp.spans : p \in SpanPages(s)
         THEN (CHOOSE s \in pp.spans : p \in SpanPages(s)).typ
         ELSE "free"

\* A run the pool can hand out: inside a region, inside the tail, or from the end of
\* the bitmap into the tail.
Shape(a, n) ==
    /\ a \in Nat /\ n \in Nat \ {0}
    /\ \/ \E r \in Regions : Run(a, n) \subseteq r
       \/ Run(a, n) \subseteq TailPages
       \/ a \in HighPages /\ a + n > TailBase /\ a + n <= TailBase + tail

\* A run is allocated whole: its bitmap pages are in use, and its pages in the tail
\* are those of one span.
Holds(pp, a, n) ==
    /\ Shape(a, n)
    /\ \A p \in Run(a, n) \ TailPages : pp.use[p] # "free"
    /\ Run(a, n) \cap TailPages # {} =>
          \E s \in pp.spans : SpanPages(s) = Run(a, n) \cap TailPages

\* What allocate_pages may answer.
Granted(pp, r, n) ==
    /\ Shape(r.addr, n)
    /\ r.bits = Run(r.addr, n) \ TailPages /\ AllFree(pp, r.bits)
    /\ \A s \in pp.spans : SpanPages(s) \cap Run(r.addr, n) = {}
    /\ \/ r.span = {} /\ Run(r.addr, n) \cap TailPages = {}
       \/ \E x \in [start : Nat, pages : Nat \ {0}] :
             r.span = {x} /\ SpanPages(x) = Run(r.addr, n) \cap TailPages

\* The managed pages of a run of such a shape, and where it meets the tail.
LEMMA ShapeIs ==
    ASSUME mapped \in 0 .. MaxMapped, NEW a, NEW n, Shape(a, n)
    PROVE  /\ Run(a, n) \subseteq Managed /\ a \in Nat \ {0} /\ a \in Run(a, n)
           /\ \/ (\E r \in Regions : Run(a, n) \subseteq r) /\ Run(a, n) \cap TailPages = {}
              \/ Run(a, n) \subseteq TailPages /\ a \notin InRegions
              \/ /\ a \in HighPages /\ a + n > TailBase /\ a + n <= TailBase + tail
                 /\ Run(a, n) \cap TailPages = Run(TailBase, a + n - TailBase)
                 /\ Run(a, n) \ TailPages = a .. TailBase - 1
                 /\ a .. TailBase - 1 \subseteq HighPages
<1>1. a \in Nat /\ n \in Nat \ {0} /\ a \in Run(a, n) BY DEF Shape, Run
<1>2. CASE \E r \in Regions : Run(a, n) \subseteq r
  <2>1. Run(a, n) \subseteq InRegions BY <1>2 DEF InRegions
  <2>2. Run(a, n) \subseteq Managed /\ Run(a, n) \cap TailPages = {} BY <2>1, RegionPages
  <2>3. a \in Nat \ {0} BY <1>1, <2>2, RegionPages
  <2>. QED BY <1>1, <1>2, <2>2, <2>3
<1>3. CASE Run(a, n) \subseteq TailPages
  <2>1. Run(a, n) \subseteq Managed /\ a \notin InRegions BY <1>1, <1>3, RegionPages
  <2>2. a \in Nat \ {0} BY <1>1, <2>1, RegionPages
  <2>. QED BY <1>1, <1>3, <2>1, <2>2
<1>4. CASE a \in HighPages /\ a + n > TailBase /\ a + n <= TailBase + tail
  <2>1. /\ Run(a, n) \cap TailPages = Run(TailBase, a + n - TailBase)
        /\ Run(a, n) \ TailPages = a .. TailBase - 1
        /\ a .. TailBase - 1 \subseteq HighPages
    BY <1>1, <1>4, Layout, Pages DEF Run
  <2>2. HighPages \subseteq Managed /\ TailPages \subseteq Managed BY RegionPages
  <2>3. Run(a, n) \subseteq Managed BY <2>1, <2>2
  <2>4. a \in Nat \ {0} BY <1>1, <2>3, RegionPages
  <2>. QED BY <1>1, <1>4, <2>1, <2>3, <2>4
<1>. QED BY <1>1, <1>2, <1>3, <1>4 DEF Shape

-----------------------------------------------------------------------------
(* allocate_pages *)

\* A run of free pages of a region, taken from the bitmap.
LEMMA BitmapGrant ==
    ASSUME mapped \in 0 .. MaxMapped, NEW pp, PoolGood(pp), NEW a \in Nat, NEW n \in Nat \ {0},
           NEW reg \in Regions, Run(a, n) \subseteq reg, AllFree(pp, Run(a, n))
    PROVE  Granted(pp, InBitmap(a, n), n)
<1>. DEFINE r == InBitmap(a, n)
<1>1. r.addr = a /\ r.bits = Run(a, n) /\ r.span = {} BY DEF InBitmap, Take
<1>2. Shape(a, n) BY DEF Shape
<1>3. Run(a, n) \subseteq InRegions BY DEF InRegions
<1>4. Run(a, n) \cap TailPages = {} BY <1>3, RegionPages
<1>. HIDE DEF r
<1>5. \A s \in pp.spans : SpanPages(s) \cap Run(a, n) = {} BY <1>4 DEF PoolGood
<1>6. Run(a, n) \ TailPages = Run(a, n) BY <1>4
<1>. QED BY <1>1, <1>2, <1>4, <1>5, <1>6 DEF Granted, r

\* A run of the tail that no span meets.
LEMMA TailGrant ==
    ASSUME mapped \in 0 .. MaxMapped, NEW pp, PoolGood(pp), NEW a \in Nat, NEW n \in Nat \ {0},
           Run(a, n) \subseteq TailPages, ~TailBusy(pp, a, n)
    PROVE  Granted(pp, InTail(a, n), n)
<1>. DEFINE r == InTail(a, n)
            x == [start |-> a - TailBase, pages |-> n]
<1>1. r.addr = a /\ r.bits = {} /\ r.span = {x} BY DEF InTail, Take
<1>2. Shape(a, n) BY DEF Shape
<1>3. a \in TailPages BY DEF Run
<1>4. TailBase \in Nat /\ a - TailBase \in Nat BY <1>3, Layout, Pages
<1>5. x \in [start : Nat, pages : Nat \ {0}] BY <1>4
<1>6. x.start = a - TailBase /\ x.pages = n OBVIOUS
<1>. HIDE DEF r, x
<1>7. TailBase + x.start = a BY <1>4, <1>6
<1>8. SpanPages(x) = Run(a, n) BY <1>6, <1>7 DEF SpanPages
<1>9. \A s \in pp.spans : SpanPages(s) \cap Run(a, n) = {} BY DEF TailBusy
<1>10. Run(a, n) \ TailPages = {} /\ Run(a, n) \cap TailPages = Run(a, n) OBVIOUS
<1>. QED BY <1>1, <1>2, <1>5, <1>8, <1>9, <1>10 DEF Granted, r, AllFree

\* allocate_across_tail: a run from the bitmap into the tail.
LEMMA AcrossGrant ==
    ASSUME mapped \in 0 .. MaxMapped, NEW pp, PoolGood(pp), NEW a \in Nat, NEW n \in Nat \ {0},
           a \in HighPages, ~(Run(a, n) \subseteq HighPages), NEW r, r = AcrossTail(pp, a, n),
           r.st = "ok"
    PROVE  Granted(pp, r, n) /\ r.addr = a
<1>. DEFINE k == a + n - TailBase
            x == [start |-> 0, pages |-> k]
<1>1. a < TailBase /\ TailBase \in Nat /\ tail \in Nat /\ high \in Nat BY Layout, Pages
<1>2. k > 0
  <2>1. PICK p \in Run(a, n) : p \notin HighPages OBVIOUS
  <2>2. p >= a /\ p < a + n /\ p \in Int BY <2>1 DEF Run
  <2>3. a >= HighBase BY Pages
  <2>4. p >= TailBase BY <2>1, <2>2, <2>3, Layout, Pages
  <2>. QED BY <2>2, <2>4, <1>1
<1>3. /\ ~(k > tail) /\ AllFree(pp, a .. TailBase - 1) /\ ~TailBusy(pp, TailBase, k)
      /\ r = Take(a, a .. TailBase - 1, {x})
  <2>1. (\A st : Refuse(st).st = st) /\ "not_found" # "ok" /\ "out_of_resources" # "ok"
    BY DEF Refuse
  <2>. QED BY <2>1 DEF AcrossTail
<1>4. r.addr = a /\ r.bits = a .. TailBase - 1 /\ r.span = {x} BY <1>3 DEF Take
<1>5. k \in Nat \ {0} BY <1>1, <1>2
<1>6. Shape(a, n) BY <1>1, <1>2, <1>3 DEF Shape
<1>7. /\ Run(a, n) \cap TailPages = Run(TailBase, k)
      /\ Run(a, n) \ TailPages = a .. TailBase - 1
  <2>1. a + n > TailBase /\ a + n <= TailBase + tail BY <1>1, <1>2, <1>3
  <2>. QED BY <1>1, <2>1, Layout, Pages DEF Run
<1>8. x \in [start : Nat, pages : Nat \ {0}] /\ x.start = 0 /\ x.pages = k BY <1>5
<1>. HIDE DEF x, k
<1>9. TailBase + x.start = TailBase BY <1>1, <1>8
<1>10. SpanPages(x) = Run(TailBase, k) BY <1>8, <1>9 DEF SpanPages
<1>11. \A s \in pp.spans : SpanPages(s) \cap Run(a, n) = {}
  <2>1. \A s \in pp.spans : SpanPages(s) \cap Run(TailBase, k) = {} BY <1>3 DEF TailBusy
  <2>. QED BY <1>7, <2>1 DEF PoolGood
<1>. QED BY <1>3, <1>4, <1>6, <1>7, <1>8, <1>10, <1>11 DEF Granted

\* The search of AllocateAnyPages and AllocateMaxAddress.
LEMMA SearchGrants ==
    ASSUME mapped \in 0 .. MaxMapped, NEW pp, PoolGood(pp), NEW n \in Nat \ {0}, NEW end \in Nat,
           NEW status, status # "ok", NEW r, r = Search(pp, n, end, status), r.st = "ok"
    PROVE  /\ Granted(pp, r, n) /\ r.addr + n - 1 <= end
           /\ Run(r.addr, n) \cap BelowPages # {} => end < OneMeg
<1>. DEFINE below == Starts(pp, BelowPages, n, end)
            low   == Starts(pp, LowPages, n, end)
            hi    == Starts(pp, HighPages, n, end)
            rest  == TailStarts(pp, n, end)
<1>1. /\ InRegions \subseteq Nat /\ TailPages \subseteq Nat BY RegionPages
<1>2. /\ BelowPages \subseteq Nat /\ LowPages \subseteq Nat /\ HighPages \subseteq Nat
      /\ {BelowPages, LowPages, HighPages} = Regions
  BY <1>1, RegionPages DEF Regions
<1>3. below \in SUBSET Nat /\ low \in SUBSET Nat /\ hi \in SUBSET Nat /\ rest \in SUBSET Nat
  BY <1>1, <1>2 DEF Starts, TailStarts
<1>4. ASSUME NEW reg \in Regions, NEW a \in Starts(pp, reg, n, end), a \in Nat
      PROVE  Granted(pp, InBitmap(a, n), n) /\ InBitmap(a, n).addr = a /\ a + n - 1 <= end
             /\ Run(a, n) \subseteq reg
  <2>1. Run(a, n) \subseteq reg /\ a + n - 1 <= end /\ AllFree(pp, Run(a, n)) BY DEF Starts
  <2>2. Granted(pp, InBitmap(a, n), n) BY <1>4, <2>1, BitmapGrant
  <2>. QED BY <2>1, <2>2 DEF InBitmap, Take
<1>5. /\ LowPages \cap BelowPages = {} /\ HighPages \cap BelowPages = {}
      /\ TailPages \cap BelowPages = {}
  BY Layout, Pages
<1>6. Refuse(status).st # "ok" BY DEF Refuse
<1>7. \/ end < OneMeg /\ below # {} /\ r = InBitmap(Min(below), n)
      \/ low # {} /\ r = InBitmap(Min(low), n)
      \/ hi # {} /\ r = InBitmap(Min(hi), n)
      \/ rest # {} /\ r = InTail(Min(rest), n)
  BY <1>6 DEF Search
<1>. HIDE DEF below, low, hi, rest
<1>8. CASE end < OneMeg /\ below # {} /\ r = InBitmap(Min(below), n)
  <2>1. Min(below) \in below BY <1>3, <1>8, MinIs
  <2>. QED BY <1>2, <1>3, <1>4, <1>8, <2>1 DEF below
<1>9. CASE low # {} /\ r = InBitmap(Min(low), n)
  <2>. DEFINE a == Min(low)
  <2>1. a \in low /\ r = InBitmap(a, n) BY <1>3, <1>9, MinIs
  <2>. HIDE DEF a
  <2>2. Granted(pp, r, n) /\ r.addr = a /\ a + n - 1 <= end /\ Run(a, n) \subseteq LowPages
    BY <1>2, <1>3, <1>4, <2>1 DEF low
  <2>. QED BY <1>5, <2>2
<1>10. CASE hi # {} /\ r = InBitmap(Min(hi), n)
  <2>. DEFINE a == Min(hi)
  <2>1. a \in hi /\ r = InBitmap(a, n) BY <1>3, <1>10, MinIs
  <2>. HIDE DEF a
  <2>2. Granted(pp, r, n) /\ r.addr = a /\ a + n - 1 <= end /\ Run(a, n) \subseteq HighPages
    BY <1>2, <1>3, <1>4, <2>1 DEF hi
  <2>. QED BY <1>5, <2>2
<1>11. CASE rest # {} /\ r = InTail(Min(rest), n)
  <2>. DEFINE a == Min(rest)
  <2>1. a \in rest BY <1>3, <1>11, MinIs
  <2>. HIDE DEF a
  <2>2. a \in Nat /\ Run(a, n) \subseteq TailPages /\ a + n - 1 <= end /\ ~TailBusy(pp, a, n)
    BY <1>3, <2>1 DEF rest, TailStarts
  <2>3. Granted(pp, InTail(a, n), n) BY <2>2, TailGrant
  <2>4. InTail(a, n).addr = a BY DEF InTail, Take
  <2>. QED BY <1>5, <1>11, <2>2, <2>3, <2>4 DEF a
<1>. QED BY <1>7, <1>8, <1>9, <1>10, <1>11

\* allocate_pages answers with pages that were free, of a run it can give back, where
\* the caller asked for them and below 1 MiB only for a caller who named it.
LEMMA AnswerGrants ==
    ASSUME mapped \in 0 .. MaxMapped, NEW pp, PoolGood(pp), NEW n \in Nat, NEW arg \in Nat,
           NEW kind \in {"any", "max", "address"}, NEW typ \in Types \cup BadTypes,
           NEW r, r = Answer(pp, kind, typ, n, arg), r.st = "ok"
    PROVE  /\ Granted(pp, r, n) /\ typ \in Types /\ n > 0
           /\ kind = "address" => r.addr = arg
           /\ kind = "max" => r.addr + n - 1 <= arg
           /\ Run(r.addr, n) \cap BelowPages # {} =>
                 kind = "address" \/ (kind = "max" /\ arg < OneMeg)
<1>1. (\A st : Refuse(st).st = st) /\ "invalid" # "ok" /\ "not_found" # "ok"
      /\ "out_of_resources" # "ok"
  BY DEF Refuse
<1>2. /\ n # 0 /\ typ \notin BadTypes
      /\ r = CASE kind = "any"     -> Search(pp, n, Limit, "out_of_resources")
               [] kind = "max"     -> Search(pp, n, arg, "not_found")
               [] kind = "address" -> At(pp, arg, n)
  BY <1>1 DEF Answer
<1>3. n \in Nat \ {0} /\ typ \in Types BY <1>2
<1>4. CASE kind = "any"
  <2>1. r = Search(pp, n, Limit, "out_of_resources") BY <1>2, <1>4
  <2>2. Limit \in Nat /\ ~(Limit < OneMeg) BY Layout
  <2>. QED BY <1>1, <1>3, <1>4, <2>1, <2>2, SearchGrants
<1>5. CASE kind = "max"
  <2>1. r = Search(pp, n, arg, "not_found") BY <1>2, <1>5
  <2>. QED BY <1>1, <1>3, <1>5, <2>1, SearchGrants
<1>6. CASE kind = "address"
  <2>1. r = At(pp, arg, n) BY <1>2, <1>6
  <2>2. CASE arg \in HighPages /\ ~(Run(arg, n) \subseteq HighPages)
    <3>1. r = AcrossTail(pp, arg, n) BY <2>1, <2>2 DEF At
    <3>. QED BY <1>3, <1>6, <2>2, <3>1, AcrossGrant
  <2>3. CASE ~(arg \in HighPages /\ ~(Run(arg, n) \subseteq HighPages))
    <3>1. r = AtWithin(pp, arg, n) BY <2>1, <2>3 DEF At
    <3>2. CASE \E reg \in Regions : Run(arg, n) \subseteq reg /\ AllFree(pp, Run(arg, n))
      <4>1. r = InBitmap(arg, n) BY <3>1, <3>2 DEF AtWithin
      <4>2. r.addr = arg BY <4>1 DEF InBitmap, Take
      <4>3. Granted(pp, r, n) BY <1>3, <3>2, <4>1, BitmapGrant
      <4>. QED BY <1>3, <1>6, <4>2, <4>3
    <3>3. CASE ~\E reg \in Regions : Run(arg, n) \subseteq reg /\ AllFree(pp, Run(arg, n))
      <4>1. r = InTail(arg, n) /\ Run(arg, n) \subseteq TailPages /\ ~TailBusy(pp, arg, n)
        BY <1>1, <3>1, <3>3 DEF AtWithin
      <4>2. r.addr = arg BY <4>1 DEF InTail, Take
      <4>3. Granted(pp, r, n) BY <1>3, <4>1, TailGrant
      <4>. QED BY <1>3, <1>6, <4>2, <4>3
    <3>. QED BY <3>2, <3>3
  <2>. QED BY <2>2, <2>3
<1>. QED BY <1>4, <1>5, <1>6

\* A refused call takes nothing.
LEMMA RefusedTakesNothing ==
    ASSUME NEW pp, PoolGood(pp), NEW n, NEW arg, NEW typ,
           NEW kind \in {"any", "max", "address"},
           NEW r, r = Answer(pp, kind, typ, n, arg), r.st # "ok"
    PROVE  Taken(pp, r, typ) = pp
<1>1. \A a, bits, span : Take(a, bits, span).st = "ok" BY DEF Take
<1>2. \E st : r = Refuse(st)
  BY <1>1 DEF Answer, Search, At, AcrossTail, AtWithin, InBitmap, InTail
<1>3. r.bits = {} /\ r.span = {} BY <1>2 DEF Refuse
<1>4. [p \in Bitmap |-> IF p \in r.bits THEN typ ELSE pp.use[p]] = pp.use
  BY <1>3 DEF PoolGood
<1>5. pp.spans \cup {[start |-> s.start, pages |-> s.pages, typ |-> typ] : s \in r.span} = pp.spans
  BY <1>3
<1>. QED BY <1>4, <1>5 DEF Taken, PoolGood

\* The pool q after a grant: what is granted is held, and so is all that was.
Marked(pp, q, r, n, typ) ==
    /\ PoolGood(q) /\ Holds(q, r.addr, n)
    /\ \A a, m : Holds(pp, a, m) => Holds(q, a, m) /\ Run(a, m) \cap Run(r.addr, n) = {}
    /\ \A p \in Bitmap : q.use[p] = IF p \in r.bits THEN typ ELSE pp.use[p]
    /\ r.span = {} => q.spans = pp.spans
    /\ \A x : r.span = {x} =>
          q.spans = pp.spans \cup {[start |-> x.start, pages |-> x.pages, typ |-> typ]}

\* mark and tail_insert.
LEMMA TakenGood ==
    ASSUME mapped \in 0 .. MaxMapped, NEW pp, PoolGood(pp), NEW n, NEW typ \in Types,
           NEW r, Granted(pp, r, n), NEW q, q = Taken(pp, r, typ)
    PROVE  Marked(pp, q, r, n, typ)
<1>. DEFINE new == {[start |-> s.start, pages |-> s.pages, typ |-> typ] : s \in r.span}
<1>1. /\ q.use = [p \in Bitmap |-> IF p \in r.bits THEN typ ELSE pp.use[p]]
      /\ q.spans = pp.spans \cup new /\ q = [use |-> q.use, spans |-> q.spans]
  BY DEF Taken
<1>2. /\ \A p \in Bitmap : q.use[p] = IF p \in r.bits THEN typ ELSE pp.use[p]
      /\ q.use \in [Bitmap -> Types \cup {"free"}]
  BY <1>1 DEF PoolGood
<1>3. /\ r.span = {} => new = {}
      /\ \A x : r.span = {x} => new = {[start |-> x.start, pages |-> x.pages, typ |-> typ]}
  OBVIOUS
<1>4. ASSUME NEW s \in new
      PROVE  /\ s \in Span /\ SpanPages(s) = Run(r.addr, n) \cap TailPages
             /\ new = {s} /\ s.typ = typ
  <2>1. PICK x \in [start : Nat, pages : Nat \ {0}] :
            r.span = {x} /\ SpanPages(x) = Run(r.addr, n) \cap TailPages
    BY DEF Granted
  <2>. DEFINE y == [start |-> x.start, pages |-> x.pages, typ |-> typ]
  <2>2. y \in Span /\ y.start = x.start /\ y.pages = x.pages /\ y.typ = typ BY DEF Span
  <2>3. new = {y} BY <2>1
  <2>. HIDE DEF y, new
  <2>4. s = y BY <2>3
  <2>5. SpanPages(y) = SpanPages(x) BY <2>2 DEF SpanPages
  <2>. QED BY <2>1, <2>2, <2>3, <2>4, <2>5
<1>5. Run(r.addr, n) \cap TailPages # {} => \E s \in new : TRUE
  <2>1. Run(r.addr, n) \cap TailPages # {} => \E x : r.span = {x} BY DEF Granted
  <2>2. \A x : r.span = {x} => [start |-> x.start, pages |-> x.pages, typ |-> typ] \in new
    OBVIOUS
  <2>. QED BY <2>1, <2>2
<1>. HIDE DEF new
<1>6. PoolGood(q)
  <2>1. \A s \in q.spans : s \in Span /\ SpanPages(s) \subseteq TailPages
    BY <1>1, <1>4 DEF PoolGood
  <2>2. \A s, t \in q.spans : s = t \/ SpanPages(s) \cap SpanPages(t) = {}
    <3>1. \A s, t \in pp.spans : s = t \/ SpanPages(s) \cap SpanPages(t) = {} BY DEF PoolGood
    <3>2. \A s \in new, t \in pp.spans : SpanPages(s) \cap SpanPages(t) = {}
      BY <1>4 DEF Granted
    <3>3. \A s, t \in new : s = t BY <1>4
    <3>. QED BY <1>1, <3>1, <3>2, <3>3
  <2>. QED BY <1>1, <1>2, <2>1, <2>2 DEF PoolGood
<1>7. "free" \notin Types BY SizesAreNat
<1>8. ASSUME NEW a, NEW m, Shape(a, m) PROVE Run(a, m) \ TailPages \subseteq Bitmap
  <2>1. Run(a, m) \subseteq Managed BY <1>8, ShapeIs
  <2>. QED BY <2>1, RegionPages
<1>9. Holds(q, r.addr, n)
  <2>1. Shape(r.addr, n) /\ r.bits = Run(r.addr, n) \ TailPages BY DEF Granted
  <2>2. \A p \in Run(r.addr, n) \ TailPages : q.use[p] # "free"
    BY <1>2, <1>7, <1>8, <2>1
  <2>3. Run(r.addr, n) \cap TailPages # {} =>
          \E s \in q.spans : SpanPages(s) = Run(r.addr, n) \cap TailPages
    BY <1>1, <1>4, <1>5
  <2>. QED BY <2>1, <2>2, <2>3 DEF Holds
<1>10. ASSUME NEW a, NEW m, Holds(pp, a, m)
       PROVE  Holds(q, a, m) /\ Run(a, m) \cap Run(r.addr, n) = {}
  <2>1. Shape(a, m) BY <1>10 DEF Holds
  <2>2. \A p \in Run(a, m) \ TailPages : q.use[p] # "free"
    BY <1>2, <1>7, <1>8, <1>10, <2>1 DEF Holds
  <2>3. Holds(q, a, m) BY <1>1, <1>10, <2>1, <2>2 DEF Holds
  <2>4. ASSUME NEW p \in Run(a, m), p \in Run(r.addr, n) PROVE FALSE
    <3>1. CASE p \in TailPages
      <4>1. PICK s \in pp.spans : SpanPages(s) = Run(a, m) \cap TailPages
        BY <1>10, <3>1 DEF Holds
      <4>. QED BY <2>4, <3>1, <4>1 DEF Granted
    <3>2. CASE p \notin TailPages
      <4>1. pp.use[p] # "free" BY <1>10, <3>2 DEF Holds
      <4>2. p \in r.bits BY <2>4, <3>2 DEF Granted
      <4>. QED BY <4>1, <4>2 DEF Granted, AllFree
    <3>. QED BY <3>1, <3>2
  <2>. QED BY <2>3, <2>4
<1>. QED BY <1>1, <1>2, <1>3, <1>6, <1>9, <1>10 DEF Marked

-----------------------------------------------------------------------------
(* free_pages_at *)

\* What of the pool pp changes when the run of n pages at a is given back: its pages
\* of the bitmap, and the one span its pages of the tail are part of.
Back(pp, q, a, n) ==
    /\ PoolGood(q)
    /\ \A p \in Bitmap : q.use[p] = IF p \in Run(a, n) \ TailPages THEN "free" ELSE pp.use[p]
    /\ \A p \in Run(a, n) \ TailPages : p \in Bitmap /\ pp.use[p] # "free"
    /\ \/ q.spans = pp.spans /\ Run(a, n) \cap TailPages = {}
       \/ \E s \in pp.spans :
            /\ Run(a, n) \cap TailPages # {} /\ Run(a, n) \cap TailPages \subseteq SpanPages(s)
            /\ \/ q.spans = pp.spans \ {s} /\ SpanPages(s) = Run(a, n) \cap TailPages
               \/ \E t \in Span : /\ t.typ = s.typ /\ q.spans = (pp.spans \ {s}) \cup {t}
                                  /\ SpanPages(t) = SpanPages(s) \ Run(a, n)
                                  /\ SpanPages(t) # {}

\* The span the run lies in is given up or cut.
CutTail(pp, q, a, n) ==
    \E s \in pp.spans :
        /\ n > 0 /\ Run(a, n) \subseteq SpanPages(s) /\ q.use = pp.use
        /\ q = [use |-> q.use, spans |-> q.spans]
        /\ \/ q.spans = pp.spans \ {s} /\ SpanPages(s) = Run(a, n)
           \/ \E t \in Span : /\ t.typ = s.typ /\ q.spans = (pp.spans \ {s}) \cup {t}
                              /\ SpanPages(t) = SpanPages(s) \ Run(a, n)
                              /\ SpanPages(t) # {}

\* free_tail_at: the front, the back or the whole of one span.
LEMMA FreeTailGood ==
    ASSUME mapped \in 0 .. MaxMapped, NEW pp, PoolGood(pp), NEW a \in Int, NEW n \in Int,
           NEW f, f = FreeTail(pp, a, n), f.ok
    PROVE  CutTail(pp, f.pool, a, n)
<1>. DEFINE from == a - TailBase
            to   == from + n
            hit  == {s \in pp.spans : /\ n > 0
                                      /\ Run(a, n) \subseteq SpanPages(s)
                                      /\ from = s.start \/ to = s.start + s.pages}
            s == CHOOSE x \in hit : TRUE
<1>1. hit # {} /\ f = Freed(pp, {}, (pp.spans \ {s}) \cup Trim(s, from, to))
  BY DEF FreeTail, NotFreed
<1>2. s \in hit BY <1>1
<1>. HIDE DEF s
<1>3. s \in pp.spans /\ n > 0 /\ Run(a, n) \subseteq SpanPages(s)
      /\ (from = s.start \/ to = s.start + s.pages)
  BY <1>2
<1>. HIDE DEF hit
<1>4. /\ f.pool.use = [p \in Bitmap |-> pp.use[p]]
      /\ f.pool.spans = (pp.spans \ {s}) \cup Trim(s, from, to)
      /\ f.pool = [use |-> f.pool.use, spans |-> f.pool.spans]
  BY <1>1 DEF Freed
<1>5. f.pool.use = pp.use BY <1>4 DEF PoolGood
<1>6. s \in Span /\ s.start \in Nat /\ s.pages \in Nat \ {0} BY <1>3 DEF PoolGood, Span
<1>7. TailBase \in Nat BY Layout
<1>8. \A p : p \in SpanPages(s) <=>
               p \in Int /\ TailBase + s.start <= p /\ p < TailBase + s.start + s.pages
  BY <1>6, <1>7 DEF SpanPages, Run
<1>9. \A p : p \in Run(a, n) <=> p \in Int /\ a <= p /\ p < a + n BY DEF Run
<1>10. /\ s.start <= from /\ to <= s.start + s.pages /\ from \in Nat /\ to \in Nat /\ from < to
  <2>1. a \in Run(a, n) /\ a + n - 1 \in Run(a, n) BY <1>3, <1>9
  <2>2. a \in SpanPages(s) /\ a + n - 1 \in SpanPages(s) BY <1>3, <2>1
  <2>. QED BY <1>3, <1>6, <1>7, <1>8, <2>2
<1>11. a = TailBase + from /\ a + n = TailBase + to BY <1>7
<1>. HIDE DEF from, to
<1>12. CASE from = s.start /\ to = s.start + s.pages
  <2>1. Trim(s, from, to) = {} BY <1>12 DEF Trim
  <2>2. f.pool.spans = pp.spans \ {s} BY <1>4, <2>1
  <2>3. SpanPages(s) = Run(a, n) BY <1>6, <1>7, <1>8, <1>9, <1>11, <1>12
  <2>. QED BY <1>3, <1>4, <1>5, <2>2, <2>3 DEF CutTail
<1>13. CASE ~(from = s.start /\ to = s.start + s.pages)
  <2>. DEFINE b == IF from = s.start THEN to ELSE s.start
              m == IF from = s.start THEN s.start + s.pages - to ELSE from - s.start
              t == [start |-> b, pages |-> m, typ |-> s.typ]
  <2>2. Trim(s, from, to) = {t}
    <3>1. CASE from = s.start BY <1>6, <1>10, <1>13, <3>1 DEF Trim
    <3>2. CASE from # s.start BY <3>2 DEF Trim
    <3>. QED BY <3>1, <3>2
  <2>3. b \in Nat /\ m \in Nat \ {0} BY <1>3, <1>6, <1>10, <1>13
  <2>4. \A p \in Int : (TailBase + b <= p /\ p < TailBase + b + m) <=>
            /\ TailBase + s.start <= p /\ p < TailBase + s.start + s.pages
            /\ ~(a <= p /\ p < a + n)
    BY <1>3, <1>6, <1>7, <1>10, <1>11, <1>13
  <2>. HIDE DEF b, m
  <2>5. t \in Span /\ t.start = b /\ t.pages = m /\ t.typ = s.typ BY <1>6, <2>3 DEF Span
  <2>. HIDE DEF t
  <2>6. SpanPages(t) = SpanPages(s) \ Run(a, n)
    <3>1. \A p : p \in SpanPages(t) <=> p \in Int /\ TailBase + b <= p /\ p < TailBase + b + m
      BY <1>7, <2>3, <2>5 DEF SpanPages, Run
    <3>. QED BY <1>8, <1>9, <2>4, <3>1
  <2>7. TailBase + b \in SpanPages(t) BY <1>7, <2>3, <2>5 DEF SpanPages, Run
  <2>8. f.pool.spans = (pp.spans \ {s}) \cup {t} BY <1>4, <2>2
  <2>. QED BY <1>3, <1>4, <1>5, <2>5, <2>6, <2>7, <2>8 DEF CutTail
<1>. QED BY <1>12, <1>13

\* A span given up or replaced by a part of it leaves the spans apart.
LEMMA SpansStayApart ==
    ASSUME NEW pp, PoolGood(pp), NEW q, q = [use |-> q.use, spans |-> q.spans],
           q.use \in [Bitmap -> Types \cup {"free"}],
           \/ q.spans = pp.spans
           \/ \E s \in pp.spans :
                \/ q.spans = pp.spans \ {s}
                \/ \E t \in Span : q.spans = (pp.spans \ {s}) \cup {t} /\ SpanPages(t) \subseteq SpanPages(s)
    PROVE  PoolGood(q)
<1>1. CASE q.spans = pp.spans BY <1>1 DEF PoolGood
<1>2. ASSUME NEW s \in pp.spans, q.spans = pp.spans \ {s} PROVE PoolGood(q)
  BY <1>2 DEF PoolGood
<1>3. ASSUME NEW s \in pp.spans, NEW t \in Span, q.spans = (pp.spans \ {s}) \cup {t},
             SpanPages(t) \subseteq SpanPages(s)
      PROVE  PoolGood(q)
  <2>1. \A x \in q.spans : x \in Span /\ SpanPages(x) \subseteq TailPages BY <1>3 DEF PoolGood
  <2>2. \A x \in pp.spans \ {s} : SpanPages(x) \cap SpanPages(t) = {} BY <1>3 DEF PoolGood
  <2>3. \A x, y \in pp.spans \ {s} : x = y \/ SpanPages(x) \cap SpanPages(y) = {} BY DEF PoolGood
  <2>4. \A x, y \in q.spans : x = y \/ SpanPages(x) \cap SpanPages(y) = {}
    BY <1>3, <2>2, <2>3
  <2>. QED BY <2>1, <2>4 DEF PoolGood
<1>. QED BY <1>1, <1>2, <1>3

\* free_pages_at gives back exactly the pages named, or changes nothing.
LEMMA FreeAtGood ==
    ASSUME mapped \in 0 .. MaxMapped, NEW pp, PoolGood(pp), NEW a \in Nat, NEW n \in Nat,
           NEW f, f = FreeAt(pp, a, n)
    PROVE  IF f.ok THEN Back(pp, f.pool, a, n) ELSE f.pool = pp
<1>1. ASSUME NEW bits, NEW spans
      PROVE  /\ Freed(pp, bits, spans).ok
             /\ Freed(pp, bits, spans).pool.use =
                   [p \in Bitmap |-> IF p \in bits THEN "free" ELSE pp.use[p]]
             /\ Freed(pp, bits, spans).pool.spans = spans
             /\ Freed(pp, bits, spans).pool =
                   [use   |-> [p \in Bitmap |-> IF p \in bits THEN "free" ELSE pp.use[p]],
                    spans |-> spans]
  BY DEF Freed
<1>2. ~NotFreed(pp).ok /\ NotFreed(pp).pool = pp BY DEF NotFreed
<1>3. CASE ~f.ok
  <2>1. \A b, m : LET t == FreeTail(pp, b, m) IN t.ok \/ t.pool = pp BY <1>1, <1>2 DEF FreeTail
  <2>2. \/ f = FreeTail(pp, a, n) \/ f = FreeAcross(pp, a, n) \/ f = Freed(pp, Run(a, n), pp.spans)
        \/ f = NotFreed(pp)
    BY DEF FreeAt
  <2>0. \A bits, spans : Freed(pp, bits, spans).ok = TRUE BY DEF Freed
  <2>3. \A bits, spans : f # Freed(pp, bits, spans) BY <1>3, <2>0
  <2>4. CASE f = FreeAcross(pp, a, n)
    <3>1. f = NotFreed(pp) \/ \E bits, spans : f = Freed(pp, bits, spans) BY <2>4 DEF FreeAcross
    <3>. QED BY <1>2, <2>3, <3>1
  <2>. QED BY <1>2, <1>3, <2>1, <2>2, <2>3, <2>4
<1>4. CASE f.ok
  <2>. DEFINE q == f.pool
  <2>. SUFFICES Back(pp, q, a, n) BY <1>4
  <2>0. \A p : p \in Run(a, n) <=> p \in Int /\ a <= p /\ p < a + n BY DEF Run
  <2>1. CASE a \notin InRegions
    <3>1. f = FreeTail(pp, a, n) BY <2>1 DEF FreeAt, InRegions
    <3>2. PICK s \in pp.spans :
             /\ n > 0 /\ Run(a, n) \subseteq SpanPages(s) /\ q.use = pp.use
             /\ q = [use |-> q.use, spans |-> q.spans]
             /\ \/ q.spans = pp.spans \ {s} /\ SpanPages(s) = Run(a, n)
                \/ \E t \in Span : /\ t.typ = s.typ /\ q.spans = (pp.spans \ {s}) \cup {t}
                                   /\ SpanPages(t) = SpanPages(s) \ Run(a, n)
                                   /\ SpanPages(t) # {}
      <4>1. CutTail(pp, q, a, n) BY <1>4, <3>1, FreeTailGood
      <4>. QED BY <4>1, Zenon DEF CutTail
    <3>. HIDE DEF q
    <3>3. SpanPages(s) \subseteq TailPages BY DEF PoolGood
    <3>4. Run(a, n) \ TailPages = {} /\ Run(a, n) \cap TailPages = Run(a, n) /\ Run(a, n) # {}
      BY <2>0, <3>2, <3>3
    <3>5. PoolGood(q)
      <4>1. q.use \in [Bitmap -> Types \cup {"free"}] BY <3>2 DEF PoolGood
      <4>2. \/ q.spans = pp.spans \ {s}
            \/ \E t \in Span : q.spans = (pp.spans \ {s}) \cup {t} /\ SpanPages(t) \subseteq SpanPages(s)
        BY <3>2
      <4>. QED BY <3>2, <4>1, <4>2, SpansStayApart
    <3>. QED BY <3>2, <3>4, <3>5 DEF Back
  <2>2. CASE a \in InRegions /\ a \in HighPages /\ a + n > TailBase
    <3>. DEFINE k == a + n - TailBase
                t0 == FreeTail(pp, TailBase, k)
                bits == a .. TailBase - 1
    <3>1. f = FreeAcross(pp, a, n) BY <2>2 DEF FreeAt, InRegions
    <3>2. t0.ok /\ (\A p \in bits : pp.use[p] # "free") /\ f = Freed(pp, bits, t0.pool.spans)
      BY <1>2, <1>4, <3>1 DEF FreeAcross
    <3>3. TailBase \in Nat /\ k \in Nat \ {0} /\ a < TailBase BY <2>2, Layout, Pages
    <3>4. PICK s \in pp.spans :
             /\ Run(TailBase, k) \subseteq SpanPages(s)
             /\ \/ t0.pool.spans = pp.spans \ {s} /\ SpanPages(s) = Run(TailBase, k)
                \/ \E t \in Span : /\ t.typ = s.typ /\ t0.pool.spans = (pp.spans \ {s}) \cup {t}
                                   /\ SpanPages(t) = SpanPages(s) \ Run(TailBase, k)
                                   /\ SpanPages(t) # {}
      <4>1. CutTail(pp, t0.pool, TailBase, k) BY <3>2, <3>3, FreeTailGood
      <4>. QED BY <4>1, Zenon DEF CutTail
    <3>5. /\ q.use = [p \in Bitmap |-> IF p \in bits THEN "free" ELSE pp.use[p]]
          /\ q.spans = t0.pool.spans /\ q = [use |-> q.use, spans |-> q.spans]
      <4>. HIDE DEF bits, t0
      <4>1. q = [use   |-> [p \in Bitmap |-> IF p \in bits THEN "free" ELSE pp.use[p]],
                 spans |-> t0.pool.spans]
        BY <1>1, <3>2
      <4>. QED BY <4>1
    <3>. HIDE DEF q, t0
    <3>6. SpanPages(s) \subseteq TailPages BY DEF PoolGood
    <3>7. /\ Run(a, n) \cap TailPages = Run(TailBase, k) /\ Run(a, n) \ TailPages = bits
          /\ bits \subseteq HighPages
      <4>1. TailBase + k - 1 \in Run(TailBase, k) BY <3>3 DEF Run
      <4>2. TailBase + k - 1 \in TailPages BY <3>4, <3>6, <4>1
      <4>3. a + n <= TailBase + tail BY <3>3, <4>2, Layout, Pages
      <4>. QED BY <2>2, <3>3, <4>3, Layout, Pages DEF Run
    <3>8. Run(TailBase, k) # {} BY <3>3 DEF Run
    <3>. HIDE DEF bits
    <3>9. bits \subseteq Bitmap BY <3>7, RegionPages
    <3>10. /\ \A p \in Bitmap : q.use[p] = IF p \in bits THEN "free" ELSE pp.use[p]
           /\ q.use \in [Bitmap -> Types \cup {"free"}]
      BY <3>5 DEF PoolGood
    <3>11. SpanPages(s) \ Run(TailBase, k) = SpanPages(s) \ Run(a, n) BY <3>6, <3>7
    <3>12. PoolGood(q)
      <4>1. \/ q.spans = pp.spans \ {s}
            \/ \E t \in Span : q.spans = (pp.spans \ {s}) \cup {t} /\ SpanPages(t) \subseteq SpanPages(s)
        BY <3>4, <3>5
      <4>. QED BY <3>5, <3>10, <4>1, SpansStayApart
    <3>. QED BY <3>2, <3>4, <3>5, <3>7, <3>8, <3>9, <3>10, <3>11, <3>12 DEF Back
  <2>3. CASE a \in InRegions /\ ~(a \in HighPages /\ a + n > TailBase)
    <3>1. /\ \E r \in Regions : Run(a, n) \subseteq r
          /\ \A p \in Run(a, n) : pp.use[p] # "free"
          /\ f = Freed(pp, Run(a, n), pp.spans)
      BY <1>2, <1>4, <2>3 DEF FreeAt, InRegions
    <3>2. Run(a, n) \subseteq InRegions BY <3>1 DEF InRegions
    <3>3. Run(a, n) \cap TailPages = {} /\ Run(a, n) \subseteq Bitmap BY <3>2, RegionPages
    <3>4. Run(a, n) \ TailPages = Run(a, n) BY <3>3
    <3>5. /\ q.use = [p \in Bitmap |-> IF p \in Run(a, n) THEN "free" ELSE pp.use[p]]
          /\ q.spans = pp.spans /\ q = [use |-> q.use, spans |-> q.spans]
      <4>1. q = [use   |-> [p \in Bitmap |-> IF p \in Run(a, n) THEN "free" ELSE pp.use[p]],
                 spans |-> pp.spans]
        BY <1>1, <3>1
      <4>. QED BY <4>1
    <3>. HIDE DEF q
    <3>6. /\ \A p \in Bitmap : q.use[p] = IF p \in Run(a, n) THEN "free" ELSE pp.use[p]
          /\ q.use \in [Bitmap -> Types \cup {"free"}]
      BY <3>5 DEF PoolGood
    <3>7. PoolGood(q) BY <3>5, <3>6, SpansStayApart
    <3>. QED BY <3>1, <3>3, <3>4, <3>5, <3>6, <3>7 DEF Back
  <2>. QED BY <2>1, <2>2, <2>3
<1>. QED BY <1>3, <1>4

\* What a free leaves alone: every run held that it does not meet.
LEMMA BackKeeps ==
    ASSUME mapped \in 0 .. MaxMapped, NEW pp, PoolGood(pp), NEW q, NEW a, NEW n, Back(pp, q, a, n),
           NEW b, NEW m, Holds(pp, b, m), Run(b, m) \cap Run(a, n) = {}
    PROVE  Holds(q, b, m)
<1>1. Shape(b, m) BY DEF Holds
<1>2. Run(b, m) \ TailPages \subseteq Bitmap
  <2>1. Run(b, m) \subseteq Managed BY <1>1, ShapeIs
  <2>. QED BY <2>1, RegionPages
<1>3. \A p \in Run(b, m) \ TailPages : q.use[p] # "free"
  <2>1. \A p \in Bitmap : q.use[p] = IF p \in Run(a, n) \ TailPages THEN "free" ELSE pp.use[p]
    BY DEF Back
  <2>2. \A p \in Run(b, m) \ TailPages : pp.use[p] # "free" BY DEF Holds
  <2>. QED BY <1>2, <2>1, <2>2
<1>4. ASSUME Run(b, m) \cap TailPages # {}
      PROVE  \E s \in q.spans : SpanPages(s) = Run(b, m) \cap TailPages
  <2>1. PICK x \in pp.spans : SpanPages(x) = Run(b, m) \cap TailPages BY <1>4 DEF Holds
  <2>2. ASSUME x \notin q.spans PROVE FALSE
    <3>1. PICK s \in pp.spans :
            /\ Run(a, n) \cap TailPages # {} /\ Run(a, n) \cap TailPages \subseteq SpanPages(s)
            /\ q.spans = pp.spans \ {s} \/ \E t : q.spans = (pp.spans \ {s}) \cup {t}
      BY <2>2 DEF Back
    <3>2. x = s BY <2>2, <3>1
    <3>. QED BY <2>1, <3>1, <3>2
  <2>. QED BY <2>1, <2>2
<1>. QED BY <1>1, <1>3, <1>4 DEF Holds

\* A span can be freed whole.
LEMMA WholeSpanFrees ==
    ASSUME mapped \in 0 .. MaxMapped, NEW pp, PoolGood(pp), NEW b \in Nat, NEW k \in Nat \ {0},
           NEW s \in pp.spans, SpanPages(s) = Run(b, k)
    PROVE  FreeTail(pp, b, k).ok
<1>1. TailBase \in Nat /\ s.start \in Nat /\ s.pages \in Nat \ {0} BY Layout DEF PoolGood, Span
<1>2. TailBase + s.start = b /\ s.pages = k BY <1>1, RunEqual DEF SpanPages
<1>3. b - TailBase = s.start BY <1>1, <1>2
<1>. DEFINE hit == {x \in pp.spans : /\ k > 0
                                     /\ Run(b, k) \subseteq SpanPages(x)
                                     /\ b - TailBase = x.start \/ b - TailBase + k = x.start + x.pages}
<1>4. s \in hit BY <1>3
<1>5. \A bits, spans : Freed(pp, bits, spans).ok BY DEF Freed
<1>. QED BY <1>4, <1>5 DEF FreeTail

\* Whatever is held whole can be given back in one call.
LEMMA HeldFrees ==
    ASSUME mapped \in 0 .. MaxMapped, NEW pp, PoolGood(pp), NEW a, NEW n, Holds(pp, a, n)
    PROVE  FreeAt(pp, a, n).ok
<1>1. Shape(a, n) /\ a \in Nat /\ n \in Nat \ {0} BY DEF Holds, Shape
<1>2. \A bits, spans : Freed(pp, bits, spans).ok BY DEF Freed
<1>3. a \in Run(a, n) BY <1>1, ShapeIs
<1>4. CASE (\E r \in Regions : Run(a, n) \subseteq r) /\ Run(a, n) \cap TailPages = {}
  <2>1. a \in InRegions BY <1>3, <1>4 DEF InRegions
  <2>2. ~(a \in HighPages /\ a + n > TailBase)
    <3>. SUFFICES ASSUME a \in HighPages, a + n > TailBase PROVE FALSE OBVIOUS
    <3>1. TailBase \in Run(a, n) BY <1>1, Layout, Pages DEF Run
    <3>2. TailBase \in InRegions BY <1>4, <3>1 DEF InRegions
    <3>. QED BY <3>2, Layout, Pages, RegionPages
  <2>3. \A p \in Run(a, n) : pp.use[p] # "free" BY <1>4 DEF Holds
  <2>4. FreeAt(pp, a, n) = Freed(pp, Run(a, n), pp.spans)
    BY <1>1, <1>4, <2>1, <2>2, <2>3 DEF FreeAt, InRegions
  <2>. QED BY <1>2, <2>4
<1>5. CASE Run(a, n) \subseteq TailPages /\ a \notin InRegions
  <2>1. FreeAt(pp, a, n) = FreeTail(pp, a, n) BY <1>5 DEF FreeAt, InRegions
  <2>2. Run(a, n) \cap TailPages = Run(a, n) BY <1>5
  <2>3. PICK s \in pp.spans : SpanPages(s) = Run(a, n) BY <1>3, <2>2 DEF Holds
  <2>. QED BY <1>1, <2>1, <2>3, WholeSpanFrees
<1>6. CASE /\ a \in HighPages /\ a + n > TailBase /\ a + n <= TailBase + tail
           /\ Run(a, n) \cap TailPages = Run(TailBase, a + n - TailBase)
           /\ Run(a, n) \ TailPages = a .. TailBase - 1
  <2>. DEFINE k == a + n - TailBase
  <2>1. a \in InRegions BY <1>6, RegionPages
  <2>2. FreeAt(pp, a, n) = FreeAcross(pp, a, n) BY <1>6, <2>1 DEF FreeAt, InRegions
  <2>3. TailBase \in Nat /\ k \in Nat \ {0} BY <1>1, <1>6, Layout
  <2>4. TailBase \in Run(TailBase, k) BY <2>3 DEF Run
  <2>5. PICK s \in pp.spans : SpanPages(s) = Run(TailBase, k) BY <1>6, <2>4 DEF Holds
  <2>6. FreeTail(pp, TailBase, k).ok BY <2>3, <2>5, WholeSpanFrees
  <2>7. \A p \in a .. TailBase - 1 : pp.use[p] # "free" BY <1>6 DEF Holds
  <2>. QED BY <1>2, <2>2, <2>6, <2>7 DEF FreeAcross
<1>. QED BY <1>1, <1>4, <1>5, <1>6, ShapeIs

\* Pages taken and given back at once leave the pool as it was (a service that cannot
\* store the address it was given).
LEMMA TakenBack ==
    ASSUME mapped \in 0 .. MaxMapped, NEW pp, PoolGood(pp), NEW n, NEW typ \in Types,
           NEW r, Granted(pp, r, n)
    PROVE  FreeAt(Taken(pp, r, typ), r.addr, n).pool = pp
<1>. DEFINE q == Taken(pp, r, typ)
            run == Run(r.addr, n)
            f == FreeAt(q, r.addr, n)
            back == f.pool
<1>1. /\ PoolGood(q) /\ Holds(q, r.addr, n)
      /\ \A p \in Bitmap : q.use[p] = IF p \in r.bits THEN typ ELSE pp.use[p]
      /\ r.span = {} => q.spans = pp.spans
      /\ \A x : r.span = {x} =>
            q.spans = pp.spans \cup {[start |-> x.start, pages |-> x.pages, typ |-> typ]}
  <2>1. Marked(pp, q, r, n, typ) BY TakenGood
  <2>. QED BY <2>1 DEF Marked
<1>. HIDE DEF q
<1>2. r.addr \in Nat /\ n \in Nat \ {0} BY DEF Granted, Shape
<1>3. f.ok BY <1>1, HeldFrees
<1>4. Back(q, back, r.addr, n) BY <1>1, <1>2, <1>3, FreeAtGood
<1>. HIDE DEF f
<1>5. PoolGood(back) BY <1>4 DEF Back
<1>. HIDE DEF back
<1>6. back.use = pp.use
  <2>1. \A p \in Bitmap : back.use[p] = pp.use[p]
    <3>1. \A p \in Bitmap : back.use[p] = IF p \in run \ TailPages THEN "free" ELSE q.use[p]
      BY <1>4 DEF Back
    <3>2. r.bits = run \ TailPages /\ \A p \in r.bits : pp.use[p] = "free" BY DEF Granted, AllFree
    <3>. QED BY <1>1, <3>1, <3>2
  <2>. QED BY <1>5, <2>1 DEF PoolGood
<1>7. back.spans = pp.spans
  <2>0. ASSUME NEW x \in [start : Nat, pages : Nat \ {0}] PROVE SpanPages(x) # {}
    <3>1. TailBase + x.start \in SpanPages(x) BY Layout DEF SpanPages, Run
    <3>. QED BY <3>1
  <2>1. CASE run \cap TailPages = {}
    <3>1. back.spans = q.spans BY <1>4, <2>1 DEF Back
    <3>2. r.span = {} BY <2>0, <2>1 DEF Granted
    <3>. QED BY <1>1, <3>1, <3>2
  <2>2. CASE run \cap TailPages # {}
    <3>1. PICK x \in [start : Nat, pages : Nat \ {0}] :
              r.span = {x} /\ SpanPages(x) = run \cap TailPages
      BY <2>2 DEF Granted
    <3>. DEFINE new == [start |-> x.start, pages |-> x.pages, typ |-> typ]
    <3>2. q.spans = pp.spans \cup {new} BY <1>1, <3>1
    <3>3. new.start = x.start /\ new.pages = x.pages OBVIOUS
    <3>. HIDE DEF new
    <3>4. SpanPages(new) = run \cap TailPages BY <3>1, <3>3 DEF SpanPages
    <3>5. \A s \in pp.spans : SpanPages(s) \cap run = {} BY DEF Granted
    <3>6. new \notin pp.spans BY <2>2, <3>4, <3>5
    <3>7. PICK s \in q.spans :
            /\ run \cap TailPages \subseteq SpanPages(s)
            /\ \/ back.spans = q.spans \ {s}
               \/ \E t : SpanPages(t) = SpanPages(s) \ run /\ SpanPages(t) # {}
      BY <1>4, <2>2 DEF Back
    <3>8. s = new BY <2>2, <3>2, <3>5, <3>7
    <3>9. SpanPages(s) \ run = {} BY <3>4, <3>8
    <3>10. back.spans = q.spans \ {new} BY <3>7, <3>8, <3>9
    <3>. QED BY <3>2, <3>6, <3>10
  <2>. QED BY <2>1, <2>2
<1>8. back = pp
  <2>1. pp = [use |-> pp.use, spans |-> pp.spans] /\ back = [use |-> back.use, spans |-> back.spans]
    BY <1>5 DEF PoolGood
  <2>. QED BY <1>6, <1>7, <2>1
<1>. QED BY <1>8 DEF back, f, q

-----------------------------------------------------------------------------
(* The types of the memory map *)

\* The type of a page of the tail is that of the one span it lies in.
LEMMA TypeOf ==
    ASSUME NEW pp, PoolGood(pp), NEW p
    PROVE  /\ p \notin TailPages => TypeIn(pp, p) = pp.use[p]
           /\ p \in TailPages => /\ \A s \in pp.spans : p \in SpanPages(s) => TypeIn(pp, p) = s.typ
                                 /\ (\A s \in pp.spans : p \notin SpanPages(s)) => TypeIn(pp, p) = "free"
<1>1. ASSUME p \in TailPages, NEW s \in pp.spans, p \in SpanPages(s) PROVE TypeIn(pp, p) = s.typ
  <2>. DEFINE c == CHOOSE x \in pp.spans : p \in SpanPages(x)
  <2>1. c \in pp.spans /\ p \in SpanPages(c) BY <1>1
  <2>2. TypeIn(pp, p) = c.typ BY <1>1 DEF TypeIn
  <2>. HIDE DEF c
  <2>3. c = s BY <1>1, <2>1 DEF PoolGood
  <2>. QED BY <2>2, <2>3
<1>2. p \notin TailPages => TypeIn(pp, p) = pp.use[p] BY DEF TypeIn
<1>3. p \in TailPages /\ (\A s \in pp.spans : p \notin SpanPages(s)) => TypeIn(pp, p) = "free"
  BY DEF TypeIn
<1>. QED BY <1>1, <1>2, <1>3

\* The type of a span is not that of a free page.
LEMMA SpanTyped == ASSUME NEW pp, PoolGood(pp), NEW s \in pp.spans PROVE s.typ # "free"
BY SizesAreNat DEF PoolGood, Span

\* What is held is not conventional.
LEMMA HeldTyped ==
    ASSUME NEW pp, PoolGood(pp), NEW a, NEW n, Holds(pp, a, n), NEW p \in Run(a, n)
    PROVE  TypeIn(pp, p) # "free"
<1>1. CASE p \notin TailPages BY <1>1, TypeOf DEF Holds
<1>2. CASE p \in TailPages
  <2>1. PICK s \in pp.spans : SpanPages(s) = Run(a, n) \cap TailPages BY <1>2 DEF Holds
  <2>. QED BY <1>2, <2>1, TypeOf, SpanTyped
<1>. QED BY <1>1, <1>2

\* An allocation changes the type of the pages granted, all free before, and no other.
LEMMA TakenTypes ==
    ASSUME mapped \in 0 .. MaxMapped, NEW pp, PoolGood(pp), NEW n, NEW typ \in Types,
           NEW r, Granted(pp, r, n), NEW q, q = Taken(pp, r, typ), NEW p \in Managed
    PROVE  IF p \in Run(r.addr, n) THEN TypeIn(pp, p) = "free" /\ TypeIn(q, p) = typ
           ELSE TypeIn(q, p) = TypeIn(pp, p)
<1>1. /\ PoolGood(q) /\ \A x \in Bitmap : q.use[x] = IF x \in r.bits THEN typ ELSE pp.use[x]
      /\ r.span = {} => q.spans = pp.spans
      /\ \A x : r.span = {x} =>
            q.spans = pp.spans \cup {[start |-> x.start, pages |-> x.pages, typ |-> typ]}
  <2>1. Marked(pp, q, r, n, typ) BY TakenGood
  <2>. QED BY <2>1 DEF Marked
<1>2. CASE p \notin TailPages
  <2>1. p \in Bitmap BY <1>2, RegionPages
  <2>2. TypeIn(pp, p) = pp.use[p] /\ TypeIn(q, p) = q.use[p] BY <1>1, <1>2, TypeOf
  <2>3. p \in Run(r.addr, n) <=> p \in r.bits BY <1>2 DEF Granted
  <2>4. p \in r.bits => pp.use[p] = "free" BY DEF Granted, AllFree
  <2>. QED BY <1>1, <2>1, <2>2, <2>3, <2>4
<1>3. CASE p \in TailPages
  <2>1. \A s \in pp.spans : SpanPages(s) \cap Run(r.addr, n) = {} BY DEF Granted
  <2>2. CASE r.span = {} /\ Run(r.addr, n) \cap TailPages = {}
    <3>1. q.spans = pp.spans BY <1>1, <2>2
    <3>2. TypeIn(q, p) = TypeIn(pp, p) BY <1>3, <3>1 DEF TypeIn
    <3>. QED BY <1>3, <2>2, <3>2
  <2>3. ASSUME NEW x \in [start : Nat, pages : Nat \ {0}], r.span = {x},
               SpanPages(x) = Run(r.addr, n) \cap TailPages
        PROVE  IF p \in Run(r.addr, n) THEN TypeIn(pp, p) = "free" /\ TypeIn(q, p) = typ
               ELSE TypeIn(q, p) = TypeIn(pp, p)
    <3>. DEFINE new == [start |-> x.start, pages |-> x.pages, typ |-> typ]
    <3>1. q.spans = pp.spans \cup {new} BY <1>1, <2>3
    <3>2. new.start = x.start /\ new.pages = x.pages /\ new.typ = typ OBVIOUS
    <3>. HIDE DEF new
    <3>3. SpanPages(new) = Run(r.addr, n) \cap TailPages BY <2>3, <3>2 DEF SpanPages
    <3>4. CASE p \in Run(r.addr, n)
      <4>1. TypeIn(pp, p) = "free" BY <1>3, <2>1, <3>4, TypeOf
      <4>2. TypeIn(q, p) = typ BY <1>1, <1>3, <3>1, <3>2, <3>3, <3>4, TypeOf
      <4>. QED BY <3>4, <4>1, <4>2
    <3>5. CASE p \notin Run(r.addr, n)
      <4>1. CASE \E s \in pp.spans : p \in SpanPages(s)
        <5>1. PICK s \in pp.spans : p \in SpanPages(s) BY <4>1
        <5>2. TypeIn(pp, p) = s.typ BY <1>3, <5>1, TypeOf
        <5>3. TypeIn(q, p) = s.typ BY <1>1, <1>3, <3>1, <5>1, TypeOf
        <5>. QED BY <3>5, <5>2, <5>3
      <4>2. CASE ~\E s \in pp.spans : p \in SpanPages(s)
        <5>1. TypeIn(pp, p) = "free" BY <1>3, <4>2, TypeOf
        <5>2. \A s \in q.spans : p \notin SpanPages(s) BY <3>1, <3>3, <3>5, <4>2
        <5>3. TypeIn(q, p) = "free" BY <1>1, <1>3, <5>2, TypeOf
        <5>. QED BY <3>5, <5>1, <5>3
      <4>. QED BY <4>1, <4>2
    <3>. QED BY <3>4, <3>5
  <2>. QED BY <2>2, <2>3 DEF Granted
<1>. QED BY <1>2, <1>3

\* A free makes the pages named conventional, none of which was, and no other.
LEMMA BackTypes ==
    ASSUME mapped \in 0 .. MaxMapped, NEW pp, PoolGood(pp), NEW a, NEW n, NEW q,
           Back(pp, q, a, n), NEW p \in Managed
    PROVE  IF p \in Run(a, n) THEN TypeIn(pp, p) # "free" /\ TypeIn(q, p) = "free"
           ELSE TypeIn(q, p) = TypeIn(pp, p)
<1>1. PoolGood(q) BY DEF Back
<1>2. CASE p \notin TailPages
  <2>1. p \in Bitmap BY <1>2, RegionPages
  <2>2. TypeIn(pp, p) = pp.use[p] /\ TypeIn(q, p) = q.use[p] BY <1>1, <1>2, TypeOf
  <2>3. /\ q.use[p] = IF p \in Run(a, n) \ TailPages THEN "free" ELSE pp.use[p]
        /\ p \in Run(a, n) \ TailPages => pp.use[p] # "free"
    BY <2>1 DEF Back
  <2>. QED BY <1>2, <2>2, <2>3
<1>3. CASE p \in TailPages
  <2>1. CASE q.spans = pp.spans /\ Run(a, n) \cap TailPages = {}
    BY <1>3, <2>1 DEF TypeIn
  <2>2. ASSUME NEW s \in pp.spans, Run(a, n) \cap TailPages \subseteq SpanPages(s),
               NEW left,
               \/ left = {} /\ SpanPages(s) = Run(a, n) \cap TailPages
               \/ \E t \in Span : /\ left = {t} /\ t.typ = s.typ
                                  /\ SpanPages(t) = SpanPages(s) \ Run(a, n),
               q.spans = (pp.spans \ {s}) \cup left
        PROVE  IF p \in Run(a, n) THEN TypeIn(pp, p) # "free" /\ TypeIn(q, p) = "free"
               ELSE TypeIn(q, p) = TypeIn(pp, p)
    <3>1. /\ \A x \in pp.spans : x = s \/ SpanPages(x) \cap SpanPages(s) = {}
          /\ \A x \in left : x.typ = s.typ /\ SpanPages(x) = SpanPages(s) \ Run(a, n)
      BY <2>2 DEF PoolGood
    <3>2. CASE p \in Run(a, n)
      <4>1. p \in SpanPages(s) BY <1>3, <2>2, <3>2
      <4>2. TypeIn(pp, p) # "free" BY <1>3, <4>1, TypeOf, SpanTyped
      <4>3. \A x \in q.spans : p \notin SpanPages(x) BY <2>2, <3>1, <3>2, <4>1
      <4>4. TypeIn(q, p) = "free" BY <1>1, <1>3, <4>3, TypeOf
      <4>. QED BY <3>2, <4>2, <4>4
    <3>3. CASE p \notin Run(a, n)
      <4>1. ASSUME NEW x \in pp.spans, p \in SpanPages(x) PROVE TypeIn(q, p) = TypeIn(pp, p)
        <5>1. TypeIn(pp, p) = x.typ BY <1>3, <4>1, TypeOf
        <5>2. PICK y \in q.spans : p \in SpanPages(y) /\ y.typ = x.typ
          BY <2>2, <3>3, <4>1
        <5>3. TypeIn(q, p) = y.typ BY <1>1, <1>3, <5>2, TypeOf
        <5>. QED BY <5>1, <5>2, <5>3
      <4>2. CASE \A x \in pp.spans : p \notin SpanPages(x)
        <5>1. TypeIn(pp, p) = "free" BY <1>3, <4>2, TypeOf
        <5>2. \A x \in q.spans : p \notin SpanPages(x) BY <2>2, <3>1, <4>2
        <5>3. TypeIn(q, p) = "free" BY <1>1, <1>3, <5>2, TypeOf
        <5>. QED BY <3>3, <5>1, <5>3
      <4>. QED BY <3>3, <4>1, <4>2
    <3>. QED BY <3>2, <3>3
  <2>3. ASSUME NEW s \in pp.spans, Run(a, n) \cap TailPages \subseteq SpanPages(s),
               q.spans = pp.spans \ {s}, SpanPages(s) = Run(a, n) \cap TailPages
        PROVE  IF p \in Run(a, n) THEN TypeIn(pp, p) # "free" /\ TypeIn(q, p) = "free"
               ELSE TypeIn(q, p) = TypeIn(pp, p)
    <3>1. q.spans = (pp.spans \ {s}) \cup {} BY <2>3
    <3>. QED BY <2>2, <2>3, <3>1
  <2>4. ASSUME NEW s \in pp.spans, Run(a, n) \cap TailPages \subseteq SpanPages(s),
               NEW t \in Span, t.typ = s.typ, q.spans = (pp.spans \ {s}) \cup {t},
               SpanPages(t) = SpanPages(s) \ Run(a, n)
        PROVE  IF p \in Run(a, n) THEN TypeIn(pp, p) # "free" /\ TypeIn(q, p) = "free"
               ELSE TypeIn(q, p) = TypeIn(pp, p)
    BY <2>2, <2>4
  <2>. QED BY <2>1, <2>3, <2>4 DEF Back
<1>. QED BY <1>2, <1>3

-----------------------------------------------------------------------------
(* Conventional memory can be allocated where it is *)

\* A run of managed pages has the shape of one the pool hands out: the reserved pages
\* between the regions break every other.
LEMMA ManagedShape ==
    ASSUME mapped \in 0 .. MaxMapped, NEW a \in Nat, NEW n \in Nat \ {0}, Run(a, n) \subseteq Managed
    PROVE  \/ \E r \in Regions : Run(a, n) \subseteq r
           \/ Run(a, n) \subseteq TailPages
           \/ a \in HighPages /\ a + n > TailBase /\ a + n <= TailBase + tail
<1>1. \A p : p \in Run(a, n) <=> p \in Int /\ a <= p /\ p < a + n BY DEF Run
<1>2. \A p \in Managed : p \in BelowPages \/ p \in LowPages \/ p \in HighPages \/ p \in TailPages
  BY RegionPages
<1>3. a \in Run(a, n) /\ a + n - 1 \in Run(a, n) BY <1>1
<1>4. Below + 1 \notin Managed /\ LowBase + Low \notin Managed
  <2>1. \A p \in {Below + 1, LowBase + Low} : ~(p \in BelowPages \/ p \in LowPages \/ p \in HighPages \/ p \in TailPages)
    BY Layout, Pages
  <2>. QED BY <1>2, <2>1
<1>5. Below + 1 \notin Run(a, n) /\ LowBase + Low \notin Run(a, n) BY <1>4
<1>6. {BelowPages, LowPages, HighPages} = Regions BY DEF Regions
<1>7. a + n - 1 \in BelowPages \/ a + n - 1 \in LowPages \/ a + n - 1 \in HighPages \/ a + n - 1 \in TailPages
  BY <1>2, <1>3
<1>8. CASE a \in BelowPages
  <2>1. Run(a, n) \subseteq BelowPages BY <1>1, <1>5, <1>8, Layout, Pages
  <2>. QED BY <1>6, <2>1
<1>9. CASE a \in LowPages
  <2>1. Run(a, n) \subseteq LowPages BY <1>1, <1>5, <1>9, Layout, Pages
  <2>. QED BY <1>6, <2>1
<1>10. CASE a \in HighPages
  <2>1. CASE a + n <= TailBase
    <3>1. Run(a, n) \subseteq HighPages BY <1>1, <1>10, <2>1, Layout, Pages
    <3>. QED BY <1>6, <3>1
  <2>2. CASE a + n > TailBase BY <1>7, <1>10, <2>2, Layout, Pages
  <2>. QED BY <2>1, <2>2, Layout
<1>11. CASE a \in TailPages BY <1>1, <1>7, <1>11, Layout, Pages
<1>. QED BY <1>2, <1>3, <1>8, <1>9, <1>10, <1>11

\* PageType is the type in the pool there is.
LEMMA PageTypeIs == \A p : PageType(p) = TypeIn(pool, p)
BY DEF PageType, TypeIn

\* allocate_pages at the address of a conventional run.
LEMMA HonestHere ==
    ASSUME mapped \in 0 .. MaxMapped, PoolGood(pool)
    PROVE  HonestWhileSpansLast
<1>. SUFFICES ASSUME NEW a \in Managed, NEW n \in 1 .. MaxMapped, Conventional(a, n),
                     SpanLeft(pool) \/ Run(a, n) \cap TailPages = {}
              PROVE  At(pool, a, n).st = "ok"
  BY DEF HonestWhileSpansLast
<1>1. a \in Nat /\ n \in Nat \ {0} BY Layout, RegionPages
<1>2. Run(a, n) \subseteq Managed /\ \A p \in Run(a, n) : TypeIn(pool, p) = "free"
  BY PageTypeIs DEF Conventional
<1>3. \A p \in Run(a, n) : p \notin TailPages => pool.use[p] = "free" BY <1>2, TypeOf
<1>4. \A s \in pool.spans : SpanPages(s) \cap Run(a, n) = {}
  <2>. SUFFICES ASSUME NEW s \in pool.spans, NEW p \in SpanPages(s), p \in Run(a, n) PROVE FALSE
    OBVIOUS
  <2>1. p \in TailPages BY DEF PoolGood
  <2>. QED BY <1>2, <2>1, TypeOf, SpanTyped
<1>5. \A b, bits, span : Take(b, bits, span).st = "ok" BY DEF Take
<1>6. CASE a \in HighPages /\ ~(Run(a, n) \subseteq HighPages)
  <2>. DEFINE k == a + n - TailBase
              x == {[start |-> 0, pages |-> k]}
  <2>1. a + n > TailBase /\ a + n <= TailBase + tail
    <3>1. ~ \E r \in Regions : Run(a, n) \subseteq r
      <4>1. a \in Run(a, n) BY <1>1 DEF Run
      <4>2. BelowPages \cap HighPages = {} /\ LowPages \cap HighPages = {} BY Layout, Pages
      <4>. QED BY <1>6, <4>1, <4>2 DEF Regions
    <3>2. ~(Run(a, n) \subseteq TailPages)
      <4>1. a \in Run(a, n) BY <1>1 DEF Run
      <4>. QED BY <1>6, <4>1, Layout, Pages
    <3>. QED BY <1>1, <1>2, <3>1, <3>2, ManagedShape
  <2>2. /\ a .. TailBase - 1 \subseteq Run(a, n) /\ (a .. TailBase - 1) \cap TailPages = {}
        /\ Run(TailBase, k) \subseteq Run(a, n) /\ TailBase \in Run(a, n) \cap TailPages
    BY <1>1, <1>6, <2>1, Layout, Pages DEF Run
  <2>3. ~(k > tail) BY <1>1, <2>1, Layout
  <2>4. AllFree(pool, a .. TailBase - 1) BY <1>3, <2>2 DEF AllFree
  <2>5. ~TailBusy(pool, TailBase, k) BY <1>4, <2>2 DEF TailBusy
  <2>6. SpanLeft(pool) BY <2>2
  <2>7. AcrossTail(pool, a, n) = Take(a, a .. TailBase - 1, x)
    BY <2>3, <2>4, <2>5, <2>6 DEF AcrossTail
  <2>8. At(pool, a, n) = AcrossTail(pool, a, n) BY <1>6 DEF At
  <2>. QED BY <1>5, <2>7, <2>8
<1>7. CASE ~(a \in HighPages /\ ~(Run(a, n) \subseteq HighPages))
  <2>1. At(pool, a, n) = AtWithin(pool, a, n) BY <1>7 DEF At
  <2>2. CASE \E r \in Regions : Run(a, n) \subseteq r
    <3>1. PICK r \in Regions : Run(a, n) \subseteq r BY <2>2
    <3>2. Run(a, n) \subseteq InRegions BY <3>1 DEF InRegions
    <3>3. AllFree(pool, Run(a, n)) BY <1>3, <3>2, RegionPages DEF AllFree
    <3>4. AtWithin(pool, a, n) = InBitmap(a, n) BY <3>1, <3>3 DEF AtWithin
    <3>. QED BY <1>5, <2>1, <3>4 DEF InBitmap
  <2>3. CASE Run(a, n) \subseteq TailPages
    <3>1. a \in Run(a, n) BY <1>1 DEF Run
    <3>2. SpanLeft(pool) BY <2>3, <3>1
    <3>3. ~TailBusy(pool, a, n) BY <1>4 DEF TailBusy
    <3>4. AtWithin(pool, a, n) = InBitmap(a, n) \/ AtWithin(pool, a, n) = InTail(a, n)
      BY <2>3, <3>2, <3>3 DEF AtWithin
    <3>. QED BY <1>5, <2>1, <3>4 DEF InBitmap, InTail
  <2>4. CASE a \in HighPages /\ a + n > TailBase
    <3>1. TailBase \in Run(a, n) BY <1>1, <2>4, Layout, Pages DEF Run
    <3>2. TailBase \in HighPages BY <1>7, <2>4, <3>1
    <3>. QED BY <3>2, Layout, Pages
  <2>. QED BY <1>1, <1>2, <2>2, <2>3, <2>4, ManagedShape
<1>. QED BY <1>6, <1>7

-----------------------------------------------------------------------------
(* Holders *)

ImageRec == [addr : Nat, n : Nat, id : Nat, ok : BOOLEAN]

Caller(x) == [who |-> <<"caller", 0>>, addr |-> x.addr, n |-> x.n]
Buffer(x) == [who |-> <<"buffer", 0>>, addr |-> x.addr, n |-> x.n]
Loaded(x) == [who |-> <<"image", x.id>>, addr |-> x.addr, n |-> x.n]

\* The images that hold pages: those on the stack and the one on record.
Intact(fr, im) == {f \in ToSet(fr) \cup {im} : f.ok}

Holders(lv, bf, ims) ==
    {Caller(x) : x \in lv} \cup {Buffer(x) : x \in bf} \cup {Loaded(x) : x \in ims}

\* Every holder holds its run whole, and no two of them share a page.
Sound(pp, hs) ==
    /\ PoolGood(pp)
    /\ \A x \in hs : Holds(pp, x.addr, x.n)
    /\ \A x, y \in hs : x = y \/ Run(x.addr, x.n) \cap Run(y.addr, y.n) = {}

\* Held, in those terms.
LEMMA HeldIs == Held = Holders(live, bufs, Intact(frames, img))
BY DEF Held, Holders, Intact, Caller, Buffer, Loaded

\* Fewer holders are still sound.
LEMMA Fewer == ASSUME NEW pp, NEW hs, NEW less, Sound(pp, hs), less \subseteq hs PROVE Sound(pp, less)
BY DEF Sound

\* At most one holder more, of the n pages at a.
Adds(hs, more, a, n) ==
    /\ \A x \in more : x \in hs \/ (x.addr = a /\ x.n = n)
    /\ \A x, y \in more : x \notin hs /\ y \notin hs => x = y

\* A grant adds a holder, or pages nobody holds.
LEMMA Grown ==
    ASSUME NEW pp, NEW hs, Sound(pp, hs), NEW q, NEW r, NEW n, NEW typ, Marked(pp, q, r, n, typ),
           NEW more, Adds(hs, more, r.addr, n)
    PROVE  Sound(q, more)
<1>0. /\ \A x \in more : x \in hs \/ (x.addr = r.addr /\ x.n = n)
      /\ \A x, y \in more : x \notin hs /\ y \notin hs => x = y
  BY DEF Adds
<1>1. PoolGood(q) /\ Holds(q, r.addr, n) BY DEF Marked
<1>2. \A x \in hs : Holds(q, x.addr, x.n) /\ Run(x.addr, x.n) \cap Run(r.addr, n) = {}
  BY DEF Sound, Marked
<1>3. \A x \in more : Holds(q, x.addr, x.n) BY <1>0, <1>1, <1>2
<1>4. ASSUME NEW x \in more, NEW y \in more, x # y
      PROVE  Run(x.addr, x.n) \cap Run(y.addr, y.n) = {}
  <2>1. CASE x \in hs /\ y \in hs BY <1>4, <2>1 DEF Sound
  <2>2. CASE x \in hs /\ y \notin hs BY <1>0, <1>2, <2>2
  <2>3. CASE x \notin hs /\ y \in hs
    <3>1. x.addr = r.addr /\ x.n = n BY <1>0, <2>3
    <3>2. Run(y.addr, y.n) \cap Run(r.addr, n) = {} BY <1>2, <2>3
    <3>. QED BY <3>1, <3>2
  <2>. QED BY <1>0, <1>4, <2>1, <2>2, <2>3
<1>. QED BY <1>1, <1>3, <1>4 DEF Sound

\* A free takes nothing from a holder it does not meet.
LEMMA Freer ==
    ASSUME mapped \in 0 .. MaxMapped, NEW pp, NEW hs, Sound(pp, hs), NEW a \in Nat, NEW n \in Nat,
           NEW q, q = FreeAt(pp, a, n).pool,
           NEW less, less \subseteq hs,
           FreeAt(pp, a, n).ok => \A x \in less : Run(x.addr, x.n) \cap Run(a, n) = {}
    PROVE  Sound(q, less)
<1>. DEFINE f == FreeAt(pp, a, n)
<1>1. PoolGood(pp) BY DEF Sound
<1>2. IF f.ok THEN Back(pp, f.pool, a, n) ELSE f.pool = pp BY <1>1, FreeAtGood
<1>3. CASE ~f.ok
  <2>1. q = pp BY <1>2, <1>3
  <2>. QED BY <2>1, Fewer
<1>4. CASE f.ok
  <2>1. Back(pp, q, a, n) BY <1>2, <1>4
  <2>2. PoolGood(q) BY <2>1 DEF Back
  <2>3. ASSUME NEW x \in less PROVE Holds(q, x.addr, x.n)
    <3>1. Holds(pp, x.addr, x.n) BY DEF Sound
    <3>2. Run(x.addr, x.n) \cap Run(a, n) = {} BY <1>4
    <3>. QED BY <1>1, <2>1, <3>1, <3>2, BackKeeps
  <2>. QED BY <2>2, <2>3 DEF Sound
<1>. QED BY <1>3, <1>4

Clear(hs, a, n) == \A x \in hs : Run(x.addr, x.n) \cap Run(a, n) = {}

\* The same, for a free of pages that no holder left has.
LEMMA ClearFree ==
    ASSUME mapped \in 0 .. MaxMapped, NEW pp, NEW hs, Sound(pp, hs), NEW a \in Nat, NEW n \in Nat,
           NEW less, less \subseteq hs, Clear(less, a, n)
    PROVE  Sound(FreeAt(pp, a, n).pool, less)
BY Freer DEF Clear

\* What an answer of allocate_pages does to the pool.
LEMMA AnswerIs ==
    ASSUME mapped \in 0 .. MaxMapped, NEW pp, PoolGood(pp), NEW n \in Nat, NEW arg \in Nat,
           NEW kind \in {"any", "max", "address"}, NEW typ \in Types \cup BadTypes,
           NEW r, r = Answer(pp, kind, typ, n, arg)
    PROVE  IF r.st = "ok"
           THEN /\ Granted(pp, r, n) /\ typ \in Types /\ n \in Nat \ {0} /\ r.addr \in Nat \ {0}
                /\ Marked(pp, Taken(pp, r, typ), r, n, typ)
                /\ FreeAt(Taken(pp, r, typ), r.addr, n).pool = pp
           ELSE Taken(pp, r, typ) = pp
<1>1. CASE r.st = "ok"
  <2>1. Granted(pp, r, n) /\ typ \in Types /\ n > 0 BY <1>1, AnswerGrants
  <2>2. Marked(pp, Taken(pp, r, typ), r, n, typ) BY <2>1, TakenGood
  <2>3. FreeAt(Taken(pp, r, typ), r.addr, n).pool = pp BY <2>1, TakenBack
  <2>4. Shape(r.addr, n) BY <2>1 DEF Granted
  <2>5. r.addr \in Nat \ {0} BY <2>4, ShapeIs
  <2>. QED BY <1>1, <2>1, <2>2, <2>3, <2>5
<1>2. CASE r.st # "ok" BY <1>2, RefusedTakesNothing
<1>. QED BY <1>1, <1>2

-----------------------------------------------------------------------------
(* The inductive invariant *)

\* The stack: an image on it that is also the one on record is the boot loader that the
\* launcher entered, before any load replaced it, or was started last, so the saved
\* context lies below it; that is the caller's unless an image has returned.
StackGood(fr, im, st, cx, g) ==
    /\ fr \in Seq(ImageRec) /\ im \in ImageRec /\ st \in BOOLEAN /\ cx \in Nat
    /\ g = [loads |-> g.loads, plain |-> g.plain, spoilt |-> g.spoilt, given |-> g.given]
    /\ g.loads \in Nat /\ g.plain \in BOOLEAN /\ g.spoilt \in BOOLEAN
    /\ im.id <= g.loads /\ im.n \in Nat /\ (im.ok => im.id > 0)
    /\ \A k \in 1 .. Len(fr) : fr[k].id <= g.loads /\ (fr[k].ok => fr[k].id > 0)
    /\ \A k \in 1 .. Len(fr) : fr[k].ok /\ fr[k].id = im.id => (k = 1 /\ fr[k] = im) \/ (st /\ cx < k)
    /\ st /\ ~g.plain => cx = Len(fr) - 1

FwIInv ==
    /\ mapped \in 0 .. MaxMapped
    /\ PoolGood(pool)
    /\ \A x \in live : Holds(pool, x.addr, x.n)
    /\ ~ghost.spoilt => Sound(pool, Holders(live, bufs, Intact(frames, img)))
    /\ StackGood(frames, img, started, ctx, ghost)
    /\ guest = "memory" => bufs = {} /\ Intact(frames, img) = {}
    /\ bufs \subseteq [addr : Nat, n : Nat]

\* The layout does not change while the guest runs.
LEMMA LayoutStays ==
    ASSUME mapped' = mapped
    PROVE  /\ PoolGood(pool') <=> PoolGood(pool)'
           /\ \A x : Holds(pool', x.addr, x.n) <=> Holds(pool, x.addr, x.n)'
           /\ Sound(pool', Holders(live', bufs', Intact(frames', img')))
                <=> Sound(pool, Holders(live, bufs, Intact(frames, img)))'
           /\ \A p : PageType(p)' = TypeIn(pool', p)
<1>1. /\ TailPages' = TailPages /\ TailBase' = TailBase /\ HighPages' = HighPages /\ tail' = tail
      /\ Regions' = Regions
  BY DEF TailPages, TailBase, HighPages, tail, high, Regions
<1>2. \A s : SpanPages(s)' = SpanPages(s) BY <1>1 DEF SpanPages
<1>3. PoolGood(pool') <=> PoolGood(pool)' BY <1>1, <1>2 DEF PoolGood
<1>4. \A a, n : Shape(a, n)' <=> Shape(a, n) BY <1>1 DEF Shape
<1>5. \A a, n : Holds(pool', a, n) <=> Holds(pool, a, n)' BY <1>1, <1>2, <1>4 DEF Holds
<1>6. Sound(pool', Holders(live', bufs', Intact(frames', img')))
        <=> Sound(pool, Holders(live, bufs, Intact(frames, img)))'
  BY <1>3, <1>5 DEF Sound
<1>7. \A p : PageType(p)' = TypeIn(pool', p) BY <1>1, <1>2 DEF PageType, TypeIn
<1>. QED BY <1>3, <1>5, <1>6, <1>7

\* What a step has to show.
LEMMA ServStep ==
    ASSUME FwIInv, UNCHANGED <<mapped, guest>>,
           Sound(pool', Holders(live', bufs', Intact(frames', img'))),
           StackGood(frames', img', started', ctx', ghost'),
           guest = "memory" => bufs' = {} /\ Intact(frames', img') = {},
           bufs' \subseteq [addr : Nat, n : Nat]
    PROVE  FwIInv'
<1>1. \A x \in live' : Holds(pool', x.addr, x.n)
  <2>1. \A x \in live' : Caller(x) \in Holders(live', bufs', Intact(frames', img')) BY DEF Holders
  <2>2. \A x \in live' : Caller(x).addr = x.addr /\ Caller(x).n = x.n BY DEF Caller
  <2>. QED BY <2>1, <2>2 DEF Sound
<1>2. PoolGood(pool') BY DEF Sound
<1>3. /\ PoolGood(pool)' /\ (\A x \in live : Holds(pool, x.addr, x.n))'
      /\ Sound(pool, Holders(live, bufs, Intact(frames, img)))'
  BY <1>1, <1>2, LayoutStays
<1>. QED BY <1>3 DEF FwIInv

\* A run the services name is one of numbers.
LEMMA HeldNumbers ==
    ASSUME NEW pp, NEW hs, Sound(pp, hs), NEW x \in hs
    PROVE  x.addr \in Nat /\ x.n \in Nat \ {0}
BY DEF Sound, Holds, Shape

\* AllocatePages
LEMMA AllocatePagesStep ==
    ASSUME mapped \in 0 .. MaxMapped, NEW bf, NEW ims, Sound(pool, Holders(live, bf, ims)),
           NEW kind \in {"any", "max", "address"}, NEW typ \in Types \cup BadTypes,
           NEW n \in Nat, NEW arg \in Nat, NEW stored \in BOOLEAN,
           AllocatePages(kind, typ, n, arg, stored)
    PROVE  Sound(pool', Holders(live', bf, ims)) /\ mapped' = mapped
<1>. DEFINE r == Answer(pool, kind, typ, n, arg)
            q == Taken(pool, r, typ)
            new == [addr |-> r.addr, n |-> n]
<1>1. mapped' = mapped BY DEF AllocatePages
<1>2. /\ pool' = IF r.st = "ok" /\ ~stored THEN FreeAt(q, r.addr, n).pool ELSE q
      /\ live' = IF r.st = "ok" /\ stored THEN live \cup {new} ELSE live
  BY DEF AllocatePages
<1>3. PoolGood(pool) BY DEF Sound
<1>. HIDE DEF r
<1>4. IF r.st = "ok" THEN Marked(pool, q, r, n, typ) /\ FreeAt(q, r.addr, n).pool = pool
      ELSE q = pool
  BY <1>3, AnswerIs DEF r
<1>. HIDE DEF q
<1>5. CASE ~(r.st = "ok" /\ stored)
  <2>1. pool' = pool /\ live' = live BY <1>2, <1>4, <1>5
  <2>. QED BY <1>1, <2>1
<1>6. CASE r.st = "ok" /\ stored
  <2>1. pool' = q /\ live' = live \cup {new} /\ Marked(pool, q, r, n, typ) BY <1>2, <1>4, <1>6
  <2>2. Caller(new).addr = r.addr /\ Caller(new).n = n BY DEF Caller
  <2>. HIDE DEF new
  <2>3. \A x \in Holders(live', bf, ims) : x \in Holders(live, bf, ims) \/ x = Caller(new)
    BY <2>1 DEF Holders
  <2>4. Adds(Holders(live, bf, ims), Holders(live', bf, ims), r.addr, n) BY <2>2, <2>3 DEF Adds
  <2>5. Sound(q, Holders(live', bf, ims)) BY <2>1, <2>4, Grown
  <2>. QED BY <1>1, <2>1, <2>5
<1>. QED BY <1>5, <1>6

\* FreePages of a run no buffer and no image has a page of.
LEMMA FreePagesStep ==
    ASSUME mapped \in 0 .. MaxMapped, NEW bf, NEW ims, Sound(pool, Holders(live, bf, ims)),
           NEW a \in Nat, NEW n \in Nat, FreePages(a, n),
           \A x \in Holders({}, bf, ims) : Run(x.addr, x.n) \cap Run(a, n) = {}
    PROVE  Sound(pool', Holders(live', bf, ims)) /\ mapped' = mapped
<1>. DEFINE f == FreeAt(pool, a, n)
<1>1. /\ pool' = f.pool /\ mapped' = mapped
      /\ live' = IF f.ok THEN {x \in live : Run(x.addr, x.n) \cap Run(a, n) = {}} ELSE live
  BY DEF FreePages
<1>. HIDE DEF f
<1>2. Holders(live', bf, ims) \subseteq Holders(live, bf, ims)
  <2>1. live' \subseteq live BY <1>1
  <2>. QED BY <2>1 DEF Holders
<1>3. ASSUME f.ok, NEW x \in Holders(live', bf, ims) PROVE Run(x.addr, x.n) \cap Run(a, n) = {}
  <2>1. CASE x \in Holders({}, bf, ims) BY <2>1
  <2>2. ASSUME NEW y \in live', x = Caller(y) PROVE Run(x.addr, x.n) \cap Run(a, n) = {}
    <3>1. Run(y.addr, y.n) \cap Run(a, n) = {} BY <1>1, <1>3
    <3>2. x.addr = y.addr /\ x.n = y.n BY <2>2 DEF Caller
    <3>. QED BY <3>1, <3>2
  <2>. QED BY <2>1, <2>2 DEF Holders
<1>4. Sound(pool', Holders(live', bf, ims)) BY <1>1, <1>2, <1>3, Freer DEF f
<1>. QED BY <1>1, <1>4

\* The memory services.
LEMMA MemoryStep ==
    ASSUME FwIInv, ~ghost.spoilt, Memory
    PROVE  FwIInv'
<1>. DEFINE ims == Intact(frames, img)
            Args == \E kind \in {"any", "max", "address"}, typ \in Types \cup BadTypes, n \in Nat,
                       arg \in Nat, stored \in BOOLEAN : AllocatePages(kind, typ, n, arg, stored)
            AnyRun == guest = "memory" /\ \E a \in Nat, n \in Nat : FreePages(a, n)
            Own == \E x \in live : FreePages(x.addr, x.n)
<1>1. Sound(pool, Holders(live, bufs, ims)) /\ mapped \in 0 .. MaxMapped BY DEF FwIInv
<1>2. UNCHANGED <<guest, bufs, ghost, img, started, ctx, frames>> BY DEF Memory, Image
<1>3. Args \/ AnyRun \/ Own
  <2>1. Limit \in Nat /\ MaxRun \in Nat BY <1>1, Layout, SizesAreNat
  <2>2. LoaderType \in Types BY ServicesAssumption DEF LoaderType
  <2>3. CASE guest = "memory" /\ Next
    <3>1. ASSUME NEW n \in 0 .. MaxRun, NEW t \in Types \cup BadTypes, NEW s \in Asks,
                 NEW stored \in BOOLEAN, AllocatePages(s[1], t, n, s[2], stored)
          PROVE  Args
      <4>1. s[1] \in {"any", "max", "address"} /\ s[2] \in Nat /\ n \in Nat
        BY <2>1 DEF Asks
      <4>. QED BY <3>1, <4>1
    <3>2. ASSUME NEW a \in 0 .. Limit, NEW n \in 0 .. MaxRun, FreePages(a, n) PROVE AnyRun
      BY <2>1, <2>3, <3>2
    <3>. HIDE DEF Args, AnyRun
    <3>. QED BY <2>3, <3>1, <3>2 DEF Next
  <2>4. CASE \E stored \in BOOLEAN : AllocatePages("any", LoaderType, 1, 0, stored)
    <3>1. 1 \in Nat /\ 0 \in Nat OBVIOUS
    <3>. QED BY <2>2, <2>4, <3>1
  <2>. QED BY <2>3, <2>4 DEF Memory
<1>4. Sound(pool', Holders(live', bufs, ims)) /\ mapped' = mapped
  <2>1. CASE Args BY <1>1, <2>1, AllocatePagesStep
  <2>2. CASE AnyRun
    <3>1. Holders({}, bufs, ims) = {} BY <2>2 DEF FwIInv, Holders
    <3>. QED BY <1>1, <2>2, <3>1, FreePagesStep
  <2>3. CASE Own
    <3>1. PICK x \in live : FreePages(x.addr, x.n) BY <2>3
    <3>2. Caller(x) \in Holders(live, bufs, ims) BY DEF Holders
    <3>3. Caller(x).addr = x.addr /\ Caller(x).n = x.n BY DEF Caller
    <3>4. x.addr \in Nat /\ x.n \in Nat BY <1>1, <3>2, <3>3, HeldNumbers
    <3>5. ASSUME NEW y \in Holders({}, bufs, ims) PROVE Run(y.addr, y.n) \cap Run(x.addr, x.n) = {}
      <4>1. y \in Holders(live, bufs, ims) BY DEF Holders
      <4>2. y # Caller(x)
        <5>1. y.who[1] \in {"buffer", "image"} BY DEF Holders, Buffer, Loaded
        <5>2. Caller(x).who[1] = "caller" BY DEF Caller
        <5>. QED BY <5>1, <5>2
      <4>. QED BY <1>1, <3>2, <3>3, <4>1, <4>2 DEF Sound
    <3>. QED BY <1>1, <3>1, <3>4, <3>5, FreePagesStep
  <2>. QED BY <1>3, <2>1, <2>2, <2>3
<1>. QED BY <1>2, <1>4, ServStep DEF FwIInv

\* AllocatePool and LocateHandleBuffer.
LEMMA AllocatePoolStep ==
    ASSUME FwIInv, ~ghost.spoilt, guest # "memory", NEW stored \in BOOLEAN, AllocatePool(stored)
    PROVE  FwIInv'
<1>. DEFINE ims == Intact(frames, img)
            r == Answer(pool, "any", LoaderType, 1, 0)
            q == Taken(pool, r, LoaderType)
            new == [addr |-> r.addr, n |-> 1]
<1>1. Sound(pool, Holders(live, bufs, ims)) /\ mapped \in 0 .. MaxMapped /\ PoolGood(pool)
  BY DEF FwIInv
<1>2. /\ r.st = "ok" /\ pool' = IF stored THEN q ELSE FreeAt(q, r.addr, 1).pool
      /\ bufs' = IF stored THEN bufs \cup {new} ELSE bufs
      /\ UNCHANGED <<mapped, guest, live, ghost, img, started, ctx, frames>>
  BY DEF AllocatePool, Fixed, Image
<1>3. LoaderType \in Types \cup BadTypes BY ServicesAssumption DEF LoaderType
<1>. HIDE DEF r
<1>4. Marked(pool, q, r, 1, LoaderType) /\ FreeAt(q, r.addr, 1).pool = pool
  <2>1. 1 \in Nat /\ 0 \in Nat OBVIOUS
  <2>. QED BY <1>1, <1>2, <1>3, <2>1, AnswerIs DEF r
<1>. HIDE DEF q
<1>5. Sound(pool', Holders(live, bufs', ims))
  <2>1. CASE ~stored BY <1>1, <1>2, <1>4, <2>1
  <2>2. CASE stored
    <3>1. pool' = q /\ bufs' = bufs \cup {new} BY <1>2, <2>2
    <3>2. Buffer(new).addr = r.addr /\ Buffer(new).n = 1 BY DEF Buffer
    <3>. HIDE DEF new
    <3>3. \A x \in Holders(live, bufs', ims) : x \in Holders(live, bufs, ims) \/ x = Buffer(new)
      BY <3>1 DEF Holders
    <3>4. Adds(Holders(live, bufs, ims), Holders(live, bufs', ims), r.addr, 1) BY <3>2, <3>3 DEF Adds
    <3>5. Sound(pool, Holders(live, bufs, ims)) /\ Marked(pool, q, r, 1, LoaderType)
      BY <1>1, <1>4
    <3>. HIDE DEF ims
    <3>6. Sound(q, Holders(live, bufs', ims)) BY <3>4, <3>5, Grown
    <3>. QED BY <3>1, <3>6
  <2>. QED BY <2>1, <2>2
<1>6. bufs' \subseteq [addr : Nat, n : Nat]
  <2>1. Holds(q, r.addr, 1) BY <1>4 DEF Marked
  <2>2. r.addr \in Nat BY <2>1 DEF Holds, Shape
  <2>. QED BY <1>2, <2>2 DEF FwIInv
<1>. QED BY <1>2, <1>5, <1>6, ServStep DEF FwIInv

\* FreePool
LEMMA FreePoolStep ==
    ASSUME FwIInv, ~ghost.spoilt, guest # "memory", NEW x \in bufs, FreePool(x)
    PROVE  FwIInv'
<1>. DEFINE ims == Intact(frames, img)
<1>1. Sound(pool, Holders(live, bufs, ims)) /\ mapped \in 0 .. MaxMapped BY DEF FwIInv
<1>2. /\ pool' = FreeAt(pool, x.addr, x.n).pool /\ bufs' = bufs \ {x}
      /\ UNCHANGED <<mapped, guest, live, ghost, img, started, ctx, frames>>
  BY DEF FreePool, Fixed, Image
<1>3. Buffer(x) \in Holders(live, bufs, ims) BY DEF Holders
<1>4. Buffer(x).addr = x.addr /\ Buffer(x).n = x.n BY DEF Buffer
<1>5. x.addr \in Nat /\ x.n \in Nat BY <1>1, <1>3, <1>4, HeldNumbers
<1>6. Holders(live, bufs', ims) \subseteq Holders(live, bufs, ims) BY <1>2 DEF Holders
<1>7. ASSUME NEW y \in Holders(live, bufs', ims) PROVE Run(y.addr, y.n) \cap Run(x.addr, x.n) = {}
  <2>1. \A z \in bufs' : Buffer(z) # Buffer(x)
    <3>1. \A z \in bufs : z = [addr |-> z.addr, n |-> z.n] BY DEF FwIInv
    <3>2. \A z : Buffer(z).addr = z.addr /\ Buffer(z).n = z.n BY DEF Buffer
    <3>. QED BY <1>2, <3>1, <3>2
  <2>2. y # Buffer(x)
    <3>1. (\A z : Caller(z).who[1] = "caller" /\ Loaded(z).who[1] = "image")
          /\ Buffer(x).who[1] = "buffer"
      BY DEF Caller, Loaded, Buffer
    <3>. QED BY <2>1, <3>1 DEF Holders
  <2>. QED BY <1>1, <1>3, <1>4, <1>6, <2>2 DEF Sound
<1>8. Sound(pool', Holders(live, bufs', ims))
  <2>1. Clear(Holders(live, bufs', ims), x.addr, x.n) BY <1>7 DEF Clear
  <2>2. Sound(FreeAt(pool, x.addr, x.n).pool, Holders(live, bufs', ims))
    BY <1>1, <1>5, <1>6, <2>1, ClearFree
  <2>. QED BY <1>2, <2>2
<1>. QED BY <1>2, <1>8, ServStep DEF FwIInv

\* A step after which the guest is not followed further.
LEMMA SpoiltStep ==
    ASSUME FwIInv, UNCHANGED <<mapped, guest>>, guest # "memory", ghost'.spoilt,
           PoolGood(pool'), \A x \in live' : Holds(pool', x.addr, x.n),
           StackGood(frames', img', started', ctx', ghost'),
           bufs' \subseteq [addr : Nat, n : Nat]
    PROVE  FwIInv'
<1>1. PoolGood(pool)' /\ (\A x \in live : Holds(pool, x.addr, x.n))' BY LayoutStays
<1>. QED BY <1>1 DEF FwIInv

\* A step that leaves pages and holders alone.
LEMMA QuietStep ==
    ASSUME FwIInv, ~ghost.spoilt, UNCHANGED <<mapped, guest, pool, live, bufs, img, frames>>,
           StackGood(frames, img, started', ctx', ghost')
    PROVE  FwIInv'
<1>1. Sound(pool', Holders(live', bufs', Intact(frames', img'))) BY DEF FwIInv
<1>2. StackGood(frames', img', started', ctx', ghost') OBVIOUS
<1>. QED BY <1>1, <1>2, ServStep DEF FwIInv

\* The protocol data base holds no pages.
LEMMA GivenStep ==
    ASSUME FwIInv, ~ghost.spoilt, UNCHANGED <<mapped, guest, pool, live, bufs, img, started, ctx, frames>>,
           NEW given, ghost' = [ghost EXCEPT !.given = given]
    PROVE  FwIInv'
<1>1. StackGood(frames, img, started, ctx, ghost) BY DEF FwIInv
<1>2. /\ ghost'.loads = ghost.loads /\ ghost'.plain = ghost.plain /\ ghost'.spoilt = ghost.spoilt
      /\ ghost' = [loads |-> ghost'.loads, plain |-> ghost'.plain, spoilt |-> ghost'.spoilt,
                   given |-> ghost'.given]
  BY <1>1 DEF StackGood
<1>3. StackGood(frames, img, started, ctx, ghost') BY <1>1, <1>2 DEF StackGood
<1>. QED BY <1>3, QuietStep

\* OpenGrub
LEMMA OpenGrubStep == ASSUME FwIInv, ~ghost.spoilt, OpenGrub PROVE FwIInv'
<1>1. UNCHANGED <<mapped, guest, pool, live, bufs, img, started, ctx, frames, ghost>>
  BY DEF OpenGrub, Fixed
<1>2. StackGood(frames, img, started', ctx', ghost') BY <1>1 DEF FwIInv
<1>. QED BY <1>1, <1>2, QuietStep

\* Installing and uninstalling.
LEMMA InstallStep ==
    ASSUME FwIInv, ~ghost.spoilt, NEW h, NEW pairs, NEW stored, NEW g, NEW i,
           \/ InstallMultiple(h, pairs, stored)
           \/ InstallProtocol(h, g, i)
           \/ UninstallMultiple(h, pairs)
    PROVE  FwIInv'
<1>1. UNCHANGED <<mapped, guest, pool, live, bufs, img, started, ctx, frames>>
  BY DEF InstallMultiple, InstallProtocol, UninstallMultiple, Fixed, Image
<1>2. \E given : ghost' = [ghost EXCEPT !.given = given]
  BY DEF InstallMultiple, InstallProtocol, UninstallMultiple
<1>. QED BY <1>1, <1>2, GivenStep

\* An image that is recorded: what holds pages besides it.
LEMMA NewImage ==
    ASSUME NEW fr, NEW im, NEW new, NEW lv, NEW bf
    PROVE  /\ \A x \in Holders(lv, bf, Intact(fr, new)) :
                 x \in Holders(lv, bf, Intact(fr, im)) \/ x = Loaded(new)
           /\ ~new.ok => Holders(lv, bf, Intact(fr, new)) \subseteq Holders(lv, bf, Intact(fr, im))
<1>1. \A f \in Intact(fr, new) : f \in Intact(fr, im) \/ f = new BY DEF Intact
<1>2. ~new.ok => Intact(fr, new) \subseteq Intact(fr, im) BY DEF Intact
<1>. QED BY <1>1, <1>2 DEF Holders

\* A load is recorded under a number no program on the stack has.
LEMMA LoadedStack ==
    ASSUME NEW fr, NEW im, NEW st, NEW cx, NEW g, StackGood(fr, im, st, cx, g),
           NEW new \in ImageRec, new.id = g.loads + 1,
           NEW h, h = [g EXCEPT !.loads = @ + 1]
    PROVE  StackGood(fr, new, st, cx, h)
<1>1. /\ h.loads = g.loads + 1 /\ h.plain = g.plain /\ h.spoilt = g.spoilt
      /\ h = [loads |-> h.loads, plain |-> h.plain, spoilt |-> h.spoilt, given |-> h.given]
  BY DEF StackGood
<1>2. fr \in Seq(ImageRec) /\ g.loads \in Nat BY DEF StackGood
<1>3. \A k \in 1 .. Len(fr) : fr[k].id \in Nat /\ fr[k].id <= g.loads
  <2>1. \A k \in 1 .. Len(fr) : fr[k] \in ImageRec BY <1>2
  <2>2. \A k \in 1 .. Len(fr) : fr[k].id <= g.loads BY DEF StackGood
  <2>. QED BY <2>1, <2>2 DEF ImageRec
<1>4. \A k \in 1 .. Len(fr) : fr[k].id <= h.loads /\ fr[k].id # new.id BY <1>1, <1>2, <1>3
<1>5. new.n \in Nat /\ new.id <= h.loads /\ new.id > 0 BY <1>1, <1>2 DEF ImageRec
<1>. QED BY <1>1, <1>2, <1>4, <1>5 DEF StackGood

\* LoadImage
LEMMA LoadImageStep ==
    ASSUME FwIInv, ~ghost.spoilt, guest # "memory", NEW n \in 1 .. 2, NEW end, LoadImage(n, end)
    PROVE  FwIInv'
<1>. DEFINE r   == Answer(pool, "any", LoaderType, n, 0)
            got == Taken(pool, r, LoaderType)
            r2  == Answer(got, "any", LoaderType, 1, 0)
            prefixed == grub /\ r2.st = "ok"
            all == IF prefixed THEN Taken(got, r2, LoaderType) ELSE got
            isOk == end = "ok"
            new == [addr |-> r.addr, n |-> n, id |-> ghost.loads + 1, ok |-> isOk]
            hs  == Holders(live, bufs, Intact(frames, img))
            hs2 == Holders(live, bufs, Intact(frames, new))
<1>1. Sound(pool, hs) /\ mapped \in 0 .. MaxMapped /\ PoolGood(pool) /\ 1 \in Nat /\ 0 \in Nat
      /\ n \in Nat
  BY DEF FwIInv
<1>2. /\ r.st = "ok"
      /\ IF end = "pe" THEN pool' = FreeAt(got, r.addr, n).pool /\ UNCHANGED <<img, ghost>>
         ELSE /\ pool' = IF isOk THEN all ELSE FreeAt(all, r.addr, n).pool
              /\ img' = new
              /\ ghost' = [ghost EXCEPT !.loads = @ + 1]
      /\ UNCHANGED <<mapped, guest, live, bufs, started, ctx, frames>>
  BY DEF LoadImage, Fixed
<1>3. LoaderType \in Types \cup BadTypes BY ServicesAssumption DEF LoaderType
<1>4. isOk \in BOOLEAN OBVIOUS
<1>. HIDE DEF r, isOk
<1>5. /\ Marked(pool, got, r, n, LoaderType) /\ FreeAt(got, r.addr, n).pool = pool
      /\ r.addr \in Nat
  <2>1. r = Answer(pool, "any", LoaderType, n, 0) BY DEF r
  <2>2. PoolGood(pool) /\ mapped \in 0 .. MaxMapped /\ n \in Nat /\ 0 \in Nat BY <1>1
  <2>3. r.st = "ok" BY <1>2
  <2>4. "any" \in {"any", "max", "address"} OBVIOUS
  <2>5. IF r.st = "ok"
        THEN /\ Granted(pool, r, n) /\ LoaderType \in Types /\ n \in Nat \ {0} /\ r.addr \in Nat \ {0}
             /\ Marked(pool, Taken(pool, r, LoaderType), r, n, LoaderType)
             /\ FreeAt(Taken(pool, r, LoaderType), r.addr, n).pool = pool
        ELSE Taken(pool, r, LoaderType) = pool
    BY <1>3, <2>1, <2>2, <2>4, AnswerIs
  <2>. QED BY <2>3, <2>5
<1>6. PoolGood(got) BY <1>5 DEF Marked
<1>. HIDE DEF got, r2
<1>7. prefixed => Marked(got, all, r2, 1, LoaderType)
  <2>. SUFFICES ASSUME prefixed PROVE Marked(got, all, r2, 1, LoaderType) OBVIOUS
  <2>1. Marked(got, Taken(got, r2, LoaderType), r2, 1, LoaderType)
    BY <1>1, <1>3, <1>6, AnswerIs DEF r2
  <2>. QED BY <2>1
<1>8. ~prefixed => all = got OBVIOUS
<1>. HIDE DEF prefixed, all
<1>9. new.addr = r.addr /\ new.n = n /\ new.ok = isOk /\ new.id = ghost.loads + 1 OBVIOUS
<1>10. StackGood(frames, img, started, ctx, ghost) BY DEF FwIInv
<1>11. new \in ImageRec
  <2>1. ghost.loads + 1 \in Nat BY <1>10 DEF StackGood
  <2>. QED BY <1>1, <1>4, <1>5, <2>1 DEF ImageRec
<1>. HIDE DEF new
<1>12. Loaded(new).addr = r.addr /\ Loaded(new).n = n BY <1>9 DEF Loaded
<1>13. /\ \A x \in hs2 : x \in hs \/ x = Loaded(new)
       /\ ~isOk => hs2 \subseteq hs
  BY <1>9, NewImage
<1>14. bufs' \subseteq [addr : Nat, n : Nat] BY <1>2 DEF FwIInv
<1>15. CASE end = "pe"
  <2>1. UNCHANGED <<mapped, guest, pool, live, bufs, img, frames, started, ctx, ghost>>
    BY <1>2, <1>5, <1>15
  <2>2. StackGood(frames, img, started', ctx', ghost') BY <1>10, <2>1
  <2>. QED BY <2>1, <2>2, QuietStep
<1>16. ASSUME end # "pe" PROVE Sound(pool', hs2)
  <2>. HIDE DEF hs, hs2
  <2>1. Adds(hs, hs2, r.addr, n) BY <1>12, <1>13 DEF Adds
  <2>2. Sound(got, hs2) BY <1>1, <1>5, <2>1, Grown
  <2>3. Sound(all, hs2)
    <3>1. CASE ~prefixed BY <1>8, <2>2, <3>1
    <3>2. CASE prefixed
      <4>1. Adds(hs2, hs2, r2.addr, 1) BY DEF Adds
      <4>. QED BY <1>7, <2>2, <3>2, <4>1, Grown
    <3>. QED BY <3>1, <3>2
  <2>4. CASE isOk BY <1>2, <1>16, <2>3, <2>4
  <2>5. CASE ~isOk
    <3>1. pool' = FreeAt(all, r.addr, n).pool BY <1>2, <1>16, <2>5
    <3>2. Clear(hs2, r.addr, n)
      <4>1. \A x \in hs2 : Holds(pool, x.addr, x.n) BY <1>1, <1>13, <2>5 DEF Sound
      <4>. QED BY <1>5, <4>1 DEF Marked, Clear
    <3>3. hs2 \subseteq hs2 /\ mapped \in 0 .. MaxMapped /\ n \in Nat /\ r.addr \in Nat BY <1>1, <1>5
    <3>4. Sound(FreeAt(all, r.addr, n).pool, hs2) BY <2>3, <3>2, <3>3, ClearFree
    <3>. QED BY <3>1, <3>4
  <2>. QED BY <2>4, <2>5
<1>17. CASE end # "pe"
  <2>1. img' = new /\ ghost' = [ghost EXCEPT !.loads = @ + 1] BY <1>2, <1>17
  <2>2. StackGood(frames, new, started, ctx, ghost') BY <1>9, <1>10, <1>11, <2>1, LoadedStack
  <2>3. Sound(pool', Holders(live', bufs', Intact(frames', img'))) BY <1>2, <1>16, <1>17, <2>1
  <2>4. StackGood(frames', img', started', ctx', ghost') BY <1>2, <2>1, <2>2
  <2>. QED BY <1>2, <1>14, <2>3, <2>4, ServStep
<1>. QED BY <1>15, <1>17

\* A stack of which the last programs are gone.
Popped(fr, fr2) ==
    /\ fr2 \in Seq(ImageRec) /\ Len(fr2) <= Len(fr)
    /\ \A k \in 1 .. Len(fr2) : fr2[k] = fr[k]

\* The front of a stack, up to the program whose context is restored.
LEMMA PoppedIs ==
    ASSUME NEW fr \in Seq(ImageRec), NEW m \in 0 .. Len(fr)
    PROVE  Popped(fr, SubSeq(fr, 1, m)) /\ Len(SubSeq(fr, 1, m)) = m /\ Popped(fr, <<>>)
<1>1. SubSeq(fr, 1, m) \in Seq(ImageRec) /\ Len(SubSeq(fr, 1, m)) = m
      /\ \A k \in 1 .. m : SubSeq(fr, 1, m)[k] = fr[k]
  BY SubSeqProperties
<1>2. <<>> \in Seq(ImageRec) OBVIOUS
<1>3. Len(<<>>) = 0 /\ Len(fr) \in Nat OBVIOUS
<1>. QED BY <1>1, <1>2, <1>3 DEF Popped

\* Programs that are gone hold no pages.
LEMMA PoppedHolders ==
    ASSUME NEW fr \in Seq(ImageRec), NEW fr2, Popped(fr, fr2), NEW lv, NEW bf, NEW im
    PROVE  Holders(lv, bf, Intact(fr2, im)) \subseteq Holders(lv, bf, Intact(fr, im))
<1>1. ToSet(fr2) \subseteq ToSet(fr)
  <2>1. DOMAIN fr2 = 1 .. Len(fr2) /\ DOMAIN fr = 1 .. Len(fr) /\ Len(fr) \in Nat /\ Len(fr2) \in Nat
    BY DEF Popped
  <2>2. \A k \in DOMAIN fr2 : k \in DOMAIN fr /\ fr2[k] = fr[k] BY <2>1 DEF Popped
  <2>. QED BY <2>2 DEF ToSet
<1>2. Intact(fr2, im) \subseteq Intact(fr, im) BY <1>1 DEF Intact
<1>. QED BY <1>2 DEF Holders

\* ImageReturns
LEMMA ImageReturnsStep == ASSUME FwIInv, ~ghost.spoilt, guest # "memory", ImageReturns PROVE FwIInv'
<1>1. /\ Len(frames) > 1 /\ frames' = Front(frames) /\ ghost' = [ghost EXCEPT !.plain = TRUE]
      /\ UNCHANGED <<mapped, guest, pool, live, bufs, img, started, ctx>>
  BY DEF ImageReturns, Fixed
<1>2. StackGood(frames, img, started, ctx, ghost) /\ frames \in Seq(ImageRec) BY DEF FwIInv, StackGood
<1>3. Len(frames) \in Nat /\ Len(frames) - 1 \in 0 .. Len(frames) BY <1>1, <1>2
<1>4. Popped(frames, frames') BY <1>1, <1>2, <1>3, PoppedIs DEF Front
<1>5. /\ ghost'.loads = ghost.loads /\ ghost'.plain = TRUE /\ ghost'.spoilt = ghost.spoilt
      /\ ghost' = [loads |-> ghost'.loads, plain |-> ghost'.plain, spoilt |-> ghost'.spoilt,
                   given |-> ghost'.given]
  BY <1>1, <1>2 DEF StackGood
<1>6. Len(frames') \in Nat BY <1>4 DEF Popped
<1>7. StackGood(frames', img, started, ctx, ghost')
  <2>1. \A k \in 1 .. Len(frames') : k \in 1 .. Len(frames) /\ frames'[k] = frames[k]
    BY <1>3, <1>4, <1>6 DEF Popped
  <2>2. frames' \in Seq(ImageRec) BY <1>4 DEF Popped
  <2>3. /\ \A k \in 1 .. Len(frames') : frames'[k].id <= ghost'.loads /\ (frames'[k].ok => frames'[k].id > 0)
        /\ \A k \in 1 .. Len(frames') : frames'[k].ok /\ frames'[k].id = img.id
                                          => (k = 1 /\ frames'[k] = img) \/ (started /\ ctx < k)
    BY <1>2, <1>5, <2>1 DEF StackGood
  <2>4. /\ img \in ImageRec /\ started \in BOOLEAN /\ ctx \in Nat /\ img.id <= ghost'.loads
        /\ img.n \in Nat /\ (img.ok => img.id > 0) /\ ghost'.loads \in Nat /\ ghost'.spoilt \in BOOLEAN /\ ghost'.plain \in BOOLEAN
    BY <1>2, <1>5 DEF StackGood
  <2>5. ~(started /\ ~ghost'.plain) BY <1>5
  <2>. QED BY <1>5, <2>2, <2>3, <2>4, <2>5 DEF StackGood
<1>8. StackGood(frames', img', started', ctx', ghost') BY <1>1, <1>7
<1>9. Sound(pool', Holders(live', bufs', Intact(frames', img')))
  <2>1. Sound(pool, Holders(live, bufs, Intact(frames, img))) BY DEF FwIInv
  <2>2. Holders(live, bufs, Intact(frames', img)) \subseteq Holders(live, bufs, Intact(frames, img))
    BY <1>2, <1>4, PoppedHolders
  <2>3. Sound(pool, Holders(live, bufs, Intact(frames', img))) BY <2>1, <2>2, Fewer
  <2>. QED BY <1>1, <2>3
<1>. QED BY <1>1, <1>8, <1>9, ServStep DEF FwIInv

\* Exit
LEMMA ExitStep == ASSUME FwIInv, ~ghost.spoilt, guest # "memory", Exit PROVE FwIInv'
<1>1. /\ started /\ started' = FALSE
      /\ frames' = IF ctx <= Len(frames) THEN SubSeq(frames, 1, ctx) ELSE <<>>
      /\ UNCHANGED <<mapped, guest, pool, live, bufs, img, ctx, ghost>>
  BY DEF Exit, Fixed
<1>2. StackGood(frames, img, started, ctx, ghost) /\ frames \in Seq(ImageRec) /\ ctx \in Nat
      /\ Len(frames) \in Nat
  BY DEF FwIInv, StackGood
<1>3. Popped(frames, frames') /\ (Len(frames') = ctx \/ Len(frames') = 0)
  <2>1. CASE ctx <= Len(frames)
    <3>1. ctx \in 0 .. Len(frames) BY <1>2, <2>1
    <3>. QED BY <1>1, <1>2, <2>1, <3>1, PoppedIs
  <2>2. CASE ~(ctx <= Len(frames))
    <3>1. frames' = <<>> /\ 0 \in 0 .. Len(frames) BY <1>1, <1>2, <2>2
    <3>. QED BY <1>2, <3>1, PoppedIs
  <2>. QED BY <2>1, <2>2
<1>4. \A k \in 1 .. Len(frames') : k \in 1 .. Len(frames) /\ ~(ctx < k) /\ frames'[k] = frames[k]
  <2>1. Len(frames') \in Nat BY <1>3 DEF Popped
  <2>. QED BY <1>2, <1>3, <2>1 DEF Popped
<1>5. StackGood(frames', img, FALSE, ctx, ghost)
  <2>1. frames' \in Seq(ImageRec) BY <1>3 DEF Popped
  <2>. QED BY <1>2, <1>4, <2>1 DEF StackGood
<1>6. StackGood(frames', img', started', ctx', ghost') BY <1>1, <1>5
<1>7. Sound(pool', Holders(live', bufs', Intact(frames', img')))
  <2>1. Sound(pool, Holders(live, bufs, Intact(frames, img))) BY DEF FwIInv
  <2>2. Holders(live, bufs, Intact(frames', img)) \subseteq Holders(live, bufs, Intact(frames, img))
    BY <1>2, <1>3, PoppedHolders
  <2>3. Sound(pool, Holders(live, bufs, Intact(frames', img))) BY <2>1, <2>2, Fewer
  <2>. QED BY <1>1, <2>3
<1>. QED BY <1>1, <1>6, <1>7, ServStep DEF FwIInv

\* A program that is started is the last on the stack and the image on record.
LEMMA StartedStack ==
    ASSUME NEW fr, NEW im, NEW st, NEW cx, NEW g, StackGood(fr, im, st, cx, g),
           im.id \notin {f.id : f \in ToSet(fr)}, im.ok => im.id > 0,
           NEW spoilt \in BOOLEAN, NEW h, h = [g EXCEPT !.plain = FALSE, !.spoilt = spoilt]
    PROVE  StackGood(Append(fr, im), im, TRUE, Len(fr), h)
<1>1. /\ h.loads = g.loads /\ h.plain = FALSE /\ h.spoilt = spoilt
      /\ h = [loads |-> h.loads, plain |-> h.plain, spoilt |-> h.spoilt, given |-> h.given]
  BY DEF StackGood
<1>2. fr \in Seq(ImageRec) /\ im \in ImageRec /\ g.loads \in Nat /\ Len(fr) \in Nat BY DEF StackGood
<1>. DEFINE fr2 == Append(fr, im)
<1>3. /\ fr2 \in Seq(ImageRec) /\ Len(fr2) = Len(fr) + 1 /\ fr2[Len(fr) + 1] = im
      /\ \A k \in 1 .. Len(fr) : fr2[k] = fr[k]
  BY <1>2, AppendProperties
<1>. HIDE DEF fr2
<1>4. \A k \in 1 .. Len(fr2) : k \in 1 .. Len(fr) \/ k = Len(fr) + 1 BY <1>2, <1>3
<1>5. \A k \in 1 .. Len(fr) : fr[k].id # im.id
  <2>1. DOMAIN fr = 1 .. Len(fr) BY <1>2
  <2>. QED BY <2>1 DEF ToSet
<1>6. \A k \in 1 .. Len(fr2) : fr2[k].id <= h.loads /\ (fr2[k].ok => fr2[k].id > 0)
  BY <1>1, <1>3, <1>4 DEF StackGood
<1>7. \A k \in 1 .. Len(fr2) : fr2[k].ok /\ fr2[k].id = im.id => Len(fr) < k
  BY <1>2, <1>3, <1>4, <1>5
<1>8. Len(fr) = Len(fr2) - 1 BY <1>2, <1>3
<1>9. im.id <= h.loads /\ im.n \in Nat BY <1>1 DEF StackGood
<1>10. StackGood(fr2, im, TRUE, Len(fr), h) BY <1>1, <1>2, <1>3, <1>6, <1>7, <1>8, <1>9 DEF StackGood
<1>. QED BY <1>10 DEF fr2

\* append_library_serial takes a page nobody held, or none.
LEMMA SerialPageKeeps ==
    ASSUME mapped \in 0 .. MaxMapped, NEW hs, Sound(pool, hs), NEW amended
    PROVE  Sound(SerialPage(amended), hs)
<1>. DEFINE r == Answer(pool, "any", LoaderType, 1, 0)
            q == Taken(pool, r, LoaderType)
<1>1. SerialPage(amended) = pool \/ (r.st = "ok" /\ SerialPage(amended) = q) BY DEF SerialPage
<1>2. ASSUME r.st = "ok" PROVE Sound(q, hs)
  <2>1. LoaderType \in Types \cup BadTypes BY ServicesAssumption DEF LoaderType
  <2>2. PoolGood(pool) /\ 1 \in Nat /\ 0 \in Nat BY DEF Sound
  <2>3. r = Answer(pool, "any", LoaderType, 1, 0) OBVIOUS
  <2>. HIDE DEF r
  <2>4. Marked(pool, q, r, 1, LoaderType) BY <1>2, <2>1, <2>2, <2>3, AnswerIs
  <2>. HIDE DEF q
  <2>5. Adds(hs, hs, r.addr, 1) BY DEF Adds
  <2>. QED BY <2>4, <2>5, Grown
<1>. QED BY <1>1, <1>2

\* StartImage
LEMMA StartImageStep ==
    ASSUME FwIInv, ~ghost.spoilt, guest # "memory", NEW amended, StartImage(amended)
    PROVE  FwIInv'
<1>. DEFINE spoilt == ghost.spoilt \/ ~img.ok
<1>1. /\ img.id \notin {f.id : f \in ToSet(frames)} /\ pool' = SerialPage(amended)
      /\ started' = TRUE /\ ctx' = Len(frames) /\ frames' = Append(frames, img)
      /\ ghost' = [ghost EXCEPT !.plain = FALSE, !.spoilt = spoilt]
      /\ UNCHANGED <<mapped, guest, live, bufs, img>>
  BY DEF StartImage, Fixed, Saved
<1>2. spoilt \in BOOLEAN OBVIOUS
<1>3. /\ StackGood(frames, img, started, ctx, ghost) /\ frames \in Seq(ImageRec) /\ img \in ImageRec
      /\ mapped \in 0 .. MaxMapped
      /\ img.ok => img.id > 0
  BY DEF FwIInv, StackGood
<1>4. StackGood(frames', img', started', ctx', ghost')
  <2>. HIDE DEF spoilt
  <2>1. StackGood(Append(frames, img), img, TRUE, Len(frames), ghost') BY <1>1, <1>2, <1>3, StartedStack
  <2>. QED BY <1>1, <2>1
<1>5. Intact(frames', img) = Intact(frames, img)
  <2>1. ToSet(frames') = ToSet(frames) \cup {img}
    <3>1. /\ DOMAIN frames = 1 .. Len(frames) /\ Len(frames) \in Nat
          /\ DOMAIN Append(frames, img) = 1 .. Len(frames) + 1
          /\ \A k \in 1 .. Len(frames) : Append(frames, img)[k] = frames[k]
          /\ Append(frames, img)[Len(frames) + 1] = img
      BY <1>3, AppendProperties
    <3>2. \A k : k \in DOMAIN Append(frames, img) <=> k \in DOMAIN frames \/ k = Len(frames) + 1 BY <3>1
    <3>. QED BY <1>1, <3>1, <3>2 DEF ToSet
  <2>. QED BY <2>1 DEF Intact
<1>6. Sound(pool', Holders(live', bufs', Intact(frames', img')))
  <2>1. Sound(pool, Holders(live, bufs, Intact(frames, img))) BY DEF FwIInv
  <2>2. Sound(SerialPage(amended), Holders(live, bufs, Intact(frames, img)))
    BY <1>3, <2>1, SerialPageKeeps
  <2>. QED BY <1>1, <1>5, <2>2
<1>. QED BY <1>1, <1>4, <1>6, ServStep DEF FwIInv

\* UnloadImage: unless it is the boot loader that the launcher entered, an image on
\* record that was loaded does not run, so no program loses its pages.
LEMMA UnloadImageStep == ASSUME FwIInv, ~ghost.spoilt, guest # "memory", UnloadImage PROVE FwIInv'
<1>. DEFINE spoilt == ghost.spoilt \/ ~img.ok \/ img = frames[1]
            f == FreeAt(pool, img.addr, img.n)
<1>1. /\ ~started /\ pool' = f.pool /\ img' = NoImage
      /\ live' = IF img.ok THEN live
                 ELSE {x \in live : Run(x.addr, x.n) \cap Run(img.addr, img.n) = {}}
      /\ ghost' = [ghost EXCEPT !.spoilt = spoilt]
      /\ UNCHANGED <<mapped, guest, bufs, started, ctx, frames>>
  BY DEF UnloadImage, Fixed, Unloaded
<1>2. spoilt \in BOOLEAN /\ (~img.ok \/ img = frames[1] => spoilt) OBVIOUS
<1>. HIDE DEF spoilt, f
<1>3. /\ StackGood(frames, img, started, ctx, ghost) /\ frames \in Seq(ImageRec) /\ img \in ImageRec
      /\ mapped \in 0 .. MaxMapped /\ PoolGood(pool)
      /\ Sound(pool, Holders(live, bufs, Intact(frames, img)))
  BY DEF FwIInv, StackGood
<1>4. img.addr \in Nat /\ img.n \in Nat BY <1>3 DEF ImageRec
<1>5. /\ ghost'.loads = ghost.loads /\ ghost'.plain = ghost.plain /\ ghost'.spoilt = spoilt
      /\ ghost' = [loads |-> ghost'.loads, plain |-> ghost'.plain, spoilt |-> ghost'.spoilt,
                   given |-> ghost'.given]
  BY <1>1, <1>3 DEF StackGood
<1>6. StackGood(frames', img', started', ctx', ghost')
  <2>1. NoImage \in ImageRec /\ NoImage.id = 0 /\ NoImage.n = 0 /\ ~NoImage.ok
    BY DEF NoImage, ImageRec
  <2>2. \A k \in 1 .. Len(frames) : ~(frames[k].ok /\ frames[k].id = 0)
    <3>1. \A k \in 1 .. Len(frames) : frames[k].ok => frames[k].id > 0 BY <1>3 DEF StackGood
    <3>. QED BY <3>1
  <2>3. StackGood(frames, NoImage, started, ctx, ghost') BY <1>2, <1>3, <1>5, <2>1, <2>2 DEF StackGood
  <2>. QED BY <1>1, <2>3
<1>7. bufs' \subseteq [addr : Nat, n : Nat] BY <1>1 DEF FwIInv
<1>8. CASE img.ok /\ img # frames[1]
  <2>. DEFINE hs == Holders(live, bufs, Intact(frames, img))
              less == Holders(live, bufs, Intact(frames, NoImage))
  <2>1. less \subseteq hs
    <3>1. ~NoImage.ok BY DEF NoImage
    <3>. QED BY <3>1, NewImage
  <2>2. Loaded(img) \in hs BY <1>8 DEF Holders, Intact
  <2>3. Loaded(img).addr = img.addr /\ Loaded(img).n = img.n BY DEF Loaded
  <2>4. ASSUME NEW x \in less PROVE x # Loaded(img)
    <3>1. /\ \A z : Caller(z).who[1] = "caller" /\ Buffer(z).who[1] = "buffer"
          /\ \A z : Loaded(z).who[1] = "image" /\ Loaded(z).who[2] = z.id
      BY DEF Caller, Loaded, Buffer
    <3>2. ASSUME NEW z \in Intact(frames, NoImage) PROVE z.id # img.id
      <4>1. z \in ToSet(frames) /\ z.ok BY DEF Intact, NoImage
      <4>2. PICK k \in DOMAIN frames : z = frames[k] BY <4>1 DEF ToSet
      <4>3. k \in 1 .. Len(frames) BY <1>3
      <4>. QED BY <1>1, <1>3, <1>8, <4>1, <4>2, <4>3 DEF StackGood
    <3>3. x \in {Caller(z) : z \in live} \/ x \in {Buffer(z) : z \in bufs}
          \/ x \in {Loaded(z) : z \in Intact(frames, NoImage)}
      BY DEF Holders
    <3>. QED BY <3>1, <3>2, <3>3
  <2>5. Sound(pool, hs) BY <1>3
  <2>. HIDE DEF hs, less
  <2>6. \A x \in less : Run(x.addr, x.n) \cap Run(img.addr, img.n) = {}
    BY <2>1, <2>2, <2>3, <2>4, <2>5 DEF Sound
  <2>7. pool' = FreeAt(pool, img.addr, img.n).pool BY <1>1 DEF f
  <2>8. Sound(pool', less)
    <3>. DEFINE a == img.addr
                n == img.n
    <3>1. Clear(less, a, n) BY <2>6 DEF Clear
    <3>2. mapped \in 0 .. MaxMapped /\ a \in Nat /\ n \in Nat BY <1>3, <1>4
    <3>3. pool' = FreeAt(pool, a, n).pool BY <2>7
    <3>. HIDE DEF a, n
    <3>4. Sound(FreeAt(pool, a, n).pool, less) BY <2>1, <2>5, <3>1, <3>2, ClearFree
    <3>. QED BY <3>3, <3>4
  <2>9. Sound(pool', Holders(live', bufs', Intact(frames', img'))) BY <1>1, <1>8, <2>8 DEF less
  <2>. QED BY <1>1, <1>6, <1>7, <2>9, ServStep
<1>9. CASE ~img.ok \/ img = frames[1]
  <2>1. IF f.ok THEN Back(pool, f.pool, img.addr, img.n) ELSE f.pool = pool
    BY <1>3, <1>4, FreeAtGood DEF f
  <2>2. PoolGood(pool') BY <1>1, <1>3, <2>1 DEF Back
  <2>3. ASSUME NEW x \in live' PROVE Holds(pool', x.addr, x.n)
    <3>1. x \in live /\ Run(x.addr, x.n) \cap Run(img.addr, img.n) = {}
      <4>1. CASE ~img.ok BY <1>1, <4>1
      <4>2. CASE img.ok
        <5>1. /\ Loaded(img) \in Holders(live, bufs, Intact(frames, img))
              /\ Caller(x) \in Holders(live, bufs, Intact(frames, img)) /\ x \in live
          BY <1>1, <4>2 DEF Holders, Intact
        <5>2. /\ Caller(x).who[1] = "caller" /\ Loaded(img).who[1] = "image"
              /\ Caller(x).addr = x.addr /\ Caller(x).n = x.n
              /\ Loaded(img).addr = img.addr /\ Loaded(img).n = img.n
          BY DEF Caller, Loaded
        <5>. QED BY <1>3, <5>1, <5>2 DEF Sound
      <4>. QED BY <4>1, <4>2
    <3>2. Holds(pool, x.addr, x.n) BY <3>1 DEF FwIInv
    <3>3. CASE f.ok
      <4>1. Back(pool, pool', img.addr, img.n) BY <1>1, <2>1, <3>3
      <4>. QED BY <1>3, <3>1, <3>2, <4>1, BackKeeps
    <3>4. CASE ~f.ok BY <1>1, <2>1, <3>2, <3>4
    <3>. QED BY <3>3, <3>4
  <2>4. ghost'.spoilt BY <1>2, <1>5, <1>9
  <2>. QED BY <1>1, <1>6, <1>7, <2>2, <2>3, <2>4, SpoiltStep
<1>. QED BY <1>8, <1>9

-----------------------------------------------------------------------------
(* The invariant of the specification *)

\* An image with no program above it is a stack of one.
LEMMA OneProgram ==
    ASSUME NEW im \in ImageRec, im.id <= 1, im.ok => im.id > 0,
           NEW g, g = [loads |-> 1, plain |-> FALSE, spoilt |-> FALSE, given |-> {}]
    PROVE  /\ StackGood(<<im>>, im, FALSE, 0, g)
           /\ Intact(<<im>>, im) = {f \in {im} : f.ok}
<1>. DEFINE fr == <<im>>
<1>1. fr \in Seq(ImageRec) /\ Len(fr) = 1 /\ fr[1] = im /\ DOMAIN fr = {1} OBVIOUS
<1>2. g.loads = 1 /\ g.plain = FALSE /\ g.spoilt = FALSE
      /\ g = [loads |-> g.loads, plain |-> g.plain, spoilt |-> g.spoilt, given |-> g.given]
  OBVIOUS
<1>3. Intact(fr, im) = {f \in {im} : f.ok} BY <1>1 DEF Intact, ToSet
<1>4. \A k \in 1 .. Len(fr) : k = 1 /\ fr[k] = im BY <1>1
<1>. HIDE DEF fr
<1>5. g.plain \in BOOLEAN /\ g.spoilt \in BOOLEAN BY <1>2, Zenon
<1>6. g.loads \in Nat /\ im.id <= g.loads /\ im.n \in Nat BY <1>2 DEF ImageRec
<1>7. FALSE \in BOOLEAN /\ 0 \in Nat OBVIOUS
<1>8. StackGood(fr, im, FALSE, 0, g) BY <1>1, <1>2, <1>4, <1>5, <1>6, <1>7 DEF StackGood
<1>. QED BY <1>3, <1>8 DEF fr

\* A page or an image that the launcher takes from the pool, when it can.
LEMMA LauncherTakes ==
    ASSUME mapped \in 0 .. MaxMapped, NEW pp, NEW hs, Sound(pp, hs), NEW n \in Nat,
           NEW r, r = Answer(pp, "any", LoaderType, n, 0), NEW more, Adds(hs, more, r.addr, n)
    PROVE  /\ Sound(Taken(pp, r, LoaderType), hs)
           /\ r.st = "ok" => /\ Sound(Taken(pp, r, LoaderType), more)
                              /\ r.addr \in Nat
<1>1. LoaderType \in Types \cup BadTypes BY ServicesAssumption DEF LoaderType
<1>2. PoolGood(pp) /\ 0 \in Nat BY DEF Sound
<1>3. CASE r.st = "ok"
  <2>1. Marked(pp, Taken(pp, r, LoaderType), r, n, LoaderType) /\ r.addr \in Nat
    BY <1>1, <1>2, <1>3, AnswerIs
  <2>2. Adds(hs, hs, r.addr, n) BY DEF Adds
  <2>. QED BY <2>1, <2>2, Grown
<1>4. CASE r.st # "ok"
  <2>1. Taken(pp, r, LoaderType) = pp BY <1>1, <1>2, <1>4, AnswerIs
  <2>. QED BY <1>4, <2>1
<1>. QED BY <1>3, <1>4

\* The pool of PagePool::new: nothing is held.
LEMMA NewPoolSound == Sound(NewPool, {})
<1>. DEFINE pp == NewPool
<1>1. pp.use = [p \in Bitmap |-> "free"] /\ pp.spans = {} /\ pp = [use |-> pp.use, spans |-> pp.spans]
  BY DEF NewPool
<1>2. PoolGood(pp) BY <1>1 DEF PoolGood
<1>. QED BY <1>2 DEF Sound

\* What raynu_f_stage_bootloader_from_volume leaves: an image that holds its pages, or
\* none, and pages that nobody holds.
LEMMA StagedSound ==
    ASSUME mapped \in 0 .. MaxMapped, NEW n \in 1 .. 2, NEW end, NEW path, NEW published,
           StageBootloader(n, end, path, published)
    PROVE  /\ img = NoImage \/ (img.ok /\ img.id = 1 /\ img \in ImageRec /\ end = "ok")
           /\ Sound(pool, {Loaded(f) : f \in {x \in {img} : x.ok}})
<1>. DEFINE file  == Answer(NewPool, "any", LoaderType, 1, 0)
            got   == Taken(NewPool, file, LoaderType)
            image == Answer(got, "any", LoaderType, n, 0)
            both  == Taken(got, image, LoaderType)
            node  == Answer(both, "any", LoaderType, 1, 0)
            all   == Taken(both, node, LoaderType)
            new   == [addr |-> image.addr, n |-> n, id |-> 1, ok |-> TRUE]
            staged == file.st = "ok" /\ image.st = "ok" /\ end = "ok"
<1>1. /\ pool = IF end = "none" THEN NewPool
               ELSE IF file.st # "ok" \/ end = "file" THEN got
               ELSE IF staged /\ path THEN all
               ELSE both
      /\ img = IF staged THEN new ELSE NoImage
  BY DEF StageBootloader
<1>2. Adds({}, {}, file.addr, 1) /\ Adds({}, {}, image.addr, n) BY DEF Adds
<1>3. n \in Nat /\ 1 \in Nat OBVIOUS
<1>4. Sound(got, {})
  <2>1. file = Answer(NewPool, "any", LoaderType, 1, 0) OBVIOUS
  <2>. HIDE DEF file
  <2>. QED BY <1>2, <1>3, <2>1, NewPoolSound, LauncherTakes
<1>5. new.addr = image.addr /\ new.n = n /\ new.id = 1 /\ new.ok OBVIOUS
<1>6. Loaded(new).addr = image.addr /\ Loaded(new).n = n BY <1>5 DEF Loaded
<1>. HIDE DEF new
<1>7. Adds({}, {Loaded(new)}, image.addr, n) BY <1>6 DEF Adds
<1>8. Sound(both, {}) /\ (image.st = "ok" => Sound(both, {Loaded(new)}) /\ image.addr \in Nat)
  <2>1. image = Answer(got, "any", LoaderType, n, 0) OBVIOUS
  <2>. HIDE DEF image, got
  <2>. QED BY <1>3, <1>4, <1>7, <2>1, LauncherTakes
<1>9. image.st = "ok" => Sound(all, {Loaded(new)})
  <2>1. node = Answer(both, "any", LoaderType, 1, 0) OBVIOUS
  <2>2. Adds({Loaded(new)}, {Loaded(new)}, node.addr, 1) BY DEF Adds
  <2>. HIDE DEF node, both
  <2>. QED BY <1>3, <1>8, <2>1, <2>2, LauncherTakes
<1>10. image.st = "ok" => new \in ImageRec BY <1>3, <1>8 DEF new, ImageRec
<1>11. ~NoImage.ok BY DEF NoImage
<1>. HIDE DEF file, got, image, both, all
<1>12. CASE staged
  <2>1. img = new /\ (pool = both \/ pool = all) BY <1>1, <1>12
  <2>2. {Loaded(f) : f \in {x \in {img} : x.ok}} = {Loaded(new)} BY <1>5, <2>1
  <2>. QED BY <1>5, <1>8, <1>9, <1>10, <1>12, <2>1, <2>2
<1>13. CASE ~staged
  <2>1. img = NoImage /\ (pool = NewPool \/ pool = got \/ pool = both) BY <1>1, <1>13
  <2>2. {Loaded(f) : f \in {x \in {img} : x.ok}} = {} BY <1>11, <2>1
  <2>. QED BY <1>4, <1>8, <2>1, <2>2, NewPoolSound
<1>. QED BY <1>12, <1>13

\* FirmwareState::new() and what the launcher staged.
LEMMA FwIInvInit == ASSUME ServInit PROVE FwIInv
<1>1. /\ mapped \in 0 .. MaxMapped /\ live = {} /\ bufs = {} /\ frames = <<img>>
      /\ started = FALSE /\ ctx = 0
      /\ ghost = [loads |-> 1, plain |-> FALSE, spoilt |-> FALSE, given |-> {}]
  BY DEF ServInit
<1>2. PICK n \in 1 .. 2, path \in BOOLEAN, published \in BOOLEAN,
          end \in IF guest = "memory" THEN {"none"} ELSE {"none", "file", "image", "ok"} :
             StageBootloader(n, end, path, published)
  BY Zenon DEF ServInit
<1>3. /\ img = NoImage \/ (img.ok /\ img.id = 1 /\ img \in ImageRec /\ end = "ok")
      /\ Sound(pool, {Loaded(f) : f \in {x \in {img} : x.ok}})
  BY <1>1, <1>2, StagedSound
<1>4. NoImage \in ImageRec /\ NoImage.id = 0 /\ ~NoImage.ok BY DEF NoImage, ImageRec
<1>5. img \in ImageRec /\ img.id <= 1 /\ (img.ok => img.id > 0) BY <1>3, <1>4
<1>6. /\ StackGood(frames, img, started, ctx, ghost)
      /\ Intact(frames, img) = {x \in {img} : x.ok}
  BY <1>1, <1>5, OneProgram
<1>7. Holders(live, bufs, Intact(frames, img)) = {Loaded(f) : f \in {x \in {img} : x.ok}}
  BY <1>1, <1>6 DEF Holders
<1>8. Sound(pool, Holders(live, bufs, Intact(frames, img))) /\ PoolGood(pool) BY <1>3, <1>7 DEF Sound
<1>9. guest = "memory" => Intact(frames, img) = {} BY <1>2, <1>3, <1>4, <1>6
<1>. QED BY <1>1, <1>6, <1>8, <1>9 DEF FwIInv

\* Every service keeps it.
LEMMA FwIInvStep == ASSUME FwIInv, [ServNext]_fwVars PROVE FwIInv'
<1>1. CASE UNCHANGED fwVars
  <2>1. UNCHANGED <<mapped, pool, live, bufs, frames, img, started, ctx, ghost, guest>> BY <1>1 DEF fwVars
  <2>2. /\ PoolGood(pool)' /\ (\A x \in live : Holds(pool, x.addr, x.n))'
        /\ (~ghost.spoilt => Sound(pool, Holders(live, bufs, Intact(frames, img))))'
    BY <2>1, LayoutStays DEF FwIInv
  <2>. QED BY <2>1, <2>2 DEF FwIInv
<1>2. CASE ServNext
  <2>1. ~ghost.spoilt BY <1>2 DEF ServNext
  <2>2. CASE Memory BY <2>1, <2>2, MemoryStep
  <2>3. CASE guest = "images" /\ Images
    BY <2>1, <2>3, AllocatePoolStep, FreePoolStep, OpenGrubStep, LoadImageStep, StartImageStep,
       ImageReturnsStep, ExitStep, UnloadImageStep
       DEF Images
  <2>4. CASE guest = "protocols" /\ Publish
    <3>1. ASSUME NEW stored \in BOOLEAN, LocateHandleBuffer(stored) PROVE FwIInv'
      BY <2>1, <2>4, <3>1, AllocatePoolStep DEF LocateHandleBuffer
    <3>2. 1 \in 1 .. 2 OBVIOUS
    <3>. QED BY <2>1, <2>4, <3>1, <3>2, FreePoolStep, LoadImageStep, UnloadImageStep, InstallStep DEF Publish
  <2>. QED BY <1>2, <2>2, <2>3, <2>4 DEF ServNext
<1>. QED BY <1>1, <1>2

\* Whatever the guest's programs call, in whatever order, from the boot loader that the
\* launcher staged or from the test app: every holder of pages holds its run whole and
\* alone, until that loader unloads itself or the record of a failed load is used, and
\* the saved context fits the stack.
THEOREM ServInvariant == ServSpec => []FwIInv
BY FwIInvInit, FwIInvStep, PTL DEF ServSpec

-----------------------------------------------------------------------------
(* What the services promise *)

\* allocate_pages never refuses a run the memory map shows as free, whatever regions
\* it crosses, while a span is left for its part in the tail.
THEOREM FreeRunsCanBeTaken == ServSpec => []HonestWhileSpansLast
<1>1. FwIInv => HonestWhileSpansLast BY HonestHere DEF FwIInv
<1>. QED BY <1>1, ServInvariant, PTL

\* free_pages_at gives back in one call whatever one call allocated, however the pages
\* around it were allocated, trimmed and freed in between.
THEOREM GrantsCanBeFreed == ServSpec => []GivenBackWhole
<1>1. FwIInv => GivenBackWhole BY HeldFrees DEF FwIInv, GivenBackWhole
<1>. QED BY <1>1, ServInvariant, PTL

\* The pages of callers, pool buffers and images, the staged boot loader included, stay
\* allocated and are never shared, through loads that replace the record, nested
\* starts, Exit and UnloadImage, up to the two uses of the record that OneHolder names.
THEOREM PagesHaveOneHolder == ServSpec => []OneHolder
<1>1. ASSUME FwIInv, ~ghost.spoilt
      PROVE  /\ \A x \in Held : \A p \in Run(x.addr, x.n) : PageType(p) # "free"
             /\ \A x, y \in Held : x = y \/ Run(x.addr, x.n) \cap Run(y.addr, y.n) = {}
  <2>1. Sound(pool, Held) /\ PoolGood(pool) BY <1>1, HeldIs DEF FwIInv
  <2>2. ASSUME NEW x \in Held, NEW p \in Run(x.addr, x.n) PROVE PageType(p) # "free"
    <3>1. Holds(pool, x.addr, x.n) BY <2>1 DEF Sound
    <3>2. TypeIn(pool, p) # "free" BY <2>1, <3>1, HeldTyped
    <3>. QED BY <3>2, PageTypeIs
  <2>3. \A x, y \in Held : x = y \/ Run(x.addr, x.n) \cap Run(y.addr, y.n) = {} BY <2>1 DEF Sound
  <2>. QED BY <2>2, <2>3
<1>2. FwIInv => OneHolder BY <1>1 DEF OneHolder
<1>. QED BY <1>2, ServInvariant, PTL

\* AllocatePages changes the pages it hands out and no others.
LEMMA AllocatePagesAsked ==
    ASSUME mapped \in 0 .. MaxMapped, PoolGood(pool),
           NEW kind \in {"any", "max", "address"}, NEW typ \in Types \cup BadTypes,
           NEW n \in Nat, NEW arg \in Nat, NEW stored \in BOOLEAN,
           AllocatePages(kind, typ, n, arg, stored)
    PROVE  AskedPagesOnly
<1>. DEFINE r == Answer(pool, kind, typ, n, arg)
            q == Taken(pool, r, typ)
            ok == r.st = "ok" /\ stored
            rec == [op |-> "alloc", ok |-> ok, kind |-> kind, typ |-> typ, arg |-> arg, n |-> n,
                    addr |-> r.addr]
            ps == Run(r.addr, n)
<1>1. /\ pool' = IF r.st = "ok" /\ ~stored THEN FreeAt(q, r.addr, n).pool ELSE q
      /\ last' = rec /\ mapped' = mapped
  BY DEF AllocatePages
<1>2. ok \in BOOLEAN OBVIOUS
<1>3. r = Answer(pool, kind, typ, n, arg) OBVIOUS
<1>4. ok <=> r.st = "ok" /\ stored OBVIOUS
<1>. HIDE DEF ok, r
<1>5. /\ rec.op = "alloc" /\ rec.ok = ok /\ rec.kind = kind /\ rec.typ = typ /\ rec.arg = arg
      /\ rec.n = n /\ rec.addr = r.addr
  OBVIOUS
<1>. HIDE DEF rec
<1>6. IF r.st = "ok" THEN FreeAt(q, r.addr, n).pool = pool ELSE q = pool
  BY <1>3, AnswerIs
<1>7. \A p : PageType(p) = TypeIn(pool, p) /\ PageType(p)' = TypeIn(pool', p)
  BY <1>1, LayoutStays, PageTypeIs
<1>8. CASE ~ok
  <2>1. pool' = pool BY <1>1, <1>4, <1>6, <1>8
  <2>2. \A p : PageType(p)' = PageType(p) BY <1>7, <2>1
  <2>. QED BY <1>1, <1>5, <1>8, <2>2 DEF AskedPagesOnly
<1>9. CASE ok
  <2>1. r.st = "ok" /\ pool' = q BY <1>1, <1>4, <1>9
  <2>2. /\ Granted(pool, r, n) /\ typ \in Types
        /\ kind = "address" => r.addr = arg
        /\ kind = "max" => r.addr + n - 1 <= arg
        /\ ps \cap BelowPages # {} => kind = "address" \/ (kind = "max" /\ arg < OneMeg)
    BY <1>3, <2>1, AnswerGrants
  <2>3. ASSUME NEW p \in Managed
        PROVE  IF p \in ps THEN PageType(p) = "free" /\ PageType(p)' = typ
               ELSE PageType(p)' = PageType(p)
    <3>1. IF p \in ps THEN TypeIn(pool, p) = "free" /\ TypeIn(q, p) = typ
          ELSE TypeIn(q, p) = TypeIn(pool, p)
      BY <2>2, TakenTypes
    <3>. QED BY <1>7, <2>1, <3>1
  <2>4. Shape(r.addr, n) BY <2>2 DEF Granted
  <2>5. ps \subseteq Managed /\ r.addr \in Nat BY <2>4, ShapeIs DEF Shape
  <2>6. kind = "max" => \A p \in ps : p <= arg BY <2>2, <2>5 DEF Run
  <2>. HIDE DEF q
  <2>. QED BY <1>1, <1>5, <1>9, <2>2, <2>3, <2>5, <2>6 DEF AskedPagesOnly
<1>. QED BY <1>8, <1>9

\* FreePages changes the pages it names and no others.
LEMMA FreePagesAsked ==
    ASSUME mapped \in 0 .. MaxMapped, PoolGood(pool), NEW a \in Nat, NEW n \in Nat, FreePages(a, n)
    PROVE  AskedPagesOnly
<1>. DEFINE f == FreeAt(pool, a, n)
            rec == [op |-> "free", ok |-> f.ok, arg |-> a, n |-> n]
<1>1. pool' = f.pool /\ last' = rec /\ mapped' = mapped BY DEF FreePages
<1>2. IF f.ok THEN Back(pool, f.pool, a, n) ELSE f.pool = pool BY FreeAtGood
<1>. HIDE DEF f
<1>3. rec.op = "free" /\ rec.ok = f.ok /\ rec.arg = a /\ rec.n = n OBVIOUS
<1>. HIDE DEF rec
<1>4. \A p : PageType(p) = TypeIn(pool, p) /\ PageType(p)' = TypeIn(pool', p)
  BY <1>1, LayoutStays, PageTypeIs
<1>5. ASSUME NEW p \in Managed
      PROVE  IF f.ok /\ p \in Run(a, n) THEN PageType(p) # "free" /\ PageType(p)' = "free"
             ELSE PageType(p)' = PageType(p)
  <2>1. CASE ~f.ok BY <1>1, <1>2, <1>4, <2>1
  <2>2. CASE f.ok
    <3>1. Back(pool, pool', a, n) BY <1>1, <1>2, <2>2
    <3>2. IF p \in Run(a, n) THEN TypeIn(pool, p) # "free" /\ TypeIn(pool', p) = "free"
          ELSE TypeIn(pool', p) = TypeIn(pool, p)
      BY <3>1, BackTypes
    <3>. QED BY <1>4, <2>2, <3>2
  <2>. QED BY <2>1, <2>2
<1>. QED BY <1>1, <1>3, <1>5 DEF AskedPagesOnly

\* No service but AllocatePages and FreePages reports pages, and only Exit an exit.
LEMMA ServiceSaysSo ==
    ASSUME (guest = "images" /\ Images) \/ (guest = "protocols" /\ Publish)
    PROVE  last'.op \notin {"alloc", "free"} /\ (last'.op = "exit" => Exit)
<1>1. CASE Images
  <2>1. \A stored : AllocatePool(stored) => last'.op = "service" BY DEF AllocatePool, Called
  <2>2. \A x : FreePool(x) => last'.op = "service" BY DEF FreePool, Called
  <2>3. \A n, end : LoadImage(n, end) => last'.op = "service" BY DEF LoadImage, Called
  <2>4. \A amended : StartImage(amended) => last'.op = "service" BY DEF StartImage, Called
  <2>5. OpenGrub \/ ImageReturns \/ UnloadImage => last'.op = "service"
    BY DEF OpenGrub, ImageReturns, UnloadImage, Called
  <2>6. Exit => last'.op = "exit" BY DEF Exit, Called
  <2>. QED BY <1>1, <2>1, <2>2, <2>3, <2>4, <2>5, <2>6 DEF Images
<1>2. CASE Publish
  <2>1. \A h, pairs, stored : InstallMultiple(h, pairs, stored) => last'.op = "install"
    BY DEF InstallMultiple, Called
  <2>2. \A h, g, i : InstallProtocol(h, g, i) => last'.op = "service" BY DEF InstallProtocol, Called
  <2>3. \A h, pairs : UninstallMultiple(h, pairs) => last'.op = "service"
    <3>1. \A h, pairs : UninstallMultiple(h, pairs) => last' = [op |-> "service"]
      BY Zenon DEF UninstallMultiple, Called
    <3>. QED BY <3>1
  <2>4. \A stored : LocateHandleBuffer(stored) => last'.op = "service"
    BY DEF LocateHandleBuffer, AllocatePool, Called
  <2>5. \A x : FreePool(x) => last'.op = "service" BY DEF FreePool, Called
  <2>6. \A n, end : LoadImage(n, end) => last'.op = "service" BY DEF LoadImage, Called
  <2>7. UnloadImage => last'.op = "service" BY DEF UnloadImage, Called
  <2>. QED BY <1>2, <2>1, <2>2, <2>3, <2>4, <2>5, <2>6, <2>7 DEF Publish
<1>. QED BY <1>1, <1>2

\* A call of the memory services.
LEMMA MemoryCall ==
    ASSUME mapped \in 0 .. MaxMapped, PoolGood(pool), \A x \in live : Holds(pool, x.addr, x.n), Memory
    PROVE  AskedPagesOnly /\ last'.op # "exit"
<1>1. \A kind, typ, n, arg, stored : AllocatePages(kind, typ, n, arg, stored) => last'.op # "exit"
  BY DEF AllocatePages
<1>2. \A a, n : FreePages(a, n) => last'.op # "exit" BY DEF FreePages
<1>3. Limit \in Nat /\ MaxRun \in Nat /\ 1 \in Nat /\ 0 \in Nat BY Layout, SizesAreNat
<1>4. LoaderType \in Types \cup BadTypes BY ServicesAssumption DEF LoaderType
<1>5. CASE Next
  <2>1. ASSUME NEW n \in 0 .. MaxRun, NEW t \in Types \cup BadTypes, NEW s \in Asks,
               NEW stored \in BOOLEAN, AllocatePages(s[1], t, n, s[2], stored)
        PROVE  AskedPagesOnly
    <3>1. s[1] \in {"any", "max", "address"} /\ s[2] \in Nat /\ n \in Nat BY <1>3 DEF Asks
    <3>. QED BY <2>1, <3>1, AllocatePagesAsked
  <2>2. ASSUME NEW a \in 0 .. Limit, NEW n \in 0 .. MaxRun, FreePages(a, n) PROVE AskedPagesOnly
    <3>1. a \in Nat /\ n \in Nat BY <1>3
    <3>. QED BY <2>2, <3>1, FreePagesAsked
  <2>. QED BY <1>1, <1>2, <1>5, <2>1, <2>2 DEF Next
<1>6. CASE \E stored \in BOOLEAN : AllocatePages("any", LoaderType, 1, 0, stored)
  BY <1>1, <1>3, <1>4, <1>6, AllocatePagesAsked
<1>7. CASE \E x \in live : FreePages(x.addr, x.n)
  <2>1. PICK x \in live : FreePages(x.addr, x.n) BY <1>7
  <2>2. x.addr \in Nat /\ x.n \in Nat BY DEF Holds, Shape
  <2>. QED BY <1>2, <2>1, <2>2, FreePagesAsked
<1>. QED BY <1>5, <1>6, <1>7 DEF Memory

\* AllocatePages and FreePages change the pages they report and no others, a refused
\* call none.
THEOREM OnlyTheseChange == ServSpec => OnlyAskedPages
<1>1. ASSUME FwIInv, [ServNext]_fwVars PROVE [AskedPagesOnly]_vars
  <2>1. CASE UNCHANGED fwVars BY <2>1 DEF fwVars, vars
  <2>2. CASE Memory BY <1>1, <2>2, MemoryCall DEF FwIInv
  <2>3. CASE (guest = "images" /\ Images) \/ (guest = "protocols" /\ Publish)
    BY <2>3, ServiceSaysSo DEF AskedPagesOnly
  <2>4. ServNext => Memory \/ (guest = "images" /\ Images) \/ (guest = "protocols" /\ Publish)
    BY Zenon DEF ServNext
  <2>. QED BY <1>1, <2>1, <2>2, <2>3, <2>4, Zenon
<1>. QED BY <1>1, ServInvariant, PTL DEF ServSpec, OnlyAskedPages

\* Exit resumes the program below the exiting one on the stack, unless an image has
\* returned by ret since the last StartImage.
THEOREM ExitGoesBack == ServSpec => ExitReturnsToCaller
<1>1. ASSUME FwIInv, [ServNext]_fwVars
      PROVE  [last'.op = "exit" /\ ~ghost.plain => frames' = Front(frames)]_fwVars
  <2>1. CASE Memory BY <1>1, <2>1, MemoryCall DEF FwIInv
  <2>2. CASE (guest = "images" /\ Images) \/ (guest = "protocols" /\ Publish)
    <3>. SUFFICES ASSUME Exit, ~ghost.plain PROVE frames' = Front(frames) BY <2>2, ServiceSaysSo
    <3>1. frames \in Seq(ImageRec) /\ Len(frames) \in Nat /\ ctx \in Nat BY <1>1 DEF FwIInv, StackGood
    <3>2. ctx = Len(frames) - 1 BY <1>1 DEF FwIInv, StackGood, Exit
    <3>3. frames' = SubSeq(frames, 1, ctx) BY <3>1, <3>2 DEF Exit
    <3>. QED BY <3>2, <3>3 DEF Front
  <2>3. ServNext => Memory \/ (guest = "images" /\ Images) \/ (guest = "protocols" /\ Publish)
    BY Zenon DEF ServNext
  <2>. QED BY <1>1, <2>1, <2>2, <2>3, Zenon
<1>. QED BY <1>1, ServInvariant, PTL DEF ServSpec, ExitReturnsToCaller

-----------------------------------------------------------------------------
(* What was installed can be taken back *)

\* No program names a protocol twice in one list.
NoGuidTwice ==
    \A pairs \in PairLists : \A j, k \in 1 .. Len(pairs) : pairs[j][1] = pairs[k][1] => j = k

\* Rows of other handles or other protocols are left alone by an uninstall, an install
\* and the two loops; an install is found in its own row.
LEMMA WithoutRow ==
    ASSUME NEW p, NEW h, NEW gs, NEW x, NEW g, x # h \/ g \notin gs
    PROVE  InterfaceFor(Without(p, h, gs), x, g) = InterfaceFor(p, x, g)
<1>1. <<x, g>> \notin {h} \X gs OBVIOUS
<1>2. DOMAIN Without(p, h, gs) = DOMAIN p \ ({h} \X gs)
      /\ \A r \in DOMAIN p \ ({h} \X gs) : Without(p, h, gs)[r] = p[r]
  BY DEF Without
<1>. QED BY <1>1, <1>2 DEF InterfaceFor

LEMMA UninstallRow ==
    ASSUME NEW p, NEW h, NEW g1, NEW i, NEW x, NEW g, x # h \/ g # g1
    PROVE  InterfaceFor(Uninstall(p, h, g1, i), x, g) = InterfaceFor(p, x, g)
BY WithoutRow DEF Uninstall

LEMMA InstallRow ==
    ASSUME NEW p, NEW h, NEW g1, NEW i, NEW x, NEW g
    PROVE  /\ x # h \/ g # g1 => InterfaceFor(Install(p, h, g1, i), x, g) = InterfaceFor(p, x, g)
           /\ CanInstall(p, h, g1) => InterfaceFor(Install(p, h, g1, i), h, g1) = i
<1>. DEFINE q == [r \in DOMAIN p \cup {<<h, g1>>} |-> IF r = <<h, g1>> THEN i ELSE p[r]]
<1>1. /\ DOMAIN q = DOMAIN p \cup {<<h, g1>>}
      /\ \A r \in DOMAIN q : q[r] = IF r = <<h, g1>> THEN i ELSE p[r]
  OBVIOUS
<1>2. Install(p, h, g1, i) = IF CanInstall(p, h, g1) THEN q ELSE p BY DEF Install
<1>. HIDE DEF q
<1>3. <<x, g>> = <<h, g1>> <=> x = h /\ g = g1 OBVIOUS
<1>. QED BY <1>1, <1>2, <1>3 DEF InterfaceFor

LEMMA InstallFirstRow ==
    ASSUME NEW p, NEW h, NEW pairs, NEW k, NEW x, NEW g,
           x # h \/ g \notin {pairs[j][1] : j \in 1 .. k}
    PROVE  InterfaceFor(InstallFirst(p, h, pairs, k), x, g) = InterfaceFor(p, x, g)
<1>. DEFINE rows == {h} \X {pairs[j][1] : j \in 1 .. k}
            final(gg) == Max({j \in 1 .. k : pairs[j][1] = gg})
            q == [r \in DOMAIN p \cup rows |-> IF r \in rows THEN pairs[final(r[2])][2] ELSE p[r]]
<1>1. InstallFirst(p, h, pairs, k) = q BY DEF InstallFirst
<1>2. <<x, g>> \notin rows OBVIOUS
<1>. HIDE DEF rows, final
<1>3. /\ DOMAIN q = DOMAIN p \cup rows
      /\ \A r \in DOMAIN p : r \notin rows => q[r] = p[r]
  OBVIOUS
<1>. HIDE DEF q
<1>. QED BY <1>1, <1>2, <1>3 DEF InterfaceFor

\* The maximum of a set of one.
LEMMA MaxOne == ASSUME NEW k \in Nat PROVE Max({k}) = k
<1>1. \A x : (x \in {k} /\ \A y \in {k} : x >= y) <=> x = k OBVIOUS
<1>. QED BY <1>1 DEF Max

LEMMA InstallFirstOwn ==
    ASSUME NEW p, NEW h, NEW pairs, NEW k \in Nat, NEW m \in 1 .. k,
           \A j \in 1 .. k : pairs[j][1] = pairs[m][1] => j = m
    PROVE  InterfaceFor(InstallFirst(p, h, pairs, k), h, pairs[m][1]) = pairs[m][2]
<1>. DEFINE rows == {h} \X {pairs[j][1] : j \in 1 .. k}
            final(gg) == Max({j \in 1 .. k : pairs[j][1] = gg})
            q == [r \in DOMAIN p \cup rows |-> IF r \in rows THEN pairs[final(r[2])][2] ELSE p[r]]
            row == <<h, pairs[m][1]>>
<1>1. InstallFirst(p, h, pairs, k) = q BY DEF InstallFirst
<1>2. row \in rows /\ row[2] = pairs[m][1] OBVIOUS
<1>3. {j \in 1 .. k : pairs[j][1] = pairs[m][1]} = {m} OBVIOUS
<1>4. final(pairs[m][1]) = m BY <1>3, MaxOne
<1>. HIDE DEF rows, final
<1>5. DOMAIN q = DOMAIN p \cup rows /\ q[row] = pairs[final(row[2])][2] BY <1>2
<1>. HIDE DEF q
<1>. QED BY <1>1, <1>2, <1>4, <1>5 DEF InterfaceFor

\* The protocols of a list.
LEMMA GuidsAre ==
    ASSUME NEW pairs \in Seq(STRING \X STRING)
    PROVE  /\ Len(pairs) \in Nat /\ DOMAIN pairs = 1 .. Len(pairs)
           /\ ToSet(pairs) = {pairs[j] : j \in 1 .. Len(pairs)}
           /\ \A j \in 1 .. Len(pairs) : pairs[j][1] \in Guids(pairs)
<1>1. Len(pairs) \in Nat /\ DOMAIN pairs = 1 .. Len(pairs) OBVIOUS
<1>2. ToSet(pairs) = {pairs[j] : j \in 1 .. Len(pairs)} BY <1>1 DEF ToSet
<1>. QED BY <1>1, <1>2 DEF Guids

\* install_multiple's loop: whether it ends or is rolled back, only rows of its own
\* handle and protocols change, and when it ends every pair is in the table.
LEMMA InstallPairsRows ==
    ASSUME NEW p, NEW h, NEW pairs \in Seq(STRING \X STRING)
    PROVE  /\ \A x, g : x # h \/ g \notin Guids(pairs) =>
                 InterfaceFor(InstallPairs(p, h, pairs).tab, x, g) = InterfaceFor(p, x, g)
           /\ InstallPairs(p, h, pairs).ok =>
                 InstallPairs(p, h, pairs).tab = InstallFirst(p, h, pairs, Len(pairs))
<1>. DEFINE tab(k) == InstallFirst(p, h, pairs, k)
            bad == {k \in 1 .. Len(pairs) : ~CanInstall(tab(k - 1), h, pairs[k][1])}
            back(k) == UninstallFirst(tab(k), h, pairs, k)
            r == InstallPairs(p, h, pairs)
<1>1. r = IF bad = {} THEN [ok |-> TRUE, tab |-> tab(Len(pairs))]
          ELSE [ok |-> FALSE, tab |-> back(Min(bad) - 1)]
  BY DEF InstallPairs
<1>2. Len(pairs) \in Nat /\ \A j \in 1 .. Len(pairs) : pairs[j][1] \in Guids(pairs) BY GuidsAre
<1>3. bad # {} => Min(bad) \in 1 .. Len(pairs)
  <2>. SUFFICES ASSUME bad # {} PROVE Min(bad) \in 1 .. Len(pairs) OBVIOUS
  <2>1. bad \in SUBSET Nat /\ bad \subseteq 1 .. Len(pairs) BY <1>2
  <2>. HIDE DEF bad
  <2>2. \E x \in bad : \A y \in bad : x <= y BY <2>1, LeastNatural
  <2>3. Min(bad) \in bad BY <2>2 DEF Min
  <2>. QED BY <2>1, <2>3
<1>. HIDE DEF bad
<1>4. ASSUME NEW k \in 0 .. Len(pairs), NEW x, NEW g, x # h \/ g \notin Guids(pairs)
      PROVE  /\ InterfaceFor(tab(k), x, g) = InterfaceFor(p, x, g)
             /\ InterfaceFor(back(k), x, g) = InterfaceFor(p, x, g)
  <2>1. \A j \in 1 .. k : pairs[j][1] \in Guids(pairs) BY <1>2
  <2>2. x # h \/ g \notin {pairs[j][1] : j \in 1 .. k} BY <1>4, <2>1
  <2>3. InterfaceFor(tab(k), x, g) = InterfaceFor(p, x, g) BY <2>2, InstallFirstRow
  <2>. DEFINE gone == {pairs[j][1] : j \in {m \in 1 .. k : InterfaceFor(tab(k), h, pairs[m][1]) = pairs[m][2]}}
  <2>4. back(k) = Without(tab(k), h, gone) BY DEF UninstallFirst
  <2>5. x # h \/ g \notin gone BY <2>2
  <2>. HIDE DEF gone, tab
  <2>6. InterfaceFor(back(k), x, g) = InterfaceFor(tab(k), x, g) BY <2>4, <2>5, WithoutRow
  <2>. QED BY <2>3, <2>6
<1>. HIDE DEF tab, back
<1>5. CASE bad = {}
  <2>1. r.ok = TRUE /\ r.tab = tab(Len(pairs)) BY <1>1, <1>5
  <2>2. Len(pairs) \in 0 .. Len(pairs) BY <1>2
  <2>. HIDE DEF r
  <2>3. \A x, g : x # h \/ g \notin Guids(pairs) => InterfaceFor(r.tab, x, g) = InterfaceFor(p, x, g)
    BY <1>4, <2>1, <2>2
  <2>. QED BY <2>1, <2>3 DEF r, tab
<1>6. CASE bad # {}
  <2>1. r.ok = FALSE /\ r.tab = back(Min(bad) - 1) BY <1>1, <1>6
  <2>2. Min(bad) - 1 \in 0 .. Len(pairs) BY <1>2, <1>3, <1>6
  <2>. HIDE DEF r
  <2>3. \A x, g : x # h \/ g \notin Guids(pairs) => InterfaceFor(r.tab, x, g) = InterfaceFor(p, x, g)
    BY <1>4, <2>1, <2>2
  <2>. QED BY <2>1, <2>3 DEF r
<1>. QED BY <1>5, <1>6

\* What the table holds of an install that stands: each pair, and for an adopted initrd
\* the firmware's shim in place of the LoadFile2 that initrd_lf2_this names.
RowGood(x, y, p, this) ==
    IF IsInitrd(x.pairs) /\ y[1] = "LoadFile2"
    THEN InterfaceFor(p, x.h, y[1]) = "shim" /\ y[2] = this
    ELSE InterfaceFor(p, x.h, y[1]) = y[2]

GivenGood(given, p, this, n) ==
    \A x \in given : /\ x.h \in {DiskHandle} \cup 1 .. n
                     /\ \A y \in ToSet(x.pairs) : RowGood(x, y, p, this)

PubInv == minted \in Nat /\ GivenGood(ghost.given, prot, lf2, minted)

\* Installs whose rows a step leaves alone still stand.
LEMMA KeptGood ==
    ASSUME NEW given, NEW p, NEW this, NEW n \in Nat, GivenGood(given, p, this, n),
           NEW kept \in SUBSET given, NEW q, NEW this2, NEW n2 \in Nat, n <= n2,
           \A x \in kept :
              /\ this2 = this \/ ~IsInitrd(x.pairs)
              /\ \A y \in ToSet(x.pairs) : InterfaceFor(q, x.h, y[1]) = InterfaceFor(p, x.h, y[1])
    PROVE  GivenGood(kept, q, this2, n2)
<1>. SUFFICES ASSUME NEW x \in kept
              PROVE  /\ x.h \in {DiskHandle} \cup 1 .. n2
                     /\ \A y \in ToSet(x.pairs) : RowGood(x, y, q, this2)
  BY DEF GivenGood
<1>1. x.h \in {DiskHandle} \cup 1 .. n /\ \A y \in ToSet(x.pairs) : RowGood(x, y, p, this)
  BY DEF GivenGood
<1>2. x.h \in {DiskHandle} \cup 1 .. n2 BY <1>1
<1>3. ASSUME NEW y \in ToSet(x.pairs) PROVE RowGood(x, y, q, this2)
  <2>1. RowGood(x, y, p, this) BY <1>1
  <2>2. InterfaceFor(q, x.h, y[1]) = InterfaceFor(p, x.h, y[1]) /\ (this2 = this \/ ~IsInitrd(x.pairs))
    OBVIOUS
  <2>. QED BY <2>1, <2>2 DEF RowGood
<1>. QED BY <1>2, <1>3

\* An install that another call does not disturb has other rows.
LEMMA Undisturbed ==
    ASSUME NEW h, NEW pairs, NEW x, ~Disturbs(h, pairs, x), NEW y \in ToSet(x.pairs)
    PROVE  x.h # h \/ y[1] \notin Guids(pairs)
<1>1. y[1] \in Guids(x.pairs) BY DEF Guids
<1>. QED BY <1>1 DEF Disturbs

\* A call that changes rows of h and the protocols of pairs only.
LEMMA OthersGood ==
    ASSUME PubInv, NEW h, NEW pairs, NEW kept \in SUBSET ghost.given, NEW q, NEW this2, NEW n2 \in Nat,
           minted <= n2,
           \A x \in kept : ~Disturbs(h, pairs, x) /\ (this2 = lf2 \/ ~IsInitrd(x.pairs)),
           \A a, g : a # h \/ g \notin Guids(pairs) => InterfaceFor(q, a, g) = InterfaceFor(prot, a, g)
    PROVE  GivenGood(kept, q, this2, n2)
<1>1. ASSUME NEW x \in kept, NEW y \in ToSet(x.pairs)
      PROVE  InterfaceFor(q, x.h, y[1]) = InterfaceFor(prot, x.h, y[1])
  <2>1. x.h # h \/ y[1] \notin Guids(pairs) BY Undisturbed
  <2>. QED BY <2>1
<1>. QED BY <1>1, KeptGood DEF PubInv

\* A list that was installed stands: without an initrd as it is, with one under the shim.
LEMMA NewGood ==
    ASSUME NoGuidTwice, NEW pairs \in PairLists, NEW p, NEW h, NEW this,
           NEW t, t = InstallFirst(p, h, pairs, Len(pairs)),
           NEW q, NEW this2,
           IF IsInitrd(pairs)
           THEN q = Install(t, h, "LoadFile2", "shim") /\ this2 = FirstLf2(pairs)
           ELSE q = t,
           NEW y \in ToSet(pairs)
    PROVE  RowGood([h |-> h, pairs |-> pairs], y, q, this2)
<1>. DEFINE x == [h |-> h, pairs |-> pairs]
<1>1. x.h = h /\ x.pairs = pairs OBVIOUS
<1>. HIDE DEF x
<1>2. pairs \in Seq(STRING \X STRING) BY ServicesAssumption
<1>3. Len(pairs) \in Nat /\ ToSet(pairs) = {pairs[j] : j \in 1 .. Len(pairs)} /\ DOMAIN pairs = 1 .. Len(pairs)
  BY <1>2, GuidsAre
<1>4. PICK m \in 1 .. Len(pairs) : y = pairs[m] BY <1>3
<1>5. \A j \in 1 .. Len(pairs) : pairs[j][1] = pairs[m][1] => j = m BY DEF NoGuidTwice
<1>6. InterfaceFor(t, h, y[1]) = y[2] BY <1>3, <1>4, <1>5, InstallFirstOwn
<1>7. CASE ~IsInitrd(pairs) BY <1>1, <1>6, <1>7 DEF RowGood
<1>8. CASE IsInitrd(pairs) /\ y[1] # "LoadFile2"
  <2>1. InterfaceFor(q, h, y[1]) = InterfaceFor(t, h, y[1]) BY <1>8, InstallRow
  <2>. QED BY <1>1, <1>6, <1>8, <2>1 DEF RowGood
<1>9. CASE IsInitrd(pairs) /\ y[1] = "LoadFile2"
  <2>1. CanInstall(t, h, "LoadFile2")
    <3>1. <<h, pairs[m][1]>> \in DOMAIN t BY DEF InstallFirst
    <3>. QED BY <1>4, <1>9, <3>1 DEF CanInstall
  <2>2. InterfaceFor(q, h, y[1]) = "shim" BY <1>9, <2>1, InstallRow
  <2>3. {k \in DOMAIN pairs : pairs[k][1] = "LoadFile2"} = {m} BY <1>3, <1>4, <1>5, <1>9
  <2>4. Min({m}) = m
    <3>1. m \in Nat BY <1>3
    <3>2. \A z : (z \in {m} /\ \A w \in {m} : z <= w) <=> z = m BY <3>1
    <3>. QED BY <3>2 DEF Min
  <2>5. FirstLf2(pairs) = y[2] BY <1>4, <2>3, <2>4 DEF FirstLf2
  <2>. QED BY <1>1, <1>9, <2>2, <2>5 DEF RowGood
<1>. QED BY <1>7, <1>8, <1>9 DEF x

\* What InstallMultiple leaves, of its values.
Published(h0, pairs, h, r, ok, adopt) ==
    /\ prot' = IF ~r.ok THEN r.tab
               ELSE IF ~ok THEN UninstallFirst(r.tab, h, pairs, Len(pairs))
               ELSE IF adopt THEN Install(r.tab, h, "LoadFile2", "shim")
               ELSE r.tab
    /\ lf2' = IF adopt THEN FirstLf2(pairs) ELSE lf2
    /\ minted' = IF h0 = NoHandle THEN h ELSE minted
    /\ ghost' = [ghost EXCEPT !.given =
                  {x \in @ : ~Disturbs(h, pairs, x) /\ ~(adopt /\ IsInitrd(x.pairs))}
                  \cup IF ok THEN {[h |-> h, pairs |-> pairs]} ELSE {}]

\* InstallMultipleProtocolInterfaces
LEMMA InstallMultiplePub ==
    ASSUME NoGuidTwice, FwIInv, PubInv, NEW h0 \in Handles \cup {NoHandle}, NEW pairs \in PairLists,
           NEW stored \in BOOLEAN, InstallMultiple(h0, pairs, stored)
    PROVE  PubInv'
<1>. DEFINE h == IF h0 = NoHandle THEN minted + 1 ELSE h0
            r == InstallPairs(prot, h, pairs)
            ok == r.ok /\ (h0 = NoHandle => stored)
            adopt == ok /\ IsInitrd(pairs)
            kept == {x \in ghost.given : ~Disturbs(h, pairs, x) /\ ~(adopt /\ IsInitrd(x.pairs))}
            new == IF ok THEN {[h |-> h, pairs |-> pairs]} ELSE {}
<1>1. /\ prot' = IF ~r.ok THEN r.tab
                 ELSE IF ~ok THEN UninstallFirst(r.tab, h, pairs, Len(pairs))
                 ELSE IF adopt THEN Install(r.tab, h, "LoadFile2", "shim")
                 ELSE r.tab
      /\ lf2' = IF adopt THEN FirstLf2(pairs) ELSE lf2
      /\ minted' = IF h0 = NoHandle THEN h ELSE minted
      /\ ghost' = [ghost EXCEPT !.given = kept \cup new]
  <2>1. \E h1 \in {h} : \E r1 \in {InstallPairs(prot, h1, pairs)} :
        \E ok1 \in {r1.ok /\ (h0 = NoHandle => stored)} : \E adopt1 \in {ok1 /\ IsInitrd(pairs)} :
          Published(h0, pairs, h1, r1, ok1, adopt1)
    BY DEF InstallMultiple, Published
  <2>2. Published(h0, pairs, h, r, ok, adopt)
    <3>. HIDE DEF h
    <3>1. \E r1 \in {r} : \E ok1 \in {r1.ok /\ (h0 = NoHandle => stored)} :
          \E adopt1 \in {ok1 /\ IsInitrd(pairs)} : Published(h0, pairs, h, r1, ok1, adopt1)
      BY <2>1, Zenon
    <3>. HIDE DEF r
    <3>2. \E ok1 \in {ok} : \E adopt1 \in {ok1 /\ IsInitrd(pairs)} : Published(h0, pairs, h, r, ok1, adopt1)
      BY <3>1, Zenon
    <3>3. \E adopt1 \in {adopt} : Published(h0, pairs, h, r, ok, adopt1) BY <3>2
    <3>. HIDE DEF ok, adopt
    <3>. QED BY <3>3, Zenon
  <2>. HIDE DEF h, r, ok, adopt
  <2>. QED BY <2>2 DEF Published
<1>2. ghost'.given = kept \cup new
  <2>. HIDE DEF kept, new
  <2>1. "given" \in DOMAIN ghost BY DEF FwIInv, StackGood
  <2>. QED BY <1>1, <2>1
<1>3. /\ minted \in Nat /\ minted' \in Nat /\ minted <= minted' /\ h \in {DiskHandle} \cup 1 .. minted'
  <2>1. minted \in Nat BY DEF PubInv
  <2>2. CASE h0 = NoHandle BY <1>1, <2>1, <2>2
  <2>3. CASE h0 # NoHandle BY <1>1, <2>1, <2>3 DEF Handles
  <2>. QED BY <2>2, <2>3
<1>. HIDE DEF h
<1>4. pairs \in Seq(STRING \X STRING) BY ServicesAssumption
<1>5. Len(pairs) \in Nat /\ \A j \in 1 .. Len(pairs) : pairs[j][1] \in Guids(pairs) BY <1>4, GuidsAre
<1>6. /\ \A x, g : x # h \/ g \notin Guids(pairs) => InterfaceFor(r.tab, x, g) = InterfaceFor(prot, x, g)
      /\ r.ok => r.tab = InstallFirst(prot, h, pairs, Len(pairs))
  BY <1>4, InstallPairsRows
<1>. HIDE DEF r
<1>7. ASSUME NEW x, NEW g, x # h \/ g \notin Guids(pairs)
      PROVE  InterfaceFor(prot', x, g) = InterfaceFor(prot, x, g)
  <2>1. InterfaceFor(r.tab, x, g) = InterfaceFor(prot, x, g) BY <1>6, <1>7
  <2>2. CASE prot' = r.tab BY <2>1, <2>2
  <2>3. CASE prot' = UninstallFirst(r.tab, h, pairs, Len(pairs))
    <3>. DEFINE gone == {pairs[j][1] : j \in {m \in 1 .. Len(pairs) :
                                               InterfaceFor(r.tab, h, pairs[m][1]) = pairs[m][2]}}
    <3>1. prot' = Without(r.tab, h, gone) BY <2>3 DEF UninstallFirst
    <3>2. x # h \/ g \notin gone BY <1>5, <1>7
    <3>. HIDE DEF gone
    <3>. QED BY <2>1, <3>1, <3>2, WithoutRow
  <2>4. CASE adopt /\ prot' = Install(r.tab, h, "LoadFile2", "shim")
    <3>1. "LoadFile2" \in Guids(pairs) BY <2>4 DEF IsInitrd, Lf2Of, Guids
    <3>2. x # h \/ g # "LoadFile2" BY <1>7, <3>1
    <3>. QED BY <2>1, <2>4, <3>2, InstallRow
  <2>. QED BY <1>1, <2>2, <2>3, <2>4
<1>8. GivenGood(kept, prot', lf2', minted')
  <2>1. kept \in SUBSET ghost.given OBVIOUS
  <2>2. \A x \in kept : ~Disturbs(h, pairs, x) /\ (lf2' = lf2 \/ ~IsInitrd(x.pairs)) BY <1>1
  <2>. HIDE DEF kept
  <2>. QED BY <1>3, <1>7, <2>1, <2>2, OthersGood
<1>9. GivenGood(new, prot', lf2', minted')
  <2>. DEFINE x == [h |-> h, pairs |-> pairs]
  <2>1. CASE ok
    <3>1. x.h = h /\ x.pairs = pairs /\ new = {x} BY <2>1
    <3>2. /\ r.tab = InstallFirst(prot, h, pairs, Len(pairs))
          /\ IF IsInitrd(pairs)
             THEN prot' = Install(r.tab, h, "LoadFile2", "shim") /\ lf2' = FirstLf2(pairs)
             ELSE prot' = r.tab
      BY <1>1, <1>6, <2>1
    <3>3. \A y \in ToSet(pairs) : RowGood(x, y, prot', lf2') BY <3>2, NewGood
    <3>. HIDE DEF x
    <3>. QED BY <1>3, <3>1, <3>3 DEF GivenGood
  <2>2. CASE ~ok BY <2>2 DEF GivenGood
  <2>. QED BY <2>1, <2>2
<1>10. GivenGood(kept \cup new, prot', lf2', minted') BY <1>8, <1>9 DEF GivenGood
<1>. HIDE DEF kept, new
<1>11. GivenGood(ghost.given, prot, lf2, minted)' BY <1>2, <1>10 DEF GivenGood, RowGood
<1>. QED BY <1>3, <1>11 DEF PubInv

\* A step that removes the disturbed installs.
LEMMA DropPub ==
    ASSUME FwIInv, PubInv, NEW h, NEW pairs, NEW n \in Nat, minted' = n, minted <= n, lf2' = lf2,
           ghost' = [ghost EXCEPT !.given = {x \in @ : ~Disturbs(h, pairs, x)}],
           \A a, g : a # h \/ g \notin Guids(pairs) => InterfaceFor(prot', a, g) = InterfaceFor(prot, a, g)
    PROVE  PubInv'
<1>. DEFINE kept == {x \in ghost.given : ~Disturbs(h, pairs, x)}
<1>1. ghost' = [ghost EXCEPT !.given = kept] OBVIOUS
<1>2. kept \in SUBSET ghost.given /\ \A x \in kept : ~Disturbs(h, pairs, x) OBVIOUS
<1>. HIDE DEF kept
<1>3. ghost'.given = kept
  <2>1. "given" \in DOMAIN ghost BY DEF FwIInv, StackGood
  <2>. QED BY <1>1, <2>1
<1>4. GivenGood(kept, prot', lf2', minted') BY <1>2, OthersGood
<1>5. GivenGood(ghost.given, prot, lf2, minted)' BY <1>3, <1>4 DEF GivenGood, RowGood
<1>. QED BY <1>5 DEF PubInv

\* InstallProtocolInterface
LEMMA InstallProtocolPub ==
    ASSUME FwIInv, PubInv, NEW h0 \in Handles \cup {NoHandle}, NEW g1, NEW i, InstallProtocol(h0, g1, i)
    PROVE  PubInv'
<1>. DEFINE h == IF h0 = NoHandle THEN minted + 1 ELSE h0
            pairs == <<<<g1, i>>>>
<1>1. /\ prot' = Install(prot, h, g1, i) /\ lf2' = lf2
      /\ minted' = IF h0 = NoHandle THEN h ELSE minted
      /\ ghost' = [ghost EXCEPT !.given = {x \in @ : ~Disturbs(h, pairs, x)}]
  BY DEF InstallProtocol
<1>2. minted' \in Nat /\ minted <= minted' BY <1>1 DEF PubInv
<1>3. g1 \in Guids(pairs)
  <2>1. DOMAIN pairs = {1} /\ pairs[1] = <<g1, i>> OBVIOUS
  <2>2. <<g1, i>> \in ToSet(pairs) BY <2>1 DEF ToSet
  <2>3. <<g1, i>>[1] = g1 OBVIOUS
  <2>. QED BY <2>2, <2>3 DEF Guids
<1>. HIDE DEF h, pairs
<1>4. \A a, g : a # h \/ g \notin Guids(pairs) => InterfaceFor(prot', a, g) = InterfaceFor(prot, a, g)
  BY <1>1, <1>3, InstallRow
<1>. QED BY <1>1, <1>2, <1>4, DropPub

\* UninstallMultipleProtocolInterfaces
LEMMA UninstallMultiplePub ==
    ASSUME FwIInv, PubInv, NEW h, NEW pairs, UninstallMultiple(h, pairs)
    PROVE  PubInv'
<1>1. /\ prot' = Without(prot, h, Guids(pairs)) /\ lf2' = lf2 /\ minted' = minted
      /\ ghost' = [ghost EXCEPT !.given = {x \in @ : ~Disturbs(h, pairs, x)}]
  BY DEF UninstallMultiple
<1>2. minted \in Nat /\ minted <= minted BY DEF PubInv
<1>3. \A a, g : a # h \/ g \notin Guids(pairs) => InterfaceFor(prot', a, g) = InterfaceFor(prot, a, g)
  BY <1>1, WithoutRow
<1>. QED BY <1>1, <1>2, <1>3, DropPub

\* A service that touches at most the row of the image handle.
LEMMA ImageRowPub ==
    ASSUME PubInv, ghost'.given = ghost.given, lf2' = lf2, minted' = minted,
           \A a, g : a # ImageHandle => InterfaceFor(prot', a, g) = InterfaceFor(prot, a, g)
    PROVE  PubInv'
<1>. DEFINE given == ghost.given
<1>1. \A x \in given : x.h # ImageHandle
  BY DEF PubInv, GivenGood, DiskHandle, ImageHandle
<1>2. minted \in Nat /\ minted <= minted /\ GivenGood(given, prot, lf2, minted) BY DEF PubInv
<1>3. given \in SUBSET given OBVIOUS
<1>. HIDE DEF given
<1>4. GivenGood(given, prot', lf2, minted) BY <1>1, <1>2, <1>3, KeptGood
<1>5. GivenGood(ghost.given, prot, lf2, minted)' BY <1>4 DEF given, GivenGood, RowGood
<1>. QED BY <1>2, <1>5 DEF PubInv

\* LoadImage and UnloadImage
LEMMA ImagePub ==
    ASSUME FwIInv, PubInv, NEW n, NEW end, LoadImage(n, end) \/ UnloadImage
    PROVE  PubInv'
<1>1. "given" \in DOMAIN ghost /\ "spoilt" \in DOMAIN ghost BY DEF FwIInv, StackGood
<1>2. CASE LoadImage(n, end)
  <2>1. /\ prot' = prot \/ prot' = Install(prot, ImageHandle, "LoadedImage", "li")
        /\ ghost' = ghost \/ ghost' = [ghost EXCEPT !.loads = ghost.loads + 1]
        /\ lf2' = lf2 /\ minted' = minted
    BY <1>2 DEF LoadImage
  <2>2. ghost'.given = ghost.given BY <1>1, <2>1
  <2>3. \A a, g : a # ImageHandle => InterfaceFor(prot', a, g) = InterfaceFor(prot, a, g)
    BY <2>1, InstallRow
  <2>. QED BY <2>1, <2>2, <2>3, ImageRowPub
<1>3. CASE UnloadImage
  <2>. DEFINE spoilt == ghost.spoilt \/ ~img.ok \/ img = frames[1]
  <2>1. /\ prot' = Uninstall(prot, ImageHandle, "LoadedImage", "li")
        /\ ghost' = [ghost EXCEPT !.spoilt = spoilt] /\ lf2' = lf2 /\ minted' = minted
    BY <1>3 DEF UnloadImage
  <2>. HIDE DEF spoilt
  <2>2. ghost'.given = ghost.given BY <1>1, <2>1
  <2>3. \A a, g : a # ImageHandle => InterfaceFor(prot', a, g) = InterfaceFor(prot, a, g)
    BY <2>1, UninstallRow
  <2>. QED BY <2>1, <2>2, <2>3, ImageRowPub
<1>. QED BY <1>2, <1>3

\* A step that leaves the data base alone.
LEMMA QuietPub ==
    ASSUME PubInv, ghost'.given = ghost.given, UNCHANGED <<prot, lf2, minted>>
    PROVE  PubInv'
BY ImageRowPub

\* Every service keeps it.
LEMMA PubStep == ASSUME NoGuidTwice, FwIInv, PubInv, [ServNext]_fwVars PROVE PubInv'
<1>1. "given" \in DOMAIN ghost BY DEF FwIInv, StackGood
<1>2. CASE UNCHANGED fwVars BY <1>2, QuietPub DEF fwVars
<1>3. CASE Memory BY <1>3, QuietPub DEF Memory, Protocols
<1>4. ASSUME NEW stored, AllocatePool(stored) \/ LocateHandleBuffer(stored) PROVE PubInv'
  BY <1>4, QuietPub DEF AllocatePool, LocateHandleBuffer, Protocols
<1>5. ASSUME NEW x, FreePool(x) PROVE PubInv' BY <1>5, QuietPub DEF FreePool, Protocols
<1>6. CASE Images
  <2>1. CASE OpenGrub \/ Exit BY <2>1, QuietPub DEF OpenGrub, Exit, Protocols
  <2>2. ASSUME NEW amended, StartImage(amended) PROVE PubInv'
    <3>. DEFINE spoilt == ghost.spoilt \/ ~img.ok
    <3>1. ghost' = [ghost EXCEPT !.plain = FALSE, !.spoilt = spoilt] /\ UNCHANGED <<prot, lf2, minted>>
      BY <2>2 DEF StartImage, Protocols
    <3>. HIDE DEF spoilt
    <3>2. ghost'.given = ghost.given BY <1>1, <3>1
    <3>. QED BY <3>1, <3>2, QuietPub
  <2>3. CASE ImageReturns
    <3>1. ghost' = [ghost EXCEPT !.plain = TRUE] /\ UNCHANGED <<prot, lf2, minted>>
      BY <2>3 DEF ImageReturns, Protocols
    <3>2. ghost'.given = ghost.given BY <1>1, <3>1
    <3>. QED BY <3>1, <3>2, QuietPub
  <2>. QED BY <1>4, <1>5, <1>6, <2>1, <2>2, <2>3, ImagePub DEF Images
<1>7. CASE Publish
  BY <1>4, <1>5, <1>7, InstallMultiplePub, InstallProtocolPub, UninstallMultiplePub, ImagePub DEF Publish
<1>8. ServNext => Memory \/ Images \/ Publish BY DEF ServNext
<1>. QED BY <1>2, <1>3, <1>6, <1>7, <1>8

\* InstalledCanBeUninstalled, for every list in which no protocol is named twice: what
\* InstallMultipleProtocolInterfaces published is found under the same pairs by
\* UninstallMultipleProtocolInterfaces, the struct of an adopted initrd included, after
\* any other installs, failed installs with their roll-back, and image loads.
THEOREM PublishedCanBeTakenBack ==
    ASSUME NoGuidTwice PROVE ServSpec => []InstalledCanBeUninstalled
<1>1. ServInit => PubInv
  <2>. SUFFICES ASSUME ServInit PROVE PubInv OBVIOUS
  <2>1. minted = 0 /\ ghost.given = {} BY DEF ServInit
  <2>. QED BY <2>1 DEF PubInv, GivenGood
<1>2. FwIInv /\ PubInv /\ [ServNext]_fwVars => PubInv' BY PubStep
<1>3. PubInv => InstalledCanBeUninstalled
  <2>. SUFFICES ASSUME PubInv, NEW x \in ghost.given, NEW y \in ToSet(x.pairs)
                PROVE  InterfaceFor(prot, x.h, y[1]) = Wanted(prot, lf2, x.h, y[1], y[2])
    BY DEF InstalledCanBeUninstalled, CanUninstall
  <2>1. RowGood(x, y, prot, lf2) BY DEF PubInv, GivenGood
  <2>. QED BY <2>1 DEF RowGood, Wanted
<1>. QED BY <1>1, <1>2, <1>3, ServInvariant, PTL DEF ServSpec
=============================================================================
