------------------------------ MODULE FwPool ------------------------------
(***************************************************************************)
(* The page allocator behind the RayNu-F memory services                   *)
(* (raynu_f/memory.rs, PagePool, and the AllocatePages and FreePages arms  *)
(* of raynu_f/services.rs).                                                *)
(*                                                                         *)
(* Addresses are page numbers.  Three regions have a bitmap with a type    *)
(* per page (below 1 MiB, the low slab pool, the first HighMax pages of    *)
(* report-RAM); the rest of the report-RAM, the tail, only has room for    *)
(* TailSpans allocations.  Tail page i is page TailBase + i.               *)
(***************************************************************************)
EXTENDS Integers, FiniteSets, FiniteSetsExt

CONSTANTS
    Below,      \* BELOW1M_PAGES
    Low,        \* POOL_PAGES
    HighMax,    \* HIGH_MAX_PAGES
    MaxMapped,  \* bound: report-RAM pages the hypervisor may have mapped
    TailSpans,  \* TAIL_SPANS
    Types,      \* memory types a caller may allocate
    BadTypes,   \* memory types allocate_pages refuses
    MaxRun      \* bound: largest page count a caller asks for

ASSUME SizesAreNat ==
    /\ Below \in Nat /\ Low \in Nat /\ HighMax \in Nat
    /\ MaxMapped \in Nat /\ TailSpans \in Nat /\ MaxRun \in Nat
    /\ Types \cap BadTypes = {}
    /\ "free" \notin Types \cup BadTypes

VARIABLES
    mapped,  \* pages of report-RAM given to set_high_region before launch
    pool,    \* use: bitmap page |-> "free" or its type; spans: the tail spans in use
    live,    \* ghost: allocations [addr, n] no free has touched yet
    last     \* ghost: the last call and its answer

vars == <<mapped, pool, live, last>>

----------------------------------------------------------------------------
(* Layout: a reserved page on either side of each region, except that the  *)
(* tail continues the high region.                                         *)
BelowBase == 1
OneMeg    == BelowBase + Below + 1
LowBase   == OneMeg + 1
HighBase  == LowBase + Low + 1
Limit     == HighBase + MaxMapped + 1

high     == Min({mapped, HighMax})
tail     == mapped - high
TailBase == HighBase + high

Run(a, n)  == a .. a + n - 1
BelowPages == Run(BelowBase, Below)
LowPages   == Run(LowBase, Low)
HighPages  == Run(HighBase, high)
TailPages  == Run(TailBase, tail)
Regions    == {BelowPages, LowPages, HighPages}
Managed    == (UNION Regions) \cup TailPages
Bitmap     == BelowPages \cup LowPages \cup Run(HighBase, HighMax)

\* PagePool::new and set_high_region, which runs before any allocation.
NewPool == [use |-> [p \in Bitmap |-> "free"], spans |-> {}]

SpanPages(s)      == Run(TailBase + s.start, s.pages)
SpanLeft(pp)      == Cardinality(pp.spans) < TailSpans
TailBusy(pp, a, n) == \E s \in pp.spans : Run(a, n) \cap SpanPages(s) # {}
AllFree(pp, ps)    == \A p \in ps : pp.use[p] = "free"

\* The type memory_map gives a managed page; "free" is EfiConventionalMemory.
PageType(p) ==
    IF p \notin TailPages THEN pool.use[p]
    ELSE IF \E s \in pool.spans : p \in SpanPages(s)
         THEN (CHOOSE s \in pool.spans : p \in SpanPages(s)).typ
         ELSE "free"
Conventional(a, n) == \A p \in Run(a, n) : p \in Managed /\ PageType(p) = "free"

----------------------------------------------------------------------------
(* allocate_pages on a pool pp: a status, an address, and on success the   *)
(* bitmap pages and the tail run it takes.                                 *)
Refuse(st)          == [st |-> st, addr |-> 0, bits |-> {}, span |-> {}]
Take(a, bits, span) == [st |-> "ok", addr |-> a, bits |-> bits, span |-> span]
InBitmap(a, n)      == Take(a, Run(a, n), {})
InTail(a, n)        == Take(a, {}, {[start |-> a - TailBase, pages |-> n]})

\* Where a run of n free pages that ends by page `end` may start.
Starts(pp, region, n, end) ==
    {a \in region : /\ Run(a, n) \subseteq region
                    /\ a + n - 1 <= end
                    /\ AllFree(pp, Run(a, n))}
TailStarts(pp, n, end) ==
    {a \in TailPages : /\ Run(a, n) \subseteq TailPages
                       /\ a + n - 1 <= end
                       /\ ~TailBusy(pp, a, n)
                       /\ SpanLeft(pp)}
\* AllocateAnyPages (end = Limit) and AllocateMaxAddress.
Search(pp, n, end, status) ==
    LET below == Starts(pp, BelowPages, n, end)
        low   == Starts(pp, LowPages, n, end)
        hi    == Starts(pp, HighPages, n, end)
    IN  IF end < OneMeg /\ below # {} THEN InBitmap(Min(below), n)
        ELSE IF end >= OneMeg /\ low # {} THEN InBitmap(Min(low), n)
        ELSE IF end >= OneMeg /\ hi # {} THEN InBitmap(Min(hi), n)
        ELSE IF TailStarts(pp, n, end) # {} THEN InTail(Min(TailStarts(pp, n, end)), n)
        ELSE Refuse(status)

\* allocate_across_tail: from the bitmap into the tail.
AcrossTail(pp, a, n) ==
    LET inTail == a + n - TailBase
        bits   == a .. TailBase - 1
    IN  IF inTail > tail \/ ~AllFree(pp, bits) \/ TailBusy(pp, TailBase, inTail)
        THEN Refuse("not_found")
        ELSE IF ~SpanLeft(pp) THEN Refuse("out_of_resources")
        ELSE Take(a, bits, {[start |-> 0, pages |-> inTail]})
\* Inside one region (also a mutant of At: a run that leaves the bitmap is
\* refused even where the tail continues it).
AtWithin(pp, a, n) ==
    IF \E r \in Regions : Run(a, n) \subseteq r /\ AllFree(pp, Run(a, n))
    THEN InBitmap(a, n)
    ELSE IF Run(a, n) \subseteq TailPages /\ ~TailBusy(pp, a, n) /\ SpanLeft(pp)
    THEN InTail(a, n)
    ELSE Refuse("not_found")

\* AllocateAddress.
At(pp, a, n) ==
    IF a \in HighPages /\ ~(Run(a, n) \subseteq HighPages) THEN AcrossTail(pp, a, n)
    ELSE AtWithin(pp, a, n)

TooLong(n) == n > Max({Low, Below, high + tail})
Answer(pp, kind, typ, n, arg) ==
    IF n = 0 \/ TooLong(n) \/ typ \in BadTypes THEN Refuse("invalid")
    ELSE CASE kind = "any"     -> Search(pp, n, Limit, "out_of_resources")
           [] kind = "max"     -> Search(pp, n, arg, "not_found")
           [] kind = "address" -> At(pp, arg, n)

\* mark and tail_insert.
Taken(pp, r, typ) ==
    [use   |-> [p \in Bitmap |-> IF p \in r.bits THEN typ ELSE pp.use[p]],
     spans |-> pp.spans \cup
               {[start |-> s.start, pages |-> s.pages, typ |-> typ] : s \in r.span}]

----------------------------------------------------------------------------
(* free_pages_at on a pool pp: whether it succeeds, and the pool it leaves. *)
NotFreed(pp) == [ok |-> FALSE, pool |-> pp]
Freed(pp, bits, spans) ==
    [ok   |-> TRUE,
     pool |-> [use   |-> [p \in Bitmap |-> IF p \in bits THEN "free" ELSE pp.use[p]],
               spans |-> spans]]

\* What is left of a span when tail pages from .. to - 1 are freed.
Trim(s, from, to) ==
    LET end == s.start + s.pages IN
    IF from = s.start /\ to = end THEN {}
    ELSE IF from = s.start THEN {[start |-> to, pages |-> end - to, typ |-> s.typ]}
    ELSE {[start |-> s.start, pages |-> from - s.start, typ |-> s.typ]}

\* free_tail_at: inside one span, at its front or its back, never its middle.
FreeTail(pp, a, n) ==
    LET from == a - TailBase
        to   == from + n
        hit  == {s \in pp.spans : /\ n > 0
                                  /\ Run(a, n) \subseteq SpanPages(s)
                                  /\ from = s.start \/ to = s.start + s.pages}
    IN  IF hit = {} THEN NotFreed(pp)
        ELSE LET s == CHOOSE s \in hit : TRUE
             IN  Freed(pp, {}, (pp.spans \ {s}) \cup Trim(s, from, to))

\* Mutant: only the bitmap half of a run into the tail is freed.
FreeAcrossHalf(pp, a, n) ==
    LET bits == a .. TailBase - 1
        t    == FreeTail(pp, TailBase, a + n - TailBase)
    IN  IF t.ok /\ \A p \in bits : pp.use[p] # "free"
        THEN Freed(pp, bits, pp.spans) ELSE NotFreed(pp)

\* free_across_tail: the bitmap half only after the tail half was freed.
FreeAcross(pp, a, n) ==
    LET bits == a .. TailBase - 1
        t    == FreeTail(pp, TailBase, a + n - TailBase)
    IN  IF t.ok /\ \A p \in bits : pp.use[p] # "free"
        THEN Freed(pp, bits, t.pool.spans) ELSE NotFreed(pp)

\* Mutant: a run from the bitmap into the tail cannot be freed.
FreeAtWithin(pp, a, n) ==
    IF a \notin UNION Regions THEN FreeTail(pp, a, n)
    ELSE IF /\ n > 0
            /\ \E r \in Regions : Run(a, n) \subseteq r
            /\ \A p \in Run(a, n) : pp.use[p] # "free"
    THEN Freed(pp, Run(a, n), pp.spans)
    ELSE NotFreed(pp)

\* free_pages_at.
FreeAt(pp, a, n) ==
    IF a \notin UNION Regions THEN FreeTail(pp, a, n)
    ELSE IF a \in HighPages /\ a + n > TailBase THEN FreeAcross(pp, a, n)
    ELSE IF /\ n > 0
            /\ \E r \in Regions : Run(a, n) \subseteq r
            /\ \A p \in Run(a, n) : pp.use[p] # "free"
    THEN Freed(pp, Run(a, n), pp.spans)
    ELSE NotFreed(pp)

----------------------------------------------------------------------------
(* The services.                                                           *)

\* When the address cannot be stored for the caller the pages are freed again.
AllocatePages(kind, typ, n, arg, stored) ==
    LET r  == Answer(pool, kind, typ, n, arg)
        ok == r.st = "ok" /\ stored
    IN  /\ pool' = IF r.st = "ok" /\ ~stored THEN FreeAt(Taken(pool, r, typ), r.addr, n).pool
                   ELSE Taken(pool, r, typ)
        /\ live' = IF ok THEN live \cup {[addr |-> r.addr, n |-> n]} ELSE live
        /\ last' = [op |-> "alloc", ok |-> ok, kind |-> kind, typ |-> typ,
                    arg |-> arg, n |-> n, addr |-> r.addr]
        /\ UNCHANGED mapped

FreePages(a, n) ==
    LET f == FreeAt(pool, a, n) IN
    /\ pool' = f.pool
    /\ live' = IF f.ok THEN {x \in live : Run(x.addr, x.n) \cap Run(a, n) = {}} ELSE live
    /\ last' = [op |-> "free", ok |-> f.ok, arg |-> a, n |-> n]
    /\ UNCHANGED mapped


Asks == {<<"any", 0>>} \cup ({"max", "address"} \X (0 .. Limit))

Next ==
    \/ \E n \in 0 .. MaxRun, t \in Types \cup BadTypes, q \in Asks, stored \in BOOLEAN :
          AllocatePages(q[1], t, n, q[2], stored)
    \/ \E a \in 0 .. Limit, n \in 0 .. MaxRun : FreePages(a, n)

----------------------------------------------------------------------------
(* Properties.                                                             *)

\* The pool keeps its shape: every bitmap page is free or typed, at most
\* TailSpans non-empty spans lie in the tail, and no two of them overlap
\* (tail_busy, tail_insert and the trims of free_tail_at).
TypeOK ==
    /\ mapped \in 0 .. MaxMapped
    /\ pool.use \in [Bitmap -> Types \cup {"free"}]
    /\ \A s \in pool.spans : s.pages > 0 /\ s.typ \in Types /\ SpanPages(s) \subseteq TailPages
    /\ Cardinality(pool.spans) <= TailSpans
    /\ \A s, t \in pool.spans : s = t \/ SpanPages(s) \cap SpanPages(t) = {}

\* What one call may change.
AskedPagesOnly == last'.op \in {"alloc", "free"} =>
    IF last'.op = "alloc" /\ last'.ok
    THEN LET ps == Run(last'.addr, last'.n) IN
         /\ \A p \in Managed :
               IF p \in ps THEN PageType(p) = "free" /\ PageType(p)' = last'.typ
               ELSE PageType(p)' = PageType(p)
         /\ ps \subseteq Managed
         /\ last'.kind = "address" => last'.addr = last'.arg
         /\ last'.kind = "max" => \A p \in ps : p <= last'.arg
         /\ ps \cap BelowPages # {} =>
               last'.kind = "address" \/ (last'.kind = "max" /\ last'.arg < OneMeg)
    ELSE \A p \in Managed :
         IF last'.ok /\ p \in Run(last'.arg, last'.n)
         THEN PageType(p) # "free" /\ PageType(p)' = "free"
         ELSE PageType(p)' = PageType(p)

\* A successful AllocatePages hands out pages that were all
\* conventional, where the caller asked for them, never in the window below
\* 1 MiB unless the caller named it, and changes no other page of the map; a
\* successful free gives back exactly the pages named; a refused call changes
\* nothing, across bitmap, tail and the boundary between them.
OnlyAskedPages == [][AskedPagesOnly]_vars

\* Every run of pages the memory map advertises as conventional, whatever
\* regions it crosses, can be allocated at its own address, as long as a tail
\* span is left for the part of it that lies in the tail.
HonestWhileSpansLast == \A a \in Managed : \A n \in 1 .. MaxMapped :
    (Conventional(a, n) /\ (SpanLeft(pool) \/ Run(a, n) \cap TailPages = {}))
        => At(pool, a, n).st = "ok"

\* Whatever was allocated in one call can be given back in one call, however
\* its neighbours were allocated, trimmed and freed in the meantime.
GivenBackWhole == \A x \in live : FreeAt(pool, x.addr, x.n).ok
===========================================================================
