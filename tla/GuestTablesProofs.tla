-------------------------- MODULE GuestTablesProofs --------------------------
(***************************************************************************)
(* Proofs about the guest table and its two users, for every capacity and  *)
(* every set of ids, specifications and inventories.                       *)
(***************************************************************************)
EXTENDS HaPair, RestVms, NaturalsInduction, WellFoundedInduction, FiniteSetTheorems, TLAPS

\* A non-empty set of naturals has a least element: a loop over an array that
\* stops at the first match stops whenever a match exists.
LEMMA LeastNatural ==
    ASSUME NEW S \in SUBSET Nat, S # {}
    PROVE  \E x \in S : \A y \in S : x <= y
<1>. DEFINE R == OpToRel(<, Nat)
<1>1. IsWellFoundedOn(R, Nat) BY NatLessThanWellFounded
<1>. HIDE DEF R
<1>2. \E x \in S : \A y \in S : ~ (<<y, x>> \in R) BY <1>1, WFMin
<1>3. \A x, y \in Nat : (y < x) => <<y, x>> \in R BY DEF R, OpToRel
<1>4. PICK x \in S : \A y \in S : ~ (<<y, x>> \in R) BY <1>2
<1>5. \A y \in S : ~ (y < x) BY <1>3, <1>4
<1>6. \A y \in S : x <= y BY <1>5
<1>. QED BY <1>6

Live == {"Defined", "Running", "Stopped"}

-----------------------------------------------------------------------------
(* The table *)

\* A table whose records have their types; active guests have distinct ids, none 0.
Good(t) == t \in Table /\ UniqueIds(t) /\ \A i \in Active(t) : t.slots[i].id # 0

\* The fields of a slot, and when it is active.
LEMMA SlotTypes ==
    ASSUME NEW t \in Table, NEW i \in Slot
    PROVE  /\ t.slots[i] \in VmRecord \cup {NoRecord}
           /\ i \in Active(t) <=> t.slots[i].state \in Live
           /\ i \in Active(t) => t.slots[i] \in VmRecord
           /\ i \in FreeSlots(t) <=> t.slots[i].state = "None"
           /\ i \in Active(t) \/ i \in Tombstones(t) \/ i \in FreeSlots(t)
<1>1. t.slots[i] \in VmRecord \cup {NoRecord} BY DEF Table
<1>2. i \in Active(t) <=> t.slots[i].state \in Live BY DEF Active, Live
<1>3. CASE t.slots[i] \in VmRecord
  <2>1. t.slots[i].state \in Lifecycle BY <1>3 DEF VmRecord
  <2>2. t.slots[i] # NoRecord BY <2>1 DEF NoRecord, Lifecycle
  <2>. QED BY <1>1, <1>2, <1>3, <2>1, <2>2 DEF FreeSlots, Tombstones, Lifecycle, Live
<1>4. CASE t.slots[i] = NoRecord
  <2>1. t.slots[i].state = "None" BY <1>4 DEF NoRecord
  <2>. QED BY <1>1, <1>2, <1>4, <2>1 DEF FreeSlots, Live
<1>. QED BY <1>1, <1>3, <1>4

\* The table with the record rec in slot i.
Put(t, i, rec, n) == [slots |-> [t.slots EXCEPT ![i] = rec], len |-> n]

\* What a record written to one slot changes.
LEMMA PutDoes ==
    ASSUME NEW t \in Table, NEW i \in Slot, NEW rec \in VmRecord, NEW n \in Nat
    PROVE  LET u == Put(t, i, rec, n)
           IN  /\ u \in Table /\ u.len = n
               /\ u.slots[i] = rec
               /\ \A j \in Slot : j # i => u.slots[j] = t.slots[j]
               /\ Active(u) = IF rec.state \in Live THEN Active(t) \cup {i} ELSE Active(t) \ {i}
               /\ FreeSlots(u) = FreeSlots(t) \ {i}
<1>. DEFINE u == Put(t, i, rec, n)
<1>1. t.slots \in [Slot -> VmRecord \cup {NoRecord}] BY DEF Table
<1>2. u.slots = [t.slots EXCEPT ![i] = rec] /\ u.len = n BY DEF Put
<1>3. u \in Table BY <1>1 DEF Put, Table
<1>. HIDE DEF u
<1>4. u.slots[i] = rec BY <1>1, <1>2
<1>5. \A j \in Slot : j # i => u.slots[j] = t.slots[j] BY <1>1, <1>2
<1>6. Active(u) = IF rec.state \in Live THEN Active(t) \cup {i} ELSE Active(t) \ {i}
  BY <1>4, <1>5 DEF Active, Live
<1>7. rec # NoRecord
  <2>1. rec.state \in Lifecycle BY DEF VmRecord
  <2>. QED BY <2>1 DEF NoRecord, Lifecycle
<1>8. FreeSlots(u) = FreeSlots(t) \ {i} BY <1>4, <1>5, <1>7 DEF FreeSlots
<1>. QED BY <1>2, <1>3, <1>4, <1>5, <1>6, <1>8 DEF u

\* get_mut finds the one slot that holds an active guest.
LEMMA FindIs ==
    ASSUME NEW t, UniqueIds(t), NEW i \in Active(t), NEW g, t.slots[i].id = g
    PROVE  Find(t, g) = i /\ Has(t, g) /\ i \in Slot
<1>1. i \in Slot /\ i \in Nat BY VmTableAssumption DEF Active, Slot
<1>2. {j \in Active(t) : t.slots[j].id = g} = {i} BY DEF UniqueIds
<1>3. \A j : IsLeast(j, {i}) <=> j = i BY <1>1 DEF IsLeast
<1>4. Find(t, g) = CHOOSE j \in Slot : IsLeast(j, {i}) BY <1>2 DEF Find
<1>5. Find(t, g) = i BY <1>1, <1>3, <1>4
<1>. QED BY <1>1, <1>5 DEF Has, ActiveIds

\* What start, stop and destroy have in common.
LEMMA MoveDoes ==
    ASSUME NEW t, Good(t), NEW i \in Active(t), NEW from, t.slots[i].state \in from,
           NEW to \in Lifecycle, NEW n \in Nat
    PROVE  Move(t, t.slots[i].id, from, to, n)
              = Result("Ok", Put(t, i, [t.slots[i] EXCEPT !.state = to], n))
<1>. DEFINE g == t.slots[i].id
<1>1. Find(t, g) = i /\ Has(t, g) /\ i \in Slot BY FindIs DEF Good
<1>2. StateOf(t, g) = t.slots[i].state BY <1>1 DEF StateOf
<1>3. Move(t, g, from, to, n) = Result("Ok", [slots |-> [t.slots EXCEPT ![i].state = to], len |-> n])
  BY <1>1, <1>2 DEF Move
<1>4. [t.slots EXCEPT ![i].state = to] = [t.slots EXCEPT ![i] = [t.slots[i] EXCEPT !.state = to]]
  <2>1. t.slots \in [Slot -> VmRecord \cup {NoRecord}] BY DEF Good, Table
  <2>. QED BY <1>1, <2>1
<1>. QED BY <1>3, <1>4 DEF Put

\* A move that is refused leaves the table alone.
LEMMA MoveCases ==
    ASSUME NEW t, Good(t), NEW g, NEW from, NEW to \in Lifecycle, NEW n \in Nat
    PROVE  \/ Move(t, g, from, to, n) \in {Result("NotFound", t), Result("BadState", t)}
           \/ \E i \in Active(t) :
                 /\ t.slots[i].id = g /\ t.slots[i].state \in from
                 /\ Move(t, g, from, to, n)
                      = Result("Ok", Put(t, i, [t.slots[i] EXCEPT !.state = to], n))
<1>1. CASE ~ Has(t, g) BY <1>1 DEF Move
<1>2. CASE Has(t, g)
  <2>1. PICK i \in Active(t) : t.slots[i].id = g BY <1>2 DEF Has, ActiveIds
  <2>2. Find(t, g) = i BY <2>1, FindIs DEF Good
  <2>3. CASE t.slots[i].state \in from BY <2>1, <2>3, MoveDoes
  <2>4. CASE t.slots[i].state \notin from BY <1>2, <2>2, <2>4 DEF Move, StateOf
  <2>. QED BY <2>3, <2>4
<1>. QED BY <1>1, <1>2

\* The record a move leaves.
LEMMA MovedRecord ==
    ASSUME NEW t, Good(t), NEW i \in Active(t), NEW to \in Lifecycle
    PROVE  LET rec == [t.slots[i] EXCEPT !.state = to]
           IN  rec \in VmRecord /\ rec.id = t.slots[i].id /\ rec.state = to /\ rec.id # 0 /\ i \in Slot
<1>1. i \in Slot BY DEF Active
<1>2. t.slots[i] \in VmRecord BY <1>1, SlotTypes DEF Good
<1>3. t.slots[i].id # 0 BY DEF Good
<1>. QED BY <1>1, <1>2, <1>3 DEF VmRecord

\* The slot create_with_spec takes: the first that is free or destroyed.
LEMMA LeastReusable ==
    ASSUME NEW t, Reusable(t) # {}
    PROVE  LET i == CHOOSE i \in Slot : IsLeast(i, Reusable(t))
           IN  i \in Slot /\ IsLeast(i, Reusable(t))
<1>1. Reusable(t) \in SUBSET Nat /\ Reusable(t) \subseteq Slot
  BY VmTableAssumption DEF Reusable, FreeSlots, Tombstones, Slot
<1>2. PICK i \in Reusable(t) : \A j \in Reusable(t) : i <= j BY <1>1, LeastNatural
<1>3. i \in Slot /\ IsLeast(i, Reusable(t)) BY <1>1, <1>2 DEF IsLeast
<1>. QED BY <1>3

\* create_with_spec, refused or accepted: a slot that was not active holds the
\* new guest.
LEMMA CreateCases ==
    ASSUME NEW t, Good(t), NEW g \in Ids, NEW spec \in VmSpec
    PROVE  LET r == CreateWithSpec(t, g, spec)
               s == WithProductIsoDefault(spec)
           IN  /\ s \in VmSpec
               /\ \/ r \in {Result("InvalidGuest", t), Result("BadState", t), Result("Full", t)}
                  \/ /\ g # 0 /\ ~ Has(t, g)
                     /\ \E i \in Slot : /\ i \notin Active(t) /\ IsLeast(i, Reusable(t))
                                        /\ r = Result("Ok", Put(t, i, [id |-> g, state |-> "Defined", spec |-> s], t.len + 1))
<1>. DEFINE s == WithProductIsoDefault(spec)
            i == CHOOSE k \in Slot : IsLeast(k, Reusable(t))
            r == CreateWithSpec(t, g, spec)
<1>1. s \in VmSpec BY DEF WithProductIsoDefault, VmSpec
<1>2. CASE g = 0 \/ ~ Valid(s) BY <1>1, <1>2 DEF CreateWithSpec
<1>3. CASE ~ (g = 0 \/ ~ Valid(s)) /\ Has(t, g) BY <1>1, <1>3 DEF CreateWithSpec
<1>4. CASE ~ (g = 0 \/ ~ Valid(s)) /\ ~ Has(t, g) /\ Reusable(t) = {} BY <1>1, <1>4 DEF CreateWithSpec
<1>5. CASE ~ (g = 0 \/ ~ Valid(s)) /\ ~ Has(t, g) /\ Reusable(t) # {}
  <2>1. i \in Slot /\ IsLeast(i, Reusable(t)) BY <1>5, LeastReusable
  <2>2. r = Result("Ok", Put(t, i, [id |-> g, state |-> "Defined", spec |-> s], t.len + 1))
    BY <1>5 DEF CreateWithSpec, Put
  <2>. HIDE DEF i
  <2>3. i \notin Active(t)
    <3>1. i \in FreeSlots(t) \/ i \in Tombstones(t) BY <2>1 DEF IsLeast, Reusable
    <3>2. t.slots[i].state \notin Live BY <3>1 DEF FreeSlots, Tombstones, NoRecord, Live
    <3>. QED BY <3>2 DEF Active, Live
  <2>. QED BY <1>1, <1>5, <2>1, <2>2, <2>3
<1>. QED BY <1>2, <1>3, <1>4, <1>5

\* A record with an id no other active guest has keeps a table good.
LEMMA PutGood ==
    ASSUME NEW t, Good(t), NEW i \in Slot, NEW rec \in VmRecord, rec.id # 0, NEW n \in Nat,
           rec.state \in Live => \A j \in Active(t) : j # i => t.slots[j].id # rec.id
    PROVE  Good(Put(t, i, rec, n))
<1>. DEFINE u == Put(t, i, rec, n)
<1>1. /\ u \in Table /\ u.slots[i] = rec
      /\ \A j \in Slot : j # i => u.slots[j] = t.slots[j]
      /\ Active(u) = IF rec.state \in Live THEN Active(t) \cup {i} ELSE Active(t) \ {i}
  BY PutDoes DEF Good
<1>. HIDE DEF u
<1>2. Active(t) \subseteq Slot BY DEF Active
<1>3. UniqueIds(u) BY <1>1, <1>2 DEF Good, UniqueIds
<1>4. \A j \in Active(u) : u.slots[j].id # 0 BY <1>1, <1>2 DEF Good
<1>5. Good(u) BY <1>1, <1>3, <1>4 DEF Good
<1>. QED BY <1>5 DEF u

Sound(t) == Good(t) /\ CountsActive(t) /\ FreeSuffix(t)

\* The active slots are finitely many.
LEMMA ActiveFinite ==
    ASSUME NEW t
    PROVE  IsFiniteSet(Active(t)) /\ Cardinality(Active(t)) \in Nat /\ IsFiniteSet(Slot) /\ Cardinality(Slot) = Cap
<1>1. Cap \in Nat BY VmTableAssumption
<1>2. IsFiniteSet(Slot) /\ Cardinality(Slot) = Cap BY <1>1, FS_Interval DEF Slot
<1>3. Active(t) \in SUBSET Slot BY DEF Active
<1>4. IsFiniteSet(Active(t)) BY <1>2, <1>3, FS_Subset
<1>. QED BY <1>2, <1>4, FS_CardinalityType

\* create_with_spec keeps the table sound.
LEMMA CreateSound ==
    ASSUME NEW t, Sound(t), NEW g \in Ids, NEW spec \in VmSpec
    PROVE  LET r == CreateWithSpec(t, g, spec)
           IN  Sound(r.tab) /\ r.err \in {"Ok", "InvalidGuest", "BadState", "Full"}
<1>. DEFINE r == CreateWithSpec(t, g, spec)
            s == WithProductIsoDefault(spec)
            rec == [id |-> g, state |-> "Defined", spec |-> s]
<1>1. Good(t) /\ t \in Table /\ t.len \in Nat BY DEF Sound, Good, Table
<1>2. ASSUME r \in {Result("InvalidGuest", t), Result("BadState", t), Result("Full", t)}
      PROVE  Sound(r.tab) /\ r.err \in {"Ok", "InvalidGuest", "BadState", "Full"}
  BY <1>2 DEF Result
<1>3. ASSUME NEW i \in Slot, i \notin Active(t), IsLeast(i, Reusable(t)), g # 0, ~ Has(t, g),
             r = Result("Ok", Put(t, i, rec, t.len + 1)), s \in VmSpec
      PROVE  Sound(r.tab) /\ r.err = "Ok"
  <2>. DEFINE u == Put(t, i, rec, t.len + 1)
  <2>1. r.tab = u /\ r.err = "Ok" BY <1>3 DEF Result
  <2>2. rec \in VmRecord /\ rec.id # 0 /\ rec.id = g /\ rec.state \in Live
    BY <1>3 DEF VmRecord, Lifecycle, Live
  <2>3. \A j \in Active(t) : t.slots[j].id # g BY <1>3 DEF Has, ActiveIds
  <2>4. t.len + 1 \in Nat BY <1>1
  <2>. HIDE DEF rec
  <2>5. Good(u) BY <1>1, <2>2, <2>3, <2>4, PutGood
  <2>6. Active(u) = Active(t) \cup {i} /\ FreeSlots(u) = FreeSlots(t) \ {i} /\ u.len = t.len + 1
    BY <1>1, <2>2, <2>4, PutDoes
  <2>. HIDE DEF u
  <2>7. CountsActive(u)
    BY <1>3, <2>6, ActiveFinite, FS_AddElement DEF Sound, CountsActive
  <2>8. FreeSuffix(u)
    <3>. SUFFICES ASSUME NEW f \in FreeSlots(u), NEW j \in Slot \ FreeSlots(u) PROVE j < f
      BY DEF FreeSuffix
    <3>1. f \in FreeSlots(t) /\ f # i /\ f \in Slot BY <2>6 DEF FreeSlots
    <3>2. CASE j = i
      <4>1. i <= f BY <1>3, <3>1 DEF IsLeast, Reusable
      <4>2. i \in Nat /\ f \in Nat BY <3>1, VmTableAssumption DEF Slot
      <4>. QED BY <3>1, <3>2, <4>1, <4>2
    <3>3. CASE j # i
      <4>1. j \in Slot \ FreeSlots(t) BY <2>6, <3>3
      <4>. QED BY <3>1, <4>1 DEF Sound, FreeSuffix
    <3>. QED BY <3>2, <3>3
  <2>. QED BY <2>1, <2>5, <2>7, <2>8 DEF Sound
<1>. HIDE DEF r, rec
<1>4. \/ r \in {Result("InvalidGuest", t), Result("BadState", t), Result("Full", t)}
      \/ s \in VmSpec /\ g # 0 /\ ~ Has(t, g) /\ \E i \in Slot :
            i \notin Active(t) /\ IsLeast(i, Reusable(t)) /\ r = Result("Ok", Put(t, i, rec, t.len + 1))
  BY <1>1, CreateCases DEF r, rec
<1>5. Sound(r.tab) /\ r.err \in {"Ok", "InvalidGuest", "BadState", "Full"} BY <1>2, <1>3, <1>4
<1>. QED BY <1>5 DEF r

\* start, stop and destroy keep the table sound, when the count they leave is that
\* of the active guests.
LEMMA MoveSound ==
    ASSUME NEW t, Sound(t), NEW g, NEW from \in SUBSET Live, NEW to \in Lifecycle, NEW n \in Nat,
           Active(t) # {} => n = IF to \in Live THEN t.len ELSE t.len - 1
    PROVE  LET r == Move(t, g, from, to, n)
           IN  Sound(r.tab) /\ r.err \in {"Ok", "NotFound", "BadState"}
<1>. DEFINE r == Move(t, g, from, to, n)
<1>1. Good(t) /\ t \in Table /\ t.len \in Nat BY DEF Sound, Good, Table
<1>2. ASSUME r \in {Result("NotFound", t), Result("BadState", t)}
      PROVE  Sound(r.tab) /\ r.err \in {"Ok", "NotFound", "BadState"}
  BY <1>2 DEF Result
<1>3. ASSUME NEW i \in Active(t), t.slots[i].id = g,
             r = Result("Ok", Put(t, i, [t.slots[i] EXCEPT !.state = to], n))
      PROVE  Sound(r.tab) /\ r.err = "Ok"
  <2>. DEFINE rec == [t.slots[i] EXCEPT !.state = to]
              u == Put(t, i, rec, n)
  <2>1. r.tab = u /\ r.err = "Ok" BY <1>3 DEF Result
  <2>2. rec \in VmRecord /\ rec.id = t.slots[i].id /\ rec.state = to /\ rec.id # 0 /\ i \in Slot
    BY <1>1, MovedRecord
  <2>. HIDE DEF rec
  <2>3. \A j \in Active(t) : j # i => t.slots[j].id # rec.id BY <1>1, <2>2 DEF Good, UniqueIds
  <2>4. Good(u) BY <1>1, <2>2, <2>3, PutGood
  <2>5. /\ Active(u) = IF to \in Live THEN Active(t) \cup {i} ELSE Active(t) \ {i}
        /\ FreeSlots(u) = FreeSlots(t) \ {i} /\ u.len = n
    BY <1>1, <2>2, PutDoes
  <2>. HIDE DEF u
  <2>6. CountsActive(u)
    <3>1. CASE to \in Live
      <4>1. Active(u) = Active(t) /\ u.len = t.len BY <2>5, <3>1
      <4>. QED BY <4>1 DEF Sound, CountsActive
    <3>2. CASE to \notin Live
      <4>1. Active(u) = Active(t) \ {i} /\ u.len = t.len - 1 BY <2>5, <3>2
      <4>. QED BY <4>1, ActiveFinite, FS_RemoveElement, ZenonT(60) DEF Sound, CountsActive
    <3>. QED BY <3>1, <3>2
  <2>7. i \notin FreeSlots(t)
    <3>1. t.slots[i].state \in Live BY DEF Active, Live
    <3>. QED BY <3>1 DEF FreeSlots, NoRecord, Live
  <2>8. FreeSuffix(u) BY <2>5, <2>7 DEF Sound, FreeSuffix
  <2>. QED BY <2>1, <2>4, <2>6, <2>8 DEF Sound
<1>. HIDE DEF r
<1>4. \/ r \in {Result("NotFound", t), Result("BadState", t)}
      \/ \E i \in Active(t) : t.slots[i].id = g /\ r = Result("Ok", Put(t, i, [t.slots[i] EXCEPT !.state = to], n))
  BY <1>1, MoveCases DEF r
<1>5. Sound(r.tab) /\ r.err \in {"Ok", "NotFound", "BadState"} BY <1>2, <1>3, <1>4
<1>. QED BY <1>5 DEF r

\* The three moves of the table.
LEMMA MovesSound ==
    ASSUME NEW t, Sound(t), NEW g, NEW r \in {StartVm(t, g), StopVm(t, g), DestroyVm(t, g)}
    PROVE  Sound(r.tab) /\ r.err \in {"Ok", "NotFound", "BadState"}
<1>1. t.len \in Nat BY DEF Sound, Good, Table
<1>2. CASE r = StartVm(t, g) BY <1>1, <1>2, MoveSound DEF StartVm, Live, Lifecycle
<1>3. CASE r = StopVm(t, g) BY <1>1, <1>3, MoveSound DEF StopVm, Live, Lifecycle
<1>4. CASE r = DestroyVm(t, g)
  <2>. DEFINE n == IF t.len = 0 THEN 0 ELSE t.len - 1
  <2>1. n \in Nat BY <1>1
  <2>2. Active(t) # {} => n = t.len - 1
    <3>1. Active(t) # {} => Cardinality(Active(t)) # 0 BY ActiveFinite, FS_EmptySet
    <3>. QED BY <1>1, <3>1 DEF Sound, CountsActive
  <2>. HIDE DEF n
  <2>3. "Destroyed" \in Lifecycle /\ "Destroyed" \notin Live /\ {"Defined", "Stopped"} \in SUBSET Live
    BY DEF Lifecycle, Live
  <2>4. r = Move(t, g, {"Defined", "Stopped"}, "Destroyed", n) BY <1>4 DEF DestroyVm, n
  <2>. QED BY <2>1, <2>2, <2>3, <2>4, MoveSound
<1>. QED BY <1>2, <1>3, <1>4

\* A new table is sound.
LEMMA NewSound == Sound(NewTable) /\ Active(NewTable) = {}
<1>1. \A i \in Slot : NewTable.slots[i] = NoRecord BY DEF NewTable
<1>2. NewTable \in Table BY DEF NewTable, Table
<1>3. Active(NewTable) = {} BY <1>1 DEF Active, NoRecord
<1>4. FreeSlots(NewTable) = Slot BY <1>1 DEF FreeSlots
<1>5. CountsActive(NewTable) BY <1>3, FS_EmptySet DEF CountsActive, NewTable
<1>. QED BY <1>2, <1>3, <1>4, <1>5 DEF Sound, Good, UniqueIds, FreeSuffix

-----------------------------------------------------------------------------
(* The table behind the REST API *)

LEMMA RestStep == Sound(tab) /\ [RestNext]_restVars => Sound(tab')
<1>. SUFFICES ASSUME Sound(tab), [RestNext]_restVars PROVE Sound(tab') OBVIOUS
<1>1. ASSUME NEW g \in Ids, NEW spec \in RestSpecs, RestCreate(g, spec) PROVE Sound(tab')
  BY <1>1, CreateSound, RestAssumption DEF RestCreate
<1>2. ASSUME NEW g \in Ids, RestStart(g) \/ RestStop(g) \/ RestDestroy(g) PROVE Sound(tab')
  BY <1>2, MovesSound DEF RestStart, RestStop, RestDestroy
<1>3. CASE Tick \/ UNCHANGED restVars BY <1>3 DEF Tick, restVars
<1>. QED BY <1>1, <1>2, <1>3 DEF RestNext

(* After any sequence of REST requests, accepted or refused, and scheduler   *)
(* ticks: len() is the number of guests that are not destroyed, no two have  *)
(* one id, and the slots never used follow all the others (VmTable).         *)
THEOREM TableIsSound == RestSpec => []TableSound
<1>1. RestInit => Sound(tab) BY NewSound DEF RestInit
<1>2. Sound(tab) => TableSound BY DEF Sound, Good, TableSound
<1>3. Sound(tab) /\ [RestNext]_restVars => Sound(tab)' BY RestStep
<1>. QED BY <1>1, <1>2, <1>3, PTL DEF RestSpec

-----------------------------------------------------------------------------
(* The HA pair *)

\* u is the table t with the guest in slot i in the state to.
IsMoved(u, t, i, to) ==
    /\ Good(u)
    /\ u.slots[i].id = t.slots[i].id /\ u.slots[i].state = to
    /\ \A j \in Slot : j # i => u.slots[j] = t.slots[j]
    /\ Active(u) = IF to \in Live THEN Active(t) ELSE Active(t) \ {i}

\* A move of an active guest whose state allows it succeeds.
LEMMA MoveOk ==
    ASSUME NEW t, Good(t), NEW i \in Active(t), NEW from, t.slots[i].state \in from,
           NEW to \in Lifecycle, NEW n \in Nat
    PROVE  /\ Move(t, t.slots[i].id, from, to, n).err = "Ok"
           /\ IsMoved(Move(t, t.slots[i].id, from, to, n).tab, t, i, to)
<1>. DEFINE rec == [t.slots[i] EXCEPT !.state = to]
            u == Put(t, i, rec, n)
            r == Move(t, t.slots[i].id, from, to, n)
<1>1. r = Result("Ok", u) BY MoveDoes
<1>2. r.err = "Ok" /\ r.tab = u BY <1>1 DEF Result
<1>3. rec \in VmRecord /\ rec.id = t.slots[i].id /\ rec.state = to /\ rec.id # 0 /\ i \in Slot
  BY MovedRecord
<1>. HIDE DEF rec
<1>4. \A j \in Active(t) : j # i => t.slots[j].id # rec.id BY <1>3 DEF Good, UniqueIds
<1>5. Good(u) BY <1>3, <1>4, PutGood
<1>6. /\ u.slots[i] = rec /\ \A j \in Slot : j # i => u.slots[j] = t.slots[j]
      /\ Active(u) = IF to \in Live THEN Active(t) \cup {i} ELSE Active(t) \ {i}
  BY <1>3, PutDoes DEF Good
<1>. HIDE DEF u, r
<1>7. r.err = "Ok" /\ IsMoved(r.tab, t, i, to) BY <1>2, <1>3, <1>5, <1>6 DEF IsMoved
<1>. QED BY <1>7 DEF r

\* The count destroy leaves is a number, sound or not.
LEMMA LenOf == ASSUME NEW t, Good(t) PROVE t.len \in Nat /\ (IF t.len = 0 THEN 0 ELSE t.len - 1) \in Nat
BY DEF Good, Table

\* The source's half of an iteration of failover removes the guest.
LEMMA QuiesceDoes ==
    ASSUME NEW t, Good(t), NEW i \in Active(t)
    PROVE  LET q == Quiesce(t, t.slots[i])
           IN  /\ q.err = "Ok" /\ Good(q.tab) /\ Active(q.tab) = Active(t) \ {i}
               /\ \A j \in Slot : j # i => q.tab.slots[j] = t.slots[j]
<1>. DEFINE rec == t.slots[i]
            p == IF rec.state = "Running" THEN StopVm(t, rec.id) ELSE Result("Ok", t)
            q == Quiesce(t, rec)
<1>1. rec.state \in Live BY DEF Active, Live
<1>2. /\ p.err = "Ok" /\ Good(p.tab) /\ Active(p.tab) = Active(t)
      /\ p.tab.slots[i].id = rec.id /\ p.tab.slots[i].state \in {"Defined", "Stopped"}
      /\ \A j \in Slot : j # i => p.tab.slots[j] = t.slots[j]
  <2>1. CASE rec.state = "Running"
    <3>1. p = Move(t, rec.id, {"Running"}, "Stopped", t.len) BY <2>1 DEF StopVm
    <3>2. "Stopped" \in Lifecycle /\ "Stopped" \in Live BY DEF Lifecycle, Live
    <3>3. t.slots[i].state \in {"Running"} /\ t.len \in Nat BY <2>1, LenOf
    <3>. HIDE DEF p
    <3>4. p.err = "Ok" /\ IsMoved(p.tab, t, i, "Stopped") BY <3>1, <3>2, <3>3, MoveOk, Zenon
    <3>. QED BY <3>2, <3>4 DEF IsMoved
  <2>2. CASE rec.state # "Running"
    <3>1. p.err = "Ok" /\ p.tab = t BY <2>2 DEF Result
    <3>. QED BY <1>1, <2>2, <3>1 DEF Live
  <2>. QED BY <2>1, <2>2
<1>3. q = DestroyVm(p.tab, rec.id) BY <1>2 DEF Quiesce, AndThen
<1>. HIDE DEF p, q
<1>. DEFINE u == p.tab
            n == IF u.len = 0 THEN 0 ELSE u.len - 1
<1>4. i \in Active(u) /\ n \in Nat BY <1>2, LenOf
<1>5. q = Move(u, u.slots[i].id, {"Defined", "Stopped"}, "Destroyed", n) BY <1>2, <1>3 DEF DestroyVm
<1>6. "Destroyed" \in Lifecycle /\ "Destroyed" \notin Live BY DEF Lifecycle, Live
<1>. HIDE DEF n, u
<1>a. Good(u) /\ u.slots[i].state \in {"Defined", "Stopped"} BY <1>2 DEF u
<1>b. q.err = "Ok" /\ IsMoved(q.tab, u, i, "Destroyed") BY <1>4, <1>5, <1>6, <1>a, MoveOk, Zenon
<1>7. /\ q.err = "Ok" /\ Good(q.tab) /\ Active(q.tab) = Active(u) \ {i}
      /\ \A j \in Slot : j # i => q.tab.slots[j] = u.slots[j]
  BY <1>6, <1>b DEF IsMoved
<1>8. /\ q.err = "Ok" /\ Good(q.tab) /\ Active(q.tab) = Active(t) \ {i}
      /\ \A j \in Slot : j # i => q.tab.slots[j] = t.slots[j]
  BY <1>2, <1>7 DEF u
<1>. QED BY <1>8 DEF q

\* The state a guest has after its failover.
After(state) == IF state = "Stopped" THEN "Stopped" ELSE "Running"

\* The destination's half adds it, when the destination has room and not the guest.
LEMMA RecreateDoes ==
    ASSUME NEW t, Good(t), NEW rec \in VmRecord, rec.id # 0, ~ Has(t, rec.id), Reusable(t) # {}
    PROVE  LET d == Recreate(t, rec)
           IN  /\ d.err = "Ok" /\ Good(d.tab)
               /\ \E k \in Slot : /\ k \notin Active(t) /\ Active(d.tab) = Active(t) \cup {k}
                                   /\ d.tab.slots[k].id = rec.id
                                   /\ d.tab.slots[k].state = After(rec.state)
                                   /\ \A j \in Slot : j # k => d.tab.slots[j] = t.slots[j]
<1>. DEFINE g == rec.id
            c == CreateWithSpec(t, g, Defaults)
            i == CHOOSE m \in Slot : IsLeast(m, Reusable(t))
            new == [id |-> g, state |-> "Defined", spec |-> Defaults]
            d == Recreate(t, rec)
<1>1. g \in Ids BY DEF VmRecord
<1>2. WithProductIsoDefault(Defaults) = Defaults /\ Valid(Defaults) /\ Defaults \in VmSpec
  BY DEF WithProductIsoDefault, Defaults, Valid, VmSpec
<1>3. i \in Slot /\ IsLeast(i, Reusable(t)) BY LeastReusable
<1>4. c = Result("Ok", Put(t, i, new, t.len + 1)) BY <1>2 DEF CreateWithSpec, Put
<1>. HIDE DEF i
<1>5. i \notin Active(t)
  <2>1. i \in FreeSlots(t) \/ i \in Tombstones(t) BY <1>3 DEF IsLeast, Reusable
  <2>2. t.slots[i].state \notin Live BY <2>1 DEF FreeSlots, Tombstones, NoRecord, Live
  <2>. QED BY <2>2 DEF Active, Live
<1>6. new \in VmRecord /\ new.id = g /\ new.state = "Defined" /\ new.id # 0
      /\ new.state \in Live
  BY <1>1, <1>2 DEF VmRecord, Lifecycle, Live
<1>7. t.len + 1 \in Nat BY LenOf
<1>8. \A j \in Active(t) : t.slots[j].id # g BY DEF Has, ActiveIds
<1>. HIDE DEF new
<1>. DEFINE n == t.len + 1
            u == Put(t, i, new, n)
<1>. HIDE DEF n
<1>9. Good(u) /\ n \in Nat BY <1>3, <1>6, <1>7, <1>8, PutGood DEF n
<1>10. /\ u.slots[i] = new /\ Active(u) = Active(t) \cup {i}
       /\ \A j \in Slot : j # i => u.slots[j] = t.slots[j]
  <2>1. t \in Table BY DEF Good
  <2>2. /\ u.slots[i] = new /\ \A j \in Slot : j # i => u.slots[j] = t.slots[j]
        /\ Active(u) = IF new.state \in Live THEN Active(t) \cup {i} ELSE Active(t) \ {i}
    BY <1>3, <1>6, <1>9, <2>1, PutDoes
  <2>. QED BY <1>6, <2>2
<1>11. c.err = "Ok" /\ c.tab = u BY <1>4 DEF Result, n
<1>. HIDE DEF u, c
<1>. DEFINE v == StartVm(u, g)
            w == StopVm(v.tab, g)
<1>12. /\ v.err = "Ok" /\ Good(v.tab) /\ v.tab.slots[i].id = g /\ v.tab.slots[i].state = "Running"
       /\ \A j \in Slot : j # i => v.tab.slots[j] = u.slots[j]
       /\ Active(v.tab) = Active(u)
  <2>1. i \in Active(u) /\ u.slots[i].id = g /\ u.slots[i].state \in {"Defined", "Stopped"} /\ u.len \in Nat
    BY <1>6, <1>9, <1>10, LenOf
  <2>2. v = Move(u, u.slots[i].id, {"Defined", "Stopped"}, "Running", u.len) BY <2>1 DEF StartVm
  <2>3. "Running" \in Lifecycle /\ "Running" \in Live BY DEF Lifecycle, Live
  <2>. HIDE DEF v
  <2>4. v.err = "Ok" /\ IsMoved(v.tab, u, i, "Running") BY <1>9, <2>1, <2>2, <2>3, MoveOk, Zenon
  <2>. QED BY <2>1, <2>3, <2>4 DEF IsMoved
<1>. HIDE DEF v
<1>13. /\ w.err = "Ok" /\ Good(w.tab) /\ w.tab.slots[i].id = g /\ w.tab.slots[i].state = "Stopped"
       /\ \A j \in Slot : j # i => w.tab.slots[j] = u.slots[j]
       /\ Active(w.tab) = Active(u)
  <2>. DEFINE x == v.tab
  <2>1. i \in Active(x) /\ x.slots[i].id = g /\ x.slots[i].state \in {"Running"} /\ x.len \in Nat /\ Good(x)
    BY <1>10, <1>12, LenOf
  <2>2. w = Move(x, x.slots[i].id, {"Running"}, "Stopped", x.len) BY <2>1 DEF StopVm
  <2>3. "Stopped" \in Lifecycle /\ "Stopped" \in Live BY DEF Lifecycle, Live
  <2>. HIDE DEF x, w
  <2>4. w.err = "Ok" /\ IsMoved(w.tab, x, i, "Stopped") BY <2>1, <2>2, <2>3, MoveOk, Zenon
  <2>. QED BY <1>12, <2>1, <2>3, <2>4 DEF x, IsMoved
<1>14. d = IF rec.state = "Stopped" THEN w ELSE v
  BY <1>11, <1>12 DEF Recreate, AndThen, v, c
<1>. HIDE DEF w, d
<1>15. /\ d.err = "Ok" /\ Good(d.tab) /\ Active(d.tab) = Active(t) \cup {i}
       /\ d.tab.slots[i].id = rec.id /\ d.tab.slots[i].state = After(rec.state)
       /\ \A j \in Slot : j # i => d.tab.slots[j] = t.slots[j]
  <2>1. CASE rec.state = "Stopped" BY <1>10, <1>13, <1>14, <2>1 DEF After
  <2>2. CASE rec.state # "Stopped" BY <1>10, <1>12, <1>14, <2>2 DEF After
  <2>. QED BY <2>1, <2>2
<1>16. /\ d.err = "Ok" /\ Good(d.tab)
       /\ \E k \in Slot : /\ k \notin Active(t) /\ Active(d.tab) = Active(t) \cup {k}
                           /\ d.tab.slots[k].id = rec.id
                           /\ d.tab.slots[k].state = After(rec.state)
                           /\ \A j \in Slot : j # k => d.tab.slots[j] = t.slots[j]
  BY <1>3, <1>5, <1>15
<1>. QED BY <1>16 DEF d

\* The snapshot as a table.
Snap(slots) == [slots |-> slots, len |-> 0]

\* A failover between two iterations: what is left to move is all the source
\* holds, unchanged since the snapshot, and the destination holds the rest.
Moving(snap, todo, src, dst) ==
    /\ Good(Snap(snap)) /\ todo \subseteq Active(Snap(snap))
    /\ Active(src) = todo /\ \A i \in todo : src.slots[i] = snap[i]
    /\ \A i \in Active(Snap(snap)) \ todo :
           \E j \in Active(dst) : /\ dst.slots[j].id = snap[i].id
                                  /\ dst.slots[j].state = After(snap[i].state)
    /\ \A j \in Active(dst) : \E i \in Active(Snap(snap)) \ todo : dst.slots[j].id = snap[i].id

HaIInv ==
    /\ active \in Roles /\ tables \in [Roles -> Table]
    /\ \A r \in Roles : Good(tables[r])
    /\ \/ job = Idle
       \/ job.kind = "failover"
       \/ job.kind = "import" /\ job.batch \in Batches /\ job.done \in 0 .. Len(job.batch)
    /\ IF job.kind = "failover"
       THEN Moving(job.snap, job.todo, tables[active], tables[Other(active)])
       ELSE Active(tables[Other(active)]) = {}

\* While a guest is left to move, the destination has a slot for it: its guests
\* are fewer than the slots of the snapshot.
LEMMA RoomAtDestination ==
    ASSUME NEW snap, NEW todo, NEW src, NEW dst, Moving(snap, todo, src, dst), Good(dst),
           NEW i \in todo
    PROVE  Reusable(dst) # {}
<1>. SUFFICES ASSUME Reusable(dst) = {} PROVE FALSE OBVIOUS
<1>. DEFINE M == Active(Snap(snap)) \ todo
            f == [j \in Slot |-> CHOOSE m \in M : dst.slots[j].id = snap[m].id]
<1>1. Active(dst) = Slot
  <2>1. \A j \in Slot : j \in Active(dst)
    <3>. SUFFICES ASSUME NEW j \in Slot PROVE j \in Active(dst) OBVIOUS
    <3>1. j \in Active(dst) \/ j \in Tombstones(dst) \/ j \in FreeSlots(dst) BY SlotTypes DEF Good
    <3>. QED BY <3>1 DEF Reusable
  <2>. QED BY <2>1 DEF Active
<1>2. \A j \in Slot : f[j] \in M /\ dst.slots[j].id = snap[f[j]].id
  <2>. SUFFICES ASSUME NEW j \in Slot PROVE f[j] \in M /\ dst.slots[j].id = snap[f[j]].id OBVIOUS
  <2>1. \E m \in M : dst.slots[j].id = snap[m].id BY <1>1 DEF Moving
  <2>. QED BY <2>1
<1>3. f = [j \in Slot |-> f[j]] OBVIOUS
<1>4. i \in Slot /\ i \notin M /\ M \in SUBSET Slot BY DEF Moving, Active
<1>. HIDE DEF f, M
<1>5. \A j, k \in Slot : f[j] = f[k] => j = k BY <1>1, <1>2 DEF Good, UniqueIds
<1>6. f \in Injection(Slot, M) BY <1>2, <1>3, <1>5 DEF Injection, IsInjective
<1>7. IsFiniteSet(Slot) BY ActiveFinite
<1>8. IsFiniteSet(M) /\ Cardinality(M) <= Cardinality(Slot) /\ Cardinality(M) # Cardinality(Slot)
  BY <1>4, <1>7, FS_Subset
<1>9. Cardinality(Slot) <= Cardinality(M) BY <1>6, <1>8, FS_Injection
<1>10. Cardinality(Slot) \in Nat /\ Cardinality(M) \in Nat BY <1>7, <1>8, FS_CardinalityType
<1>. QED BY <1>8, <1>9, <1>10

\* An iteration succeeds and moves one guest.
LEMMA IterationMoves ==
    ASSUME NEW snap, NEW todo, NEW src, NEW dst, Good(src), Good(dst),
           Moving(snap, todo, src, dst), NEW i \in todo,
           NEW q, q = Quiesce(src, snap[i]), NEW d, d = Recreate(dst, snap[i])
    PROVE  /\ q.err = "Ok" /\ d.err = "Ok" /\ Good(q.tab) /\ Good(d.tab)
           /\ Moving(snap, todo \ {i}, q.tab, d.tab)
<1>. DEFINE A == Active(Snap(snap))
<1>1. i \in Active(src) /\ snap[i] = src.slots[i] /\ i \in Slot /\ i \in A BY DEF Moving, Active
<1>2. /\ q.err = "Ok" /\ Good(q.tab) /\ Active(q.tab) = todo \ {i}
      /\ \A j \in Slot : j # i => q.tab.slots[j] = src.slots[j]
  BY <1>1, QuiesceDoes DEF Moving
<1>3. snap[i] \in VmRecord /\ snap[i].id # 0
  <2>1. src \in Table BY DEF Good
  <2>. QED BY <1>1, <2>1, SlotTypes DEF Good
<1>4. \A m, n \in A : snap[m].id = snap[n].id => m = n BY DEF Moving, Good, UniqueIds, Snap
<1>5. ~ Has(dst, snap[i].id)
  <2>. SUFFICES ASSUME NEW j \in Active(dst), dst.slots[j].id = snap[i].id PROVE FALSE
    BY DEF Has, ActiveIds
  <2>1. PICK m \in A \ todo : dst.slots[j].id = snap[m].id BY DEF Moving
  <2>. QED BY <1>1, <1>4, <2>1
<1>6. Reusable(dst) # {} BY RoomAtDestination
<1>7. d.err = "Ok" /\ Good(d.tab) BY <1>3, <1>5, <1>6, RecreateDoes
<1>8. PICK k \in Slot : /\ k \notin Active(dst) /\ Active(d.tab) = Active(dst) \cup {k}
                        /\ d.tab.slots[k].id = snap[i].id
                        /\ d.tab.slots[k].state = After(snap[i].state)
                        /\ \A j \in Slot : j # k => d.tab.slots[j] = dst.slots[j]
  BY <1>3, <1>5, <1>6, RecreateDoes
<1>. HIDE DEF A
<1>9. Active(dst) \subseteq Slot /\ todo \subseteq Slot BY DEF Active, Moving
<1>10. \A m \in todo \ {i} : q.tab.slots[m] = snap[m] BY <1>2, <1>9 DEF Moving
<1>11. ASSUME NEW m \in A \ (todo \ {i})
       PROVE  \E j \in Active(d.tab) : d.tab.slots[j].id = snap[m].id /\ d.tab.slots[j].state = After(snap[m].state)
  <2>1. CASE m = i BY <1>8, <2>1
  <2>2. CASE m # i
    <3>1. m \in A \ todo BY <2>2
    <3>2. PICK j \in Active(dst) : dst.slots[j].id = snap[m].id /\ dst.slots[j].state = After(snap[m].state)
      BY <3>1 DEF Moving, A
    <3>3. j \in Active(d.tab) /\ d.tab.slots[j] = dst.slots[j] BY <1>8, <1>9
    <3>. QED BY <3>2, <3>3
  <2>. QED BY <2>1, <2>2
<1>12. ASSUME NEW j \in Active(d.tab)
       PROVE  \E m \in A \ (todo \ {i}) : d.tab.slots[j].id = snap[m].id
  <2>1. CASE j = k BY <1>1, <1>8, <2>1 DEF A
  <2>2. CASE j # k
    <3>1. j \in Active(dst) /\ d.tab.slots[j] = dst.slots[j] BY <1>8, <1>9, <2>2
    <3>2. PICK m \in A \ todo : dst.slots[j].id = snap[m].id BY <3>1 DEF Moving, A
    <3>. QED BY <3>1, <3>2
  <2>. QED BY <2>1, <2>2
<1>13. Good(Snap(snap)) /\ todo \subseteq A BY DEF Moving, A
<1>14. Moving(snap, todo \ {i}, q.tab, d.tab) BY <1>2, <1>10, <1>11, <1>12, <1>13 DEF Moving, A
<1>. QED BY <1>2, <1>7, <1>14

\* Good tables stay good under the operations of a table.
LEMMA CreateGood ==
    ASSUME NEW t, Good(t), NEW g \in Ids, NEW spec \in VmSpec
    PROVE  Good(CreateWithSpec(t, g, spec).tab)
<1>. DEFINE r == CreateWithSpec(t, g, spec)
            s == WithProductIsoDefault(spec)
            rec == [id |-> g, state |-> "Defined", spec |-> s]
<1>1. s \in VmSpec BY CreateCases
<1>2. rec \in VmRecord /\ rec.id = g BY <1>1 DEF VmRecord, Lifecycle
<1>3. t.len + 1 \in Nat BY LenOf
<1>. HIDE DEF rec
<1>4. ASSUME r \in {Result("InvalidGuest", t), Result("BadState", t), Result("Full", t)} PROVE Good(r.tab)
  BY <1>4 DEF Result
<1>5. ASSUME NEW i \in Slot, g # 0, ~ Has(t, g), r = Result("Ok", Put(t, i, rec, t.len + 1)) PROVE Good(r.tab)
  <2>1. \A j \in Active(t) : t.slots[j].id # rec.id BY <1>2, <1>5 DEF Has, ActiveIds
  <2>2. Good(Put(t, i, rec, t.len + 1)) BY <1>2, <1>3, <1>5, <2>1, PutGood
  <2>. QED BY <1>5, <2>2 DEF Result
<1>. HIDE DEF r
<1>6. \/ r \in {Result("InvalidGuest", t), Result("BadState", t), Result("Full", t)}
      \/ g # 0 /\ ~ Has(t, g) /\ \E i \in Slot : r = Result("Ok", Put(t, i, rec, t.len + 1))
  BY CreateCases DEF r, rec
<1>7. Good(r.tab) BY <1>4, <1>5, <1>6
<1>. QED BY <1>7 DEF r

\* A lifecycle move keeps ids unique and records well-typed.
LEMMA MoveGood ==
    ASSUME NEW t, Good(t), NEW g, NEW from, NEW to \in Lifecycle, NEW n \in Nat
    PROVE  Good(Move(t, g, from, to, n).tab)
<1>. DEFINE r == Move(t, g, from, to, n)
<1>1. ASSUME r \in {Result("NotFound", t), Result("BadState", t)} PROVE Good(r.tab)
  BY <1>1 DEF Result
<1>2. ASSUME NEW i \in Active(t), t.slots[i].id = g, t.slots[i].state \in from PROVE Good(r.tab)
  BY <1>2, MoveOk DEF IsMoved
<1>. HIDE DEF r
<1>3. \/ r \in {Result("NotFound", t), Result("BadState", t)}
      \/ \E i \in Active(t) : t.slots[i].id = g /\ t.slots[i].state \in from
  BY MoveCases DEF r
<1>4. Good(r.tab) BY <1>1, <1>2, <1>3
<1>. QED BY <1>4 DEF r

\* So do start, stop and destroy.
LEMMA MovesGood ==
    ASSUME NEW t, Good(t), NEW g, NEW r \in {StartVm(t, g), StopVm(t, g), DestroyVm(t, g)}
    PROVE  Good(r.tab)
<1>1. t.len \in Nat /\ (IF t.len = 0 THEN 0 ELSE t.len - 1) \in Nat BY LenOf
<1>2. CASE r = StartVm(t, g) BY <1>1, <1>2, MoveGood DEF StartVm, Lifecycle
<1>3. CASE r = StopVm(t, g) BY <1>1, <1>3, MoveGood DEF StopVm, Lifecycle
<1>4. CASE r = DestroyVm(t, g)
  <2>. DEFINE n == IF t.len = 0 THEN 0 ELSE t.len - 1
  <2>1. r = Move(t, g, {"Defined", "Stopped"}, "Destroyed", n) BY <1>4 DEF DestroyVm
  <2>2. n \in Nat /\ "Destroyed" \in Lifecycle BY <1>1 DEF Lifecycle
  <2>. HIDE DEF n
  <2>. QED BY <2>1, <2>2, MoveGood
<1>. QED BY <1>2, <1>3, <1>4

\* A new table on the active side alone keeps the invariant.
LEMMA CallKeeps ==
    ASSUME HaIInv, job.kind # "failover", job'.kind # "failover", active' = active,
           NEW t, Good(t), tables' = [tables EXCEPT ![active] = t],
           \/ job' = Idle
           \/ job'.kind = "import" /\ job'.batch \in Batches /\ job'.done \in 0 .. Len(job'.batch)
    PROVE  HaIInv'
<1>1. active \in Roles /\ Other(active) \in Roles /\ Other(active) # active
  BY DEF HaIInv, Roles, Other
<1>2. tables' \in [Roles -> Table] BY DEF HaIInv, Good
<1>3. tables'[active] = t /\ tables'[Other(active)] = tables[Other(active)] BY <1>1 DEF HaIInv
<1>4. \A r \in Roles : Good(tables'[r]) BY DEF HaIInv
<1>5. Active(tables'[Other(active)]) = {} BY <1>3 DEF HaIInv
<1>6. Other(active') = Other(active) OBVIOUS
<1>. QED BY <1>1, <1>2, <1>4, <1>5, <1>6 DEF HaIInv

\* Two empty tables and no job.
LEMMA HaIInvInit == Init => HaIInv
<1>. SUFFICES ASSUME Init PROVE HaIInv OBVIOUS
<1>1. \A r \in Roles : tables[r] = NewTable BY DEF Init
<1>2. Good(NewTable) /\ Active(NewTable) = {} /\ NewTable \in Table BY NewSound DEF Sound, Good
<1>3. active \in Roles /\ Other(active) \in Roles BY DEF Init, Roles, Other
<1>4. job = Idle /\ job.kind # "failover" BY DEF Init, Idle
<1>5. tables \in [Roles -> Table] BY <1>2 DEF Init
<1>. QED BY <1>1, <1>2, <1>3, <1>4, <1>5 DEF HaIInv

\* An iteration of failover, as a step of the pair: it never fails.
LEMMA FailoverStepDoes ==
    ASSUME HaIInv, FailoverStep
    PROVE  HaIInv' /\ job'.kind = "failover"
<1>1. PICK i \in job.todo :
        \E q \in {Quiesce(tables[active], job.snap[i])} :
        \E d \in {IF q.err = "Ok" THEN Recreate(tables[Other(active)], job.snap[i])
                  ELSE Result(q.err, tables[Other(active)])} :
            /\ tables' = [r \in Roles |-> IF r = active THEN q.tab ELSE d.tab]
            /\ job' = IF d.err = "Ok" THEN Failover(job.snap, job.todo \ {i}) ELSE Idle
  BY DEF FailoverStep
<1>. DEFINE q == Quiesce(tables[active], job.snap[i])
            d == Recreate(tables[Other(active)], job.snap[i])
<1>2. active \in Roles /\ Other(active) \in Roles /\ Other(active) # active
  BY DEF HaIInv, Roles, Other
<1>3. /\ Good(tables[active]) /\ Good(tables[Other(active)])
      /\ Moving(job.snap, job.todo, tables[active], tables[Other(active)])
  BY <1>2 DEF HaIInv, FailoverStep
<1>4. /\ q.err = "Ok" /\ d.err = "Ok" /\ Good(q.tab) /\ Good(d.tab)
      /\ Moving(job.snap, job.todo \ {i}, q.tab, d.tab)
  BY <1>1, <1>3, IterationMoves
<1>5. /\ tables' = [r \in Roles |-> IF r = active THEN q.tab ELSE d.tab]
      /\ job' = Failover(job.snap, job.todo \ {i})
  BY <1>1, <1>4
<1>. HIDE DEF q, d
<1>6. job'.kind = "failover" /\ job'.snap = job.snap /\ job'.todo = job.todo \ {i}
  BY <1>5 DEF Failover
<1>7. active' = active BY DEF FailoverStep
<1>8. tables'[active] = q.tab /\ tables'[Other(active)] = d.tab BY <1>2, <1>5
<1>9. tables' \in [Roles -> Table] /\ \A r \in Roles : Good(tables'[r]) BY <1>4, <1>5 DEF Good
<1>10. Moving(job'.snap, job'.todo, tables'[active'], tables'[Other(active')]) BY <1>4, <1>6, <1>7, <1>8
<1>. QED BY <1>2, <1>6, <1>7, <1>9, <1>10 DEF HaIInv

\* Every call, import step and failover step keeps the invariant.
LEMMA HaIInvStep == HaIInv /\ [Next]_vars => HaIInv'
<1>. SUFFICES ASSUME HaIInv, [Next]_vars PROVE HaIInv' OBVIOUS
<1>0. active \in Roles /\ Good(tables[active]) BY DEF HaIInv
<1>i. Idle.kind # "failover" BY DEF Idle
<1>1. ASSUME NEW r, Call(r), Good(r.tab) PROVE HaIInv'
  BY <1>i, <1>1, CallKeeps DEF Call
<1>2. ASSUME NEW g \in Ids, NEW spec \in Specs, Create(g, spec) PROVE HaIInv'
  BY <1>0, <1>1, <1>2, CreateGood, VmTableAssumption DEF Create
<1>3. ASSUME NEW g \in Ids, Start(g) \/ Stop(g) \/ Destroy(g) PROVE HaIInv'
  BY <1>0, <1>1, <1>3, MovesGood DEF Start, Stop, Destroy
<1>4. ASSUME NEW to \in Roles, FailoverStart(to) PROVE HaIInv'
  <2>1. job = Idle /\ tables' = tables /\ active' = active BY <1>4 DEF FailoverStart
  <2>2. CASE to = active
    <3>1. job' = job BY <1>4, <2>1, <2>2 DEF FailoverStart
    <3>. QED BY <2>1, <3>1 DEF HaIInv
  <2>3. CASE to # active
    <3>. DEFINE src == tables[active]  dst == tables[Other(active)]
    <3>1. job' = Failover(src.slots, Active(src)) BY <1>4, <2>3 DEF FailoverStart
    <3>2. job'.kind = "failover" /\ job'.snap = src.slots /\ job'.todo = Active(src) BY <3>1 DEF Failover
    <3>3. Active(dst) = {} BY <1>i, <2>1 DEF HaIInv
    <3>4. Active(Snap(src.slots)) = Active(src) BY DEF Active, Snap
    <3>5. Snap(src.slots) \in Table BY <1>0 DEF Good, Table, Snap
    <3>6. Good(Snap(src.slots)) BY <1>0, <3>4, <3>5 DEF Good, UniqueIds, Snap
    <3>7. Moving(src.slots, Active(src), src, dst) BY <3>3, <3>4, <3>6 DEF Moving
    <3>. HIDE DEF src, dst
    <3>8. Moving(job'.snap, job'.todo, tables'[active'], tables'[Other(active')])
      BY <2>1, <3>2, <3>7 DEF src, dst
    <3>. QED BY <2>1, <3>2, <3>8 DEF HaIInv
  <2>. QED BY <2>2, <2>3
<1>5. CASE FailoverStep BY <1>5, FailoverStepDoes
<1>6. CASE FailoverDone
  <2>1. /\ job.kind = "failover" /\ job.todo = {} /\ active' = Other(active) /\ job' = Idle
        /\ tables' = tables
    BY <1>6 DEF FailoverDone
  <2>2. active' \in Roles /\ Other(active') = active BY <1>0, <2>1 DEF Roles, Other
  <2>3. Active(tables[active]) = {} BY <2>1 DEF HaIInv, Moving
  <2>. QED BY <1>i, <2>1, <2>2, <2>3 DEF HaIInv
<1>7. ASSUME NEW batch \in Batches, ImportStart(batch) PROVE HaIInv'
  <2>1. job = Idle /\ tables' = tables /\ active' = active /\ (job' = Idle \/ job' = Import(batch, 0))
    BY <1>7 DEF ImportStart
  <2>2. CASE job' = Idle BY <2>1, <2>2 DEF HaIInv
  <2>3. CASE job' = Import(batch, 0)
    <3>1. job'.kind = "import" /\ job'.batch = batch /\ job'.done = 0 BY <2>3 DEF Import
    <3>2. Len(batch) \in Nat BY HaAssumption
    <3>3. job'.batch \in Batches /\ job'.done \in 0 .. Len(job'.batch) BY <3>1, <3>2
    <3>. QED BY <1>i, <2>1, <3>1, <3>3 DEF HaIInv
  <2>. QED BY <2>1, <2>2, <2>3
<1>8. CASE ImportStep
  <2>. DEFINE r == CreateWithSpec(tables[active], job.batch[job.done + 1], Defaults)
  <2>1. /\ job.kind = "import" /\ job.done < Len(job.batch) /\ active' = active
        /\ tables' = [tables EXCEPT ![active] = r.tab]
        /\ job' = IF r.err = "Ok" THEN Import(job.batch, job.done + 1) ELSE Idle
    BY <1>8 DEF ImportStep
  <2>2. job.batch \in Batches /\ job.done \in 0 .. Len(job.batch) BY <2>1 DEF HaIInv, Idle
  <2>3. job.batch \in Seq(Ids) BY <2>2, HaAssumption
  <2>4. job.done + 1 \in 0 .. Len(job.batch) /\ job.batch[job.done + 1] \in Ids BY <2>1, <2>2, <2>3
  <2>5. Defaults \in VmSpec BY DEF Defaults, VmSpec
  <2>6. Good(r.tab) BY <1>0, <2>4, <2>5, CreateGood
  <2>. HIDE DEF r
  <2>7. \/ job' = Idle
        \/ job'.kind = "import" /\ job'.batch \in Batches /\ job'.done \in 0 .. Len(job'.batch)
    BY <2>1, <2>2, <2>4 DEF Import
  <2>. QED BY <1>i, <2>1, <2>6, <2>7, CallKeeps
<1>9. CASE ImportDone
  <2>1. job.kind = "import" /\ tables' = tables /\ active' = active /\ job' = Idle
    BY <1>9 DEF ImportDone
  <2>. QED BY <1>i, <2>1 DEF HaIInv
<1>10. CASE UNCHANGED vars BY <1>10 DEF vars, HaIInv
<1>. QED BY <1>2, <1>3, <1>4, <1>5, <1>6, <1>7, <1>8, <1>9, <1>10 DEF Next

\* The invariant says no guest is lost or duplicated.
LEMMA HaIInvConserves == HaIInv => GuestsConserved
<1>. SUFFICES ASSUME HaIInv PROVE GuestsConserved OBVIOUS
<1>. DEFINE src == tables[active]
            dst == tables[Other(active)]
            A == Active(Snap(job.snap))
<1>1. active \in Roles /\ Other(active) \in Roles /\ Good(src) /\ Good(dst)
  BY DEF HaIInv, Roles, Other
<1>2. ActiveIds(tables["Primary"]) \cap ActiveIds(tables["Standby"]) = ActiveIds(src) \cap ActiveIds(dst)
  BY <1>1 DEF Roles, Other
<1>3. CASE job.kind # "failover"
  <2>1. Active(dst) = {} BY <1>3 DEF HaIInv
  <2>2. ActiveIds(dst) = {} BY <2>1 DEF ActiveIds
  <2>. QED BY <1>2, <1>3, <2>1, <2>2 DEF GuestsConserved, OneHome
<1>4. CASE job.kind = "failover"
  <2>1. Moving(job.snap, job.todo, src, dst) BY <1>4 DEF HaIInv
  <2>2. A = Active([slots |-> job.snap]) BY DEF Active, Snap
  <2>. HIDE DEF src, dst, A
  <2>3. ActiveIds(src) = SnapIds(job.todo) BY <2>1 DEF Moving, ActiveIds, SnapIds
  <2>4. ActiveIds(dst) = SnapIds(A \ job.todo)
    <3>1. \A j \in Active(dst) : \E i \in A \ job.todo : dst.slots[j].id = job.snap[i].id
      BY <2>1 DEF Moving, A
    <3>2. \A i \in A \ job.todo : \E j \in Active(dst) : dst.slots[j].id = job.snap[i].id
      BY <2>1 DEF Moving, A
    <3>. QED BY <3>1, <3>2 DEF ActiveIds, SnapIds
  <2>5. ASSUME NEW i \in job.todo PROVE StateOf(src, job.snap[i].id) = job.snap[i].state
    <3>1. i \in Active(src) /\ src.slots[i] = job.snap[i] BY <2>1 DEF Moving
    <3>2. Find(src, job.snap[i].id) = i BY <1>1, <3>1, FindIs DEF Good
    <3>. QED BY <3>1, <3>2 DEF StateOf
  <2>6. ASSUME NEW i \in A \ job.todo
        PROVE  StateOf(dst, job.snap[i].id) = IF job.snap[i].state = "Stopped" THEN "Stopped" ELSE "Running"
    <3>1. PICK j \in Active(dst) : dst.slots[j].id = job.snap[i].id /\ dst.slots[j].state = After(job.snap[i].state)
      BY <2>1 DEF Moving, A
    <3>2. Find(dst, job.snap[i].id) = j BY <1>1, <3>1, FindIs DEF Good
    <3>. QED BY <3>1, <3>2 DEF StateOf, After
  <2>7. ActiveIds(src) \cap ActiveIds(dst) = {}
    <3>1. \A m, n \in A : job.snap[m].id = job.snap[n].id => m = n
      BY <2>1 DEF Moving, Good, UniqueIds, Snap, A
    <3>2. job.todo \subseteq A BY <2>1 DEF Moving, A
    <3>. QED BY <2>3, <2>4, <3>1, <3>2 DEF SnapIds
  <2>8. OneHome BY <1>2, <1>4, <2>7 DEF OneHome
  <2>. QED BY <2>2, <2>3, <2>4, <2>5, <2>6, <2>8 DEF GuestsConserved, src, dst
<1>. QED BY <1>3, <1>4

(* No guest is lost or duplicated, whatever the capacity and whatever        *)
(* failovers, imports and table calls ran: outside a failover only the       *)
(* active table holds guests, and between two iterations of                  *)
(* HaPair::failover each guest of the snapshot is on exactly one side, in    *)
(* its old state or, moved, in the state it restarts in.                     *)
THEOREM GuestsAreConserved == Spec => []GuestsConserved
BY HaIInvInit, HaIInvStep, HaIInvConserves, PTL DEF Spec

(* A failover that has begun ends with the role moved: the error returns     *)
(* inside HaPair::failover's loop are never taken, because the destination   *)
(* always has a slot for the next guest and does not hold it yet.            *)
THEOREM FailoverAlwaysCompletes == Spec => FailoverCompletes
<1>1. HaIInv /\ [Next]_vars => [job.kind = "failover" /\ job'.kind = "idle" => active' # active]_vars
  <2>. SUFFICES ASSUME HaIInv, Next, job.kind = "failover", job'.kind = "idle" PROVE active' # active
    OBVIOUS
  <2>1. CASE FailoverStep BY <2>1, FailoverStepDoes
  <2>2. CASE FailoverDone BY <2>2 DEF FailoverDone, HaIInv, Roles, Other
  <2>. QED BY <2>1, <2>2 DEF Next, Create, Start, Stop, Destroy, Call, FailoverStart, ImportStart,
                             ImportStep, ImportDone, Idle
<1>. QED BY <1>1, HaIInvInit, HaIInvStep, PTL DEF Spec, FailoverCompletes
=============================================================================
