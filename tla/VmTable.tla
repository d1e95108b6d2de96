------------------------------- MODULE VmTable -------------------------------
(***************************************************************************)
(* The management plane's guest table (mgmt/mod.rs).  A table is a record  *)
(* of Cap slots, each empty or holding a record that may be Destroyed, and *)
(* the redundant count of the guests that are not.  Every operation gives  *)
(* the resulting table and "Ok" or a LifecycleError.  RestVms and HaPair   *)
(* use these operators.                                                    *)
(***************************************************************************)
EXTENDS Integers, FiniteSets

CONSTANTS Cap,      \* MGMT_GUEST_CAP
          Ids,      \* guest ids, 0 among them
          Specs     \* the specifications callers ask for, a subset of VmSpec

\* validate looks at three things: whether the sizes are in range ("bad" when cpu,
\* ram or disk is not), whether an ISO is attached, and of which type.
VmSpec == [size : {"default", "custom", "bad"}, iso : {0, 1},
           image : {"None", "LinuxIso", "LinuxBzImage"}]

Defaults == [size |-> "default", iso |-> 0, image |-> "None"]

ASSUME VmTableAssumption ==
    /\ Cap \in Nat \ {0}
    /\ Ids \subseteq Nat
    /\ Specs \subseteq VmSpec

Slot == 1 .. Cap

Lifecycle == {"Defined", "Running", "Stopped", "Destroyed"}

VmRecord == [id : Ids, state : Lifecycle, spec : VmSpec]

NoRecord == [id |-> -1, state |-> "None", spec |-> Defaults]

Table == [slots : [Slot -> VmRecord \cup {NoRecord}], len : Nat]

NewTable == [slots |-> [i \in Slot |-> NoRecord], len |-> 0]

\* Slots that hold a guest, and what is known of the others.
Active(t) == {i \in Slot : t.slots[i].state \in {"Defined", "Running", "Stopped"}}
Tombstones(t) == {i \in Slot : t.slots[i].state = "Destroyed"}
FreeSlots(t) == {i \in Slot : t.slots[i] = NoRecord}

ActiveIds(t) == {t.slots[i].id : i \in Active(t)}

IsLeast(i, S) == i \in S /\ \A j \in S : i <= j

\* get, get_mut: the first slot that holds the guest.
Find(t, g) == CHOOSE i \in Slot : IsLeast(i, {j \in Active(t) : t.slots[j].id = g})
Has(t, g) == g \in ActiveIds(t)
StateOf(t, g) == t.slots[Find(t, g)].state

Result(err, t) == [err |-> err, tab |-> t]

-----------------------------------------------------------------------------
WithProductIsoDefault(s) ==
    IF s.iso # 0 /\ s.image = "None" THEN [s EXCEPT !.image = "LinuxIso"] ELSE s

Valid(s) ==
    /\ s.size # "bad"
    /\ s.iso = 0 => s.image = "None"
    /\ s.iso # 0 => s.image # "LinuxBzImage"

\* The slots create_with_spec may use; it takes the first.
Reusable(t) == FreeSlots(t) \cup Tombstones(t)

\* Mutant: the guest is not looked up before it is added.
CreateUnchecked(t, g, spec) ==
    LET s == WithProductIsoDefault(spec)
        i == CHOOSE i \in Slot : IsLeast(i, Reusable(t))
    IN  IF g = 0 \/ ~Valid(s) THEN Result("InvalidGuest", t)
        ELSE IF Reusable(t) = {} THEN Result("Full", t)
        ELSE Result("Ok", [slots |-> [t.slots EXCEPT
                                      ![i] = [id |-> g, state |-> "Defined", spec |-> s]],
                           len |-> t.len + 1])

\* create_with_spec; create is this with the default specification.
CreateWithSpec(t, g, spec) ==
    LET s == WithProductIsoDefault(spec)
        i == CHOOSE i \in Slot : IsLeast(i, Reusable(t))
    IN  IF g = 0 \/ ~Valid(s) THEN Result("InvalidGuest", t)
        ELSE IF Has(t, g) THEN Result("BadState", t)
        ELSE IF Reusable(t) = {} THEN Result("Full", t)
        ELSE Result("Ok", [slots |-> [t.slots EXCEPT
                                      ![i] = [id |-> g, state |-> "Defined", spec |-> s]],
                           len |-> t.len + 1])

\* The shape start, stop and destroy share: a guest in one of the states from
\* moves to the state to.
Move(t, g, from, to, len) ==
    IF ~Has(t, g) THEN Result("NotFound", t)
    ELSE IF StateOf(t, g) \notin from THEN Result("BadState", t)
    ELSE Result("Ok", [slots |-> [t.slots EXCEPT ![Find(t, g)].state = to], len |-> len])

StartVm(t, g) == Move(t, g, {"Defined", "Stopped"}, "Running", t.len)

StopVm(t, g) == Move(t, g, {"Running"}, "Stopped", t.len)

DestroyVm(t, g) ==
    Move(t, g, {"Defined", "Stopped"}, "Destroyed", IF t.len = 0 THEN 0 ELSE t.len - 1)

-----------------------------------------------------------------------------
\* What a sound table satisfies.  len() is what the code answers without looking.
CountsActive(t) == t.len = Cardinality(Active(t))

\* A lookup by id is unambiguous.
UniqueIds(t) == \A i, j \in Active(t) : t.slots[i].id = t.slots[j].id => i = j

\* Slots never used come after all that were: the first slot create finds is a
\* destroyed guest's whenever there is one, as the comment at its loop says.
FreeSuffix(t) == \A i \in FreeSlots(t), j \in Slot \ FreeSlots(t) : j < i
=============================================================================
