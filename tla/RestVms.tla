------------------------------- MODULE RestVms -------------------------------
(***************************************************************************)
(* The REST control plane over one guest table (mgmt/api.rs) and the       *)
(* mailbox through which an accepted start or stop reaches the coexist     *)
(* scheduler (mgmt/spa_launch.rs).  Handlers and scheduler ticks run on    *)
(* the BSP, one after the other; what is hard is that any number of        *)
(* requests may be accepted between two ticks.                             *)
(***************************************************************************)
EXTENDS VmTable

CONSTANT RestSpecs  \* the specifications REST requests ask for

ASSUME RestAssumption == RestSpecs \subseteq VmSpec /\ 0 \in Ids

VARIABLES tab,      \* the table behind the API
          pending,  \* PENDING_START and PENDING_KIND
          stop,     \* PENDING_STOP
          latch,    \* raynu_f_flag's REQUESTED and SPA_STARTED
          taken,    \* guests whose latest accepted start the scheduler has taken
          restErr   \* outcome of the last call

restVars == <<tab, pending, stop, latch, taken, restErr>>

Kinds == {"Shell", "RayNuF"}

\* PENDING_START is None; PENDING_KIND is left at Shell by the take.
Nothing == [id |-> 0, kind |-> "Shell"]

\* kind_for_record: a product ISO boots through RayNu-F.
KindForRecord(spec) ==
    IF spec.image \notin {"None", "LinuxBzImage"} /\ spec.iso # 0 THEN "RayNuF" ELSE "Shell"

\* note_spa_start_kind
NoteSpaStart(g, kind) == [id |-> g, kind |-> kind]

RestTypeOK ==
    /\ tab \in Table
    /\ pending \in [id : Ids, kind : Kinds]
    /\ stop \in BOOLEAN
    /\ latch \in BOOLEAN
    /\ taken \subseteq Ids
    /\ restErr \in {"Ok", "InvalidGuest", "Full", "NotFound", "BadState"}

RestInit ==
    /\ tab = NewTable
    /\ pending = Nothing
    /\ stop = FALSE
    /\ latch = FALSE
    /\ taken = {}
    /\ restErr = "Ok"

RestCreate(g, spec) ==
    /\ \E r \in {CreateWithSpec(tab, g, spec)} : tab' = r.tab /\ restErr' = r.err
    /\ UNCHANGED <<pending, stop, latch, taken>>

\* POST /vms/{id}/start: the table, then the mailbox, then the RayNu-F latch.
RestStart(g) ==
    /\ \E r \in {StartVm(tab, g)} :
         /\ tab' = r.tab /\ restErr' = r.err
         /\ IF r.err # "Ok" THEN UNCHANGED <<pending, latch, taken>>
            ELSE \E kind \in {KindForRecord(r.tab.slots[Find(r.tab, g)].spec)} :
                   /\ pending' = NoteSpaStart(g, kind)
                   /\ latch' = (latch \/ kind = "RayNuF")
                   /\ taken' = taken \ {g}
    /\ UNCHANGED stop

RestStop(g) ==
    /\ \E r \in {StopVm(tab, g)} :
         tab' = r.tab /\ restErr' = r.err /\ stop' = (stop \/ r.err = "Ok")
    /\ UNCHANGED <<pending, latch, taken>>

RestDestroy(g) ==
    /\ \E r \in {DestroyVm(tab, g)} : tab' = r.tab /\ restErr' = r.err
    /\ UNCHANGED <<pending, stop, latch, taken>>

\* try_spa_vmlaunch in the coexist phase: the stop, then the start.
Tick ==
    /\ stop' = FALSE
    /\ pending' = Nothing
    /\ taken' = taken \cup ({pending.id} \ {0})
    /\ UNCHANGED <<tab, latch, restErr>>

RestNext ==
    \/ \E g \in Ids, spec \in RestSpecs : RestCreate(g, spec)
    \/ \E g \in Ids : RestStart(g)
    \/ \E g \in Ids : RestStop(g)
    \/ \E g \in Ids : RestDestroy(g)
    \/ Tick

RestSpec == RestInit /\ [][RestNext]_restVars

-----------------------------------------------------------------------------
\* The redundant count, the uniqueness of ids and the layout of the slots survive
\* any sequence of calls, refused ones included (VmTable::len, get, create_with_spec).
TableSound == CountsActive(tab) /\ UniqueIds(tab) /\ FreeSuffix(tab)

\* mgmt/api.rs says of an accepted start "Queue only. VMLAUNCH runs on the next
\* coexist scheduler quantum": a Running guest's start is queued or was taken.
AcceptedStartIsServed ==
    \A i \in Active(tab) :
        tab.slots[i].state = "Running" => tab.slots[i].id \in taken \cup {pending.id}
=============================================================================
