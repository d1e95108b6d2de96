-------------------------------- MODULE HaPair --------------------------------
(***************************************************************************)
(* The mock HA pair (mgmt/ha.rs) over two guest tables, and the inventory  *)
(* import (migrate/mod.rs) into the active one.  Both are loops over       *)
(* several guests that return at the first error with what they did so far *)
(* in place; an iteration is a step here, and no other call runs between   *)
(* two iterations.  Callers use the active table (docs/runbooks/ha.md).    *)
(***************************************************************************)
EXTENDS VmTable, Sequences

CONSTANTS MinGuests,   \* MIGRATE_MIN_GUESTS
          BatchCap,    \* MIGRATE_BATCH_CAP
          Batches      \* inventories an operator imports: sequences of ids

ASSUME HaAssumption ==
    /\ MinGuests \in Nat /\ BatchCap \in Nat
    /\ Batches \subseteq Seq(Ids)

VARIABLES tables,   \* primary and standby
          active,   \* the role that serves guests
          job,      \* the call in progress
          err       \* outcome of the last call or iteration

vars == <<tables, active, job, err>>

Roles == {"Primary", "Standby"}

Other(r) == IF r = "Primary" THEN "Standby" ELSE "Primary"

\* No loop is running.
Idle == [kind |-> "idle"]

\* failover: the snapshot of the source, and which of its guests are left to move.
Failover(snap, todo) == [kind |-> "failover", snap |-> snap, todo |-> todo]

\* migrate_one_command: the parsed inventory and how many guests were created.
Import(batch, done) == [kind |-> "import", batch |-> batch, done |-> done]

Errors == {"Ok", "InvalidGuest", "Full", "NotFound", "BadState", "WrongRole",
           "EmptyInventory", "TooFewGuests", "TooManyGuests", "BadGuestId"}

\* Runs one table operation after the other while they succeed (the ? operator).
AndThen(r, Op(_)) == IF r.err = "Ok" THEN Op(r.tab) ELSE r

Init ==
    /\ tables = [r \in Roles |-> NewTable]
    /\ active = "Primary"
    /\ job = Idle
    /\ err = "Ok"

\* A call on the active table.
Call(r) ==
    /\ job = Idle
    /\ tables' = [tables EXCEPT ![active] = r.tab]
    /\ err' = r.err
    /\ UNCHANGED <<active, job>>

Create(g, spec) == Call(CreateWithSpec(tables[active], g, spec))
Start(g) == Call(StartVm(tables[active], g))
Stop(g) == Call(StopVm(tables[active], g))
Destroy(g) == Call(DestroyVm(tables[active], g))

-----------------------------------------------------------------------------
\* failover, up to the snapshot (list).
FailoverStart(to) ==
    /\ job = Idle
    /\ IF to = active THEN job' = Idle /\ err' = "WrongRole"
       ELSE /\ job' = Failover(tables[active].slots, Active(tables[active]))
            /\ err' = "Ok"
    /\ UNCHANGED <<tables, active>>

\* Mutant: Running guests are not stopped before they are destroyed.
QuiesceUnstopped(t, rec) == DestroyVm(t, rec.id)

\* The source's half of an iteration.
Quiesce(t, rec) ==
    AndThen(IF rec.state = "Running" THEN StopVm(t, rec.id) ELSE Result("Ok", t),
            LAMBDA u : DestroyVm(u, rec.id))

\* Mutant: a Stopped guest is left as created.
RecreateDefined(t, rec) ==
    AndThen(CreateWithSpec(t, rec.id, Defaults),
            LAMBDA u : IF rec.state = "Stopped" THEN Result("Ok", u) ELSE StartVm(u, rec.id))

\* The destination's half: dest.create, start, and for a Stopped guest stop.
Recreate(t, rec) ==
    AndThen(CreateWithSpec(t, rec.id, Defaults),
            LAMBDA u : IF rec.state = "Stopped"
                       THEN AndThen(StartVm(u, rec.id), LAMBDA v : StopVm(v, rec.id))
                       ELSE StartVm(u, rec.id))

\* One iteration.  An error ends the call with the tables as they are and the
\* role unchanged.
FailoverStep ==
    /\ job.kind = "failover" /\ job.todo # {}
    /\ \E i \in job.todo : IsLeast(i, job.todo) /\
         \E q \in {Quiesce(tables[active], job.snap[i])} :
         \E d \in {IF q.err = "Ok" THEN Recreate(tables[Other(active)], job.snap[i])
                   ELSE Result(q.err, tables[Other(active)])} :
            /\ tables' = [r \in Roles |-> IF r = active THEN q.tab ELSE d.tab]
            /\ err' = d.err
            /\ job' = IF d.err = "Ok" THEN Failover(job.snap, job.todo \ {i}) ELSE Idle
    /\ UNCHANGED active

FailoverDone ==
    /\ job.kind = "failover" /\ job.todo = {}
    /\ active' = Other(active)
    /\ job' = Idle
    /\ UNCHANGED <<tables, err>>

-----------------------------------------------------------------------------
\* parse_inventory on the ids of the inventory's lines, and the count's check.
ParseInventory(batch) ==
    IF \E k \in 1 .. Len(batch) : k <= BatchCap /\ batch[k] = 0 THEN "BadGuestId"
    ELSE IF Len(batch) > BatchCap THEN "TooManyGuests"
    ELSE IF Len(batch) = 0 THEN "EmptyInventory"
    ELSE IF Len(batch) < MinGuests THEN "TooFewGuests"
    ELSE "Ok"

ImportStart(batch) ==
    /\ job = Idle
    /\ err' = ParseInventory(batch)
    /\ job' = IF err' = "Ok" THEN Import(batch, 0) ELSE Idle
    /\ UNCHANGED <<tables, active>>

\* One line of the inventory; MigrateFailed at the first error.
ImportStep ==
    /\ job.kind = "import" /\ job.done < Len(job.batch)
    /\ \E r \in {CreateWithSpec(tables[active], job.batch[job.done + 1], Defaults)} :
         /\ tables' = [tables EXCEPT ![active] = r.tab]
         /\ err' = r.err
         /\ job' = IF r.err = "Ok" THEN Import(job.batch, job.done + 1) ELSE Idle
    /\ UNCHANGED active

\* MigrateCompleted
ImportDone ==
    /\ job.kind = "import" /\ job.done = Len(job.batch)
    /\ job' = Idle
    /\ UNCHANGED <<tables, active, err>>

Next ==
    \/ \E g \in Ids, spec \in Specs : Create(g, spec)
    \/ \E g \in Ids : Start(g)
    \/ \E g \in Ids : Stop(g)
    \/ \E g \in Ids : Destroy(g)
    \/ \E to \in Roles : FailoverStart(to)
    \/ FailoverStep
    \/ FailoverDone
    \/ \E batch \in Batches : ImportStart(batch)
    \/ ImportStep
    \/ ImportDone

Spec == Init /\ [][Next]_vars

-----------------------------------------------------------------------------
SnapIds(S) == {job.snap[i].id : i \in S}

TypeOK ==
    /\ tables \in [Roles -> Table]
    /\ active \in Roles
    /\ err \in Errors
    /\ \/ job = Idle
       \/ /\ job.kind = "failover"
          /\ job.snap \in [Slot -> VmRecord \cup {NoRecord}] /\ job.todo \subseteq Slot
       \/ job.kind = "import" /\ job.batch \in Batches /\ job.done \in 0 .. Len(job.batch)

\* A guest is on one table only, and outside a failover that is the active one:
\* failover leaves nothing behind ("clear primary", ha.rs) and never runs a guest twice.
OneHome ==
    /\ ActiveIds(tables["Primary"]) \cap ActiveIds(tables["Standby"]) = {}
    /\ job.kind # "failover" => Active(tables[Other(active)]) = {}

\* Every guest has one home, and at every iteration of a failover the guests of the
\* snapshot are where they belong: those not yet moved on the source in their old state, the moved ones on the destination,
\* Running or, if they were Stopped, Stopped (ha.rs: "Defined/Running restart as
\* Running").  So no guest is lost on the way.
GuestsConserved ==
    /\ OneHome
    /\ job.kind = "failover" =>
        LET moved == Active([slots |-> job.snap]) \ job.todo
            src == tables[active]
            dst == tables[Other(active)]
        IN  /\ ActiveIds(src) = SnapIds(job.todo)
            /\ ActiveIds(dst) = SnapIds(moved)
            /\ \A i \in job.todo : StateOf(src, job.snap[i].id) = job.snap[i].state
            /\ \A i \in moved : StateOf(dst, job.snap[i].id) =
                                   IF job.snap[i].state = "Stopped" THEN "Stopped" ELSE "Running"

\* A failover that has started ends with the role moved: none of its stop, destroy,
\* create and start calls can fail, so the error returns that would leave a guest
\* destroyed and not recreated are never taken.
FailoverCompletes == [][job.kind = "failover" /\ job'.kind = "idle" => active' # active]_vars
=============================================================================
