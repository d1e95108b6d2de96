--------------------------- MODULE CreditScheduler ---------------------------
(***************************************************************************)
(* The credit scheduler of sched/scheduler.rs as operators on its value: a *)
(* sequence of credits, vCPU id i at index i + 1, as long as the number of *)
(* registered vCPUs.  The capacity of the array is MaxVcpus.               *)
(***************************************************************************)
EXTENDS Integers, Sequences, FiniteSetsExt

DEFAULT_CREDIT == 10

MaxVcpus == 8

\* No vCPU to prefer against (prefer_not = None), and no runnable one.
NoVcpu == -1

Vcpus(credits) == 0 .. Len(credits) - 1

Credit(credits, id) == credits[id + 1]

\* register_vcpu: the next free id, refused when the array is full.
RegisterVcpu(credits, initial) ==
    IF Len(credits) >= MaxVcpus THEN credits ELSE Append(credits, initial)

Runnable(credits) == {i \in Vcpus(credits) : Credit(credits, i) > 0}

\* The runnable vCPUs no other one has more credit than.
Richest(credits) ==
    {i \in Runnable(credits) :
        \A j \in Runnable(credits) : Credit(credits, j) <= Credit(credits, i)}

\* pick_next_fair: the highest positive credit; on a tie the lowest id, unless
\* that one is prefer_not and there is another.
PickNextFair(credits, preferNot) ==
    LET top == Richest(credits) IN
    IF top = {} THEN NoVcpu
    ELSE IF Min(top) = preferNot /\ top # {preferNot}
         THEN Min(top \ {preferNot})
         ELSE Min(top)

\* A bug: the credit of the vCPU that ran is kept.
ConsumeNothing(credits, id) == credits

\* consume_quantum: zero the vCPU that ran; when that leaves nobody with
\* credit, replenish everybody.
ConsumeQuantum(credits, id) ==
    LET spent == IF id \in Vcpus(credits)
                 THEN [credits EXCEPT ![id + 1] = 0] ELSE credits
    IN  IF \A i \in DOMAIN spent : spent[i] <= 0 THEN [i \in DOMAIN spent |-> DEFAULT_CREDIT] ELSE spent
=============================================================================
