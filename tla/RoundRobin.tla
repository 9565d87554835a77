----------------------------- MODULE RoundRobin -----------------------------
(***************************************************************************)
(* What kernel/process promises about user processes, with everything that *)
(* is about the CPU left out: a slot of the process table is idle, ready   *)
(* or running; one process runs at a time; whoever is dispatched is the    *)
(* first ready slot after the one dispatched before it, going round the    *)
(* table; and a process that stops running either waits again or is gone.  *)
(*                                                                         *)
(* UserMode.tla is shown to implement this specification.                  *)
(***************************************************************************)
EXTENDS Integers

CONSTANT Capacity            \* process::kProcessCapacity

Slots == 0 .. Capacity - 1

VARIABLES
    status,    \* [Slots -> {"idle", "ready", "running"}]
    last,      \* the slot dispatched last, -1 before the first dispatch
    served     \* served[s]: the slots dispatched while s has been waiting

vars == <<status, last, served>>

\* How many slots further round the table b is than a, from 1 to Capacity.
Distance(a, b) == IF b > a THEN b - a ELSE b - a + Capacity

Waiting == {s \in Slots : status[s] = "ready"}

TypeOK ==
    /\ status \in [Slots -> {"idle", "ready", "running"}]
    /\ last \in Slots \cup {-1}
    /\ served \in [Slots -> SUBSET Slots]

Init ==
    /\ status = [s \in Slots |-> "idle"]
    /\ last = -1
    /\ served = [s \in Slots |-> {}]

\* A loaded image joins the table.
Admit(s) ==
    /\ status[s] = "idle"
    /\ status' = [status EXCEPT ![s] = "ready"]
    /\ served' = [served EXCEPT ![s] = {}]
    /\ UNCHANGED last

\* A failed start-up empties the table before anything has run.
Abandon ==
    /\ last = -1
    /\ status' = [s \in Slots |-> "idle"]
    /\ UNCHANGED <<last, served>>

FirstInLine(s) ==
    /\ s \in Waiting
    /\ \A t \in Waiting : Distance(last, s) <= Distance(last, t)

Dispatch(s) ==
    /\ \A t \in Slots : status[t] # "running"
    /\ FirstInLine(s)
    /\ status' = [status EXCEPT ![s] = "running"]
    /\ last' = s
    /\ served' = [t \in Slots |->
                    IF t \in Waiting THEN served[t] \cup {s} ELSE served[t]]

\* Yield or preemption: the process waits for its next turn.
Pause(s) ==
    /\ status[s] = "running"
    /\ status' = [status EXCEPT ![s] = "ready"]
    /\ served' = [served EXCEPT ![s] = {}]
    /\ UNCHANGED last

\* Exit or fault: the process never runs again.
Finish(s) ==
    /\ status[s] = "running"
    /\ status' = [status EXCEPT ![s] = "idle"]
    /\ UNCHANGED <<last, served>>

Next ==
    \/ \E s \in Slots : Admit(s) \/ Dispatch(s) \/ Pause(s) \/ Finish(s)
    \/ Abandon

Spec == Init /\ [][Next]_vars

-----------------------------------------------------------------------------
\* At most one process has been given the processor.
OneAtATime ==
    \A s, t \in Slots : status[s] = "running" /\ status[t] = "running" => s = t

\* While a process waits, no other process is dispatched twice: the slots
\* already served during its wait are all behind it in the circle.
BehindWaiting ==
    \A s \in Waiting : \A t \in served[s] :
        Distance(last, s) < Distance(last, t)

\* The promise of the circular scan in choose_next: nobody is dispatched a
\* second time while some process is still waiting for its first turn since.
NoOvertaking ==
    [][\A s, t \in Slots :
          status[s] = "ready" /\ status'[t] = "running" /\ status[t] = "ready"
              => t \notin served[s]]_vars
=============================================================================
