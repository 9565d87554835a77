------------------------------ MODULE UserMode ------------------------------
(***************************************************************************)
(* The user processes of the kernel and the one CPU that runs them:        *)
(* kernel/process (process table, scheduler, context switch),              *)
(* kernel/syscall (int 0x80 and SYSCALL paths) and the vectors of          *)
(* kernel/arch/interrupts.cpp that concern a user process.                 *)
(*                                                                         *)
(* A control point of the kernel is a value of mode:                       *)
(*   "boot"      kernel_main, before interrupts are enabled                *)
(*   "loop"      the desktop loop, outside scheduler::run_once             *)
(*   "selected"  in run_once, a process chosen, interrupts still enabled   *)
(*   "user"      at CPL 3                                                  *)
(*   "entry"     in syscall_bridge, entered by SYSCALL                     *)
(*   "back"      in run_once again, after return_to_host                   *)
(*   "panic"     panic::halt, panic::exception or the halt of a stub       *)
(* Interrupt gates and FMASK clear IF, so int80_bridge, interrupt_dispatch *)
(* and syscall_bridge run without interruption.                            *)
(*                                                                         *)
(* A page table, or a kernel stack, is named by the pid it belongs to; 0   *)
(* is the host's (page table) or none (stack).  The register file of a     *)
(* process keeps what the properties tell apart.                           *)
(***************************************************************************)
EXTENDS Integers

CONSTANTS
    Capacity,             \* process::kProcessCapacity
    Images,               \* how many images kernel_main starts
    kUserQuantumTicks,    \* timer ticks in a quantum
    Steps                 \* a process' progress is counted modulo Steps

ASSUME CapacityAssumption == Capacity \in Nat \ {0}
ASSUME ImagesAssumption == Images \in Nat \ {0}
ASSUME QuantumAssumption == kUserQuantumTicks \in Nat \ {0}
ASSUME StepsAssumption == Steps \in Nat \ {0}

Slots == 0 .. Capacity - 1
NoSlot == -1
NoPid == 0

VARIABLES
    table,          \* g_processes
    next_pid,       \* g_next_pid
    loaded,         \* start-up images loaded so far
    mode,           \* where the CPU is
    selected,       \* the slot run_once works on
    previous_slot,  \* g_previous_slot
    quantum,        \* g_user_quantum_ticks_remaining
    cr3,            \* whose page table is active
    rsp0,           \* whose kernel stack the TSS names
    current,        \* g_cpu_local_state.current_process
    stack_top,      \* g_cpu_local_state.kernel_stack_top
    gs,             \* which GS base is active: "user" or "kernel"
    regs,           \* the user's registers, at CPL 3 or in syscall_bridge
    left,           \* history: the registers each process last had
    served          \* history: the slots dispatched while a slot waits

cpu == <<mode, selected, cr3, rsp0, current, stack_top, gs, regs>>
vars == <<table, next_pid, loaded, previous_slot, quantum, cpu, left, served>>

\* owner and step identify the general registers; scratch says whether rcx
\* and r11 still hold the process' own values; target says on which side of
\* the limit in valid_sysret_target rip and rsp are.
Registers == [owner : 0 .. Images, step : 0 .. Steps - 1,
              scratch : {"own", "lost"}, target : {"below", "beyond"}]
RegisterFile(owner, step, scratch, target) ==
    [owner |-> owner, step |-> step, scratch |-> scratch, target |-> target]
\* The registers with which a process starts; NoPid owns the host's.
Fresh(pid) == RegisterFile(pid, 0, "own", "below")

\* process::Process: page_table_physical and kernel_stack_top go with the pid.
Process(pid, state, saved, return_kind) ==
    [pid |-> pid, state |-> state, saved |-> saved, return_kind |-> return_kind]
Empty == Process(NoPid, "Unused", Fresh(NoPid), "Iret")

TypeOK ==
    /\ table \in [Slots -> [pid : 0 .. Images,
                            state : {"Unused", "Ready", "Running", "Exited"},
                            saved : Registers,
                            return_kind : {"Iret", "Sysret"}]]
    /\ next_pid \in 1 .. Images + 1
    /\ loaded \in 0 .. Images
    /\ mode \in {"boot", "loop", "selected", "user", "entry", "back", "panic"}
    /\ selected \in Slots \cup {NoSlot}
    /\ previous_slot \in Slots \cup {NoSlot}
    /\ quantum \in 0 .. kUserQuantumTicks
    /\ cr3 \in 0 .. Images
    /\ rsp0 \in 0 .. Images
    /\ current \in Slots \cup {NoSlot}
    /\ stack_top \in 0 .. Images
    /\ gs \in {"user", "kernel"}
    /\ regs \in Registers
    /\ left \in [Slots -> Registers]
    /\ served \in [Slots -> SUBSET Slots]

Init ==
    /\ table = [s \in Slots |-> Empty]
    /\ next_pid = 1
    /\ loaded = 0
    /\ mode = "boot"
    /\ selected = NoSlot
    /\ previous_slot = NoSlot
    /\ quantum = 0
    /\ cr3 = NoPid
    /\ rsp0 = NoPid
    /\ current = NoSlot
    /\ stack_top = NoPid
    /\ gs = "user"
    /\ regs = Fresh(NoPid)
    /\ left = [s \in Slots |-> Fresh(NoPid)]
    /\ served = [s \in Slots |-> {}]

-----------------------------------------------------------------------------
(* The process table.                                                      *)

HasState(s, state) == table[s].state = state
Ready == {s \in Slots : HasState(s, "Ready")}

FirstUnused(s) ==
    /\ HasState(s, "Unused")
    /\ \A t \in Slots : HasState(t, "Unused") => s <= t

\* Mutant: the TSS keeps a stack whose pages are about to be freed.
reap_exited_keeps_rsp0(t) ==
    /\ table' = [s \in Slots |-> IF t[s].state = "Exited" THEN Empty ELSE t[s]]
    /\ current' = NoSlot
    /\ stack_top' = NoPid
    /\ UNCHANGED rsp0

\* reap_exited on table t: every exited slot is released, after the CPU's
\* pointers to kernel stacks have been cleared.
reap_exited(t) ==
    /\ table' = [s \in Slots |-> IF t[s].state = "Exited" THEN Empty ELSE t[s]]
    /\ current' = NoSlot
    /\ stack_top' = NoPid
    /\ rsp0' = NoPid

in_state(p, state) == Process(p.pid, state, p.saved, p.return_kind)
with_state(s, state) == [table EXCEPT ![s] = in_state(@, state)]

\* capture_context / capture_interrupt_context, and the state that follows.
capture(s, kind, state) ==
    [table EXCEPT ![s] = Process(@.pid, state, regs, kind)]

\* A slot that starts waiting has seen nobody dispatched.
StartWaiting(s) == served' = [served EXCEPT ![s] = {}]

-----------------------------------------------------------------------------
(* kernel_main: load the start-up images, or give all of them up.          *)

\* process::allocate and a successful user::load_process_image.
LoadImage ==
    /\ mode = "boot"
    /\ \E s \in Slots :
        /\ FirstUnused(s)
        /\ table' = [table EXCEPT
                       ![s] = Process(next_pid, "Ready", Fresh(next_pid), "Iret")]
        /\ left' = [left EXCEPT ![s] = Fresh(next_pid)]
        /\ StartWaiting(s)
    /\ next_pid' = next_pid + 1
    /\ loaded' = loaded + 1
    /\ mode' = IF loaded' = Images THEN "loop" ELSE "boot"
    /\ UNCHANGED <<selected, previous_slot, quantum, cr3, rsp0, current,
                   stack_top, gs, regs>>

\* No slot, or load_process_image fails and releases its slot: kernel_main
\* runs discard_startup_processes and goes on without user processes.
StartupFails ==
    /\ mode = "boot"
    /\ next_pid' = IF \E s \in Slots : HasState(s, "Unused")
                     THEN next_pid + 1 ELSE next_pid
    /\ reap_exited([s \in Slots |->
                      IF HasState(s, "Unused") THEN table[s]
                                               ELSE in_state(table[s], "Exited")])
    /\ mode' = "loop"
    /\ UNCHANGED <<loaded, selected, previous_slot, quantum, cr3, gs, regs,
                   left, served>>

-----------------------------------------------------------------------------
(* scheduler::run_once, called from the desktop loop.                      *)

\* How far round the table choose_next has to scan from a to reach b.
Distance(a, b) == IF b > a THEN b - a ELSE b - a + Capacity

\* Mutant: the scan always starts with slot 0.
choose_lowest(s) == s \in Ready /\ \A t \in Ready : s <= t

choose_next(s) ==
    /\ s \in Ready
    /\ \A t \in Ready : Distance(previous_slot, s) <= Distance(previous_slot, t)

valid_sysret_context(r) == r.target = "below"

resumable(p) == p.return_kind = "Sysret" => valid_sysret_context(p.saved)

\* From the choice to the last instruction before cli.
RunOnce(s) ==
    /\ mode = "loop"
    /\ choose_next(s)
    /\ previous_slot' = s
    /\ IF resumable(table[s])
       THEN /\ table' = with_state(s, "Running")
            /\ quantum' = kUserQuantumTicks
            /\ selected' = s
            /\ mode' = "selected"
            /\ served' = [t \in Slots |-> IF t \in Ready THEN served[t] \cup {s}
                                                       ELSE served[t]]
            /\ UNCHANGED <<rsp0, current, stack_top>>
       ELSE /\ reap_exited(with_state(s, "Exited"))
            /\ UNCHANGED <<quantum, selected, mode, served>>
    /\ UNCHANGED <<next_pid, loaded, cr3, gs, regs, left>>

\* process_resume_user: sysret loses rcx and r11, iretq loses nothing.
lose_scratch(r) == RegisterFile(r.owner, r.step, "lost", r.target)
\* Mutant: every process is resumed with sysret.
resume_by_sysret(p) == lose_scratch(p.saved)
resume(p) == IF p.return_kind = "Sysret" THEN lose_scratch(p.saved) ELSE p.saved

\* cli, then the page table, the stacks and the registers of the process.
Launch ==
    /\ mode = "selected"
    /\ cr3' = table[selected].pid
    /\ rsp0' = table[selected].pid
    /\ current' = selected
    /\ stack_top' = table[selected].pid
    /\ regs' = resume(table[selected])
    /\ mode' = "user"
    /\ UNCHANGED <<table, next_pid, loaded, selected, previous_slot, quantum,
                   gs, left, served>>

\* Where every way out of a process ends: the host's page table and stack.
\* The TSS keeps the stack of the process until something is reaped.
return_to_host ==
    /\ cr3' = NoPid
    /\ current' = NoSlot
    /\ stack_top' = NoPid
    /\ regs' = Fresh(NoPid)
    /\ mode' = "back"
    /\ UNCHANGED <<next_pid, loaded, selected, previous_slot, rsp0, left>>

\* The rest of run_once, after process_save_host has returned again.
AfterRun ==
    /\ mode = "back"
    /\ mode' = "loop"
    /\ selected' = NoSlot
    /\ IF HasState(selected, "Exited")
       THEN reap_exited(table)
       ELSE UNCHANGED <<table, current, stack_top, rsp0>>
    /\ UNCHANGED <<next_pid, loaded, previous_slot, quantum, cr3, gs, regs,
                   left, served>>

-----------------------------------------------------------------------------
(* A process at CPL 3, and the ways in which the kernel gets control back. *)

halt == /\ mode' = "panic"
        /\ UNCHANGED <<table, next_pid, loaded, selected, previous_slot, quantum,
                       cr3, rsp0, current, stack_top, regs, left, served>>

\* validated_current_process does not return null.
tracked ==
    /\ current # NoSlot
    /\ table[current].pid # NoPid
    /\ HasState(current, "Running")

\* The process computes; rsp may become any value.
UserStep ==
    /\ mode = "user"
    /\ \E target \in {"below", "beyond"} :
         regs' = RegisterFile(regs.owner, (regs.step + 1) % Steps, "own", target)
    /\ left' = [left EXCEPT ![selected] = regs']
    /\ UNCHANGED <<table, next_pid, loaded, mode, selected, previous_slot, quantum,
                   cr3, rsp0, current, stack_top, gs, served>>

\* What syscall::dispatch asks for: Write and unknown numbers return to the
\* process, whatever their result.
Actions == {"ReturnToUser", "YieldToHost", "ExitToHost"}

\* int 0x80: int80_entry and int80_bridge.
Int80(action) ==
    /\ mode = "user"
    /\ UNCHANGED gs
    /\ IF current = NoSlot THEN halt
       ELSE /\ UNCHANGED quantum
            /\ \/ /\ action = "ReturnToUser"
                  /\ UNCHANGED <<table, next_pid, loaded, mode, selected,
                                 previous_slot, cr3, rsp0, current,
                                 stack_top, regs, left, served>>
               \/ /\ action = "YieldToHost"
                  /\ table' = capture(current, "Iret", "Ready")
                  /\ StartWaiting(current)
                  /\ return_to_host
               \/ /\ action = "ExitToHost"
                  /\ table' = capture(current, "Iret", "Exited")
                  /\ UNCHANGED served
                  /\ return_to_host

swapgs == gs' = IF gs = "user" THEN "kernel" ELSE "user"

restore_host_gs_after_syscall == swapgs

\* SYSCALL loads rcx and r11; syscall_entry exchanges the GS bases and takes
\* the stack from the kernel's; through the user's there is no stack.
SyscallEntry ==
    /\ mode = "user"
    /\ swapgs
    /\ regs' = lose_scratch(regs)
    /\ left' = [left EXCEPT ![selected] = regs']
    /\ mode' = IF gs' = "kernel" THEN "entry" ELSE "panic"
    /\ UNCHANGED <<table, next_pid, loaded, selected, previous_slot, quantum,
                   cr3, rsp0, current, stack_top, served>>

\* syscall_bridge, and the way back through syscall_entry.
SyscallBridge(action) ==
    /\ mode = "entry"
    /\ IF current = NoSlot THEN halt /\ UNCHANGED gs
       ELSE /\ UNCHANGED quantum
            /\ LET valid == valid_sysret_context(regs)
               IN \/ /\ action = "ReturnToUser" /\ valid
                     /\ swapgs
                     /\ mode' = "user"
                     /\ UNCHANGED <<table, next_pid, loaded, selected,
                                    previous_slot, cr3, rsp0, current,
                                    stack_top, regs, left, served>>
                  \/ /\ action = "ReturnToUser" /\ ~valid
                     /\ table' = with_state(current, "Exited")
                     /\ UNCHANGED served
                     /\ restore_host_gs_after_syscall
                     /\ return_to_host
                  \/ /\ action = "YieldToHost" /\ valid
                     /\ table' = capture(current, "Sysret", "Ready")
                     /\ StartWaiting(current)
                     /\ restore_host_gs_after_syscall
                     /\ return_to_host
                  \/ /\ action = "ExitToHost" \/ (action = "YieldToHost" /\ ~valid)
                     /\ table' = capture(current, "Sysret", "Exited")
                     /\ UNCHANGED served
                     /\ restore_host_gs_after_syscall
                     /\ return_to_host

\* Mutants: ticks that hit the kernel are charged too, and down past zero; a
\* user's ticks are not charged.
tick_counts_in_kernel(from_user) == quantum # 0
tick_never_counts(from_user) == FALSE

\* on_timer_tick charges a tick only to a process, and only while it has any.
tick_counts(from_user) == from_user /\ quantum # 0

\* Vector 32 of interrupt_dispatch, wherever interrupts are enabled, and
\* handle_user_preempt when the quantum is used up.
TimerIrq ==
    /\ mode \in {"loop", "selected", "user", "back"}
    /\ UNCHANGED gs
    /\ \/ /\ tick_counts(mode = "user") => quantum # 1
          /\ quantum' = IF tick_counts(mode = "user") THEN quantum - 1 ELSE quantum
          /\ UNCHANGED <<table, next_pid, loaded, mode, selected, previous_slot,
                         cr3, rsp0, current, stack_top, regs, left, served>>
       \/ /\ tick_counts(mode = "user") /\ quantum = 1
          /\ IF mode = "user" /\ tracked
             THEN /\ quantum' = 0
                  /\ table' = capture(current, "Iret", "Ready")
                  /\ StartWaiting(current)
                  /\ return_to_host
             ELSE halt

\* A vector below 32 other than 2, 8 and 18, raised at CPL 3.
UserFault ==
    /\ mode = "user"
    /\ UNCHANGED gs
    /\ IF tracked
       THEN /\ table' = capture(current, "Iret", "Exited")
            /\ UNCHANGED <<quantum, served>>
            /\ return_to_host
       ELSE halt

-----------------------------------------------------------------------------
Next ==
    \/ LoadImage \/ StartupFails
    \/ \E s \in Slots : RunOnce(s)
    \/ Launch \/ AfterRun
    \/ UserStep
    \/ \E action \in Actions : Int80(action) \/ SyscallBridge(action)
    \/ SyscallEntry \/ TimerIrq \/ UserFault

Spec == Init /\ [][Next]_vars

\* The desktop loop calls run_once in every iteration and never waits for a
\* process; kernel code between two control points always completes.  The
\* PIC latches a timer interrupt that arrives while IF is clear, so ticks
\* reach a process that is often, if not always, at CPL 3.
Fairness ==
    /\ WF_vars(LoadImage \/ StartupFails)
    /\ WF_vars(\E s \in Slots : RunOnce(s))
    /\ WF_vars(Launch) /\ WF_vars(AfterRun)
    /\ WF_vars(\E action \in Actions : SyscallBridge(action))
    /\ SF_vars(TimerIrq /\ mode = "user")

FairSpec == Spec /\ Fairness

-----------------------------------------------------------------------------
(* Properties.                                                             *)

InProcess == mode \in {"user", "entry"}

\* Exactly the process that run_once selected is Running, from the choice in
\* run_once until a handler leaves it through return_to_host.
RunningIsSelected ==
    \A s \in Slots :
        HasState(s, "Running") <=> mode \in {"selected", "user", "entry"} /\ s = selected

\* While a process executes, or is in syscall_bridge, every register by which
\* the CPU finds its memory and its kernel stacks names that process, and
\* there are ticks left to preempt it; everywhere else the host's page table
\* is active and no process is current.
CpuMatchesProcess ==
    IF InProcess
    THEN /\ current = selected
         /\ table[selected].pid # NoPid
         /\ {cr3, rsp0, stack_top} = {table[selected].pid}
         /\ quantum > 0
    ELSE current = NoSlot /\ cr3 = NoPid /\ stack_top = NoPid

\* No register names the page table or the kernel stack of a process that
\* has been reaped: their pages are free.  TSS.rsp0 is the delicate one, as
\* return_to_host does not clear it.
NoFreedStackOrTable ==
    {cr3, rsp0, stack_top} \subseteq {NoPid} \cup {table[s].pid : s \in Slots}

\* The GS bases are exchanged only inside the SYSCALL path: every way out of
\* syscall_bridge, to the process or to the host, exchanges them back.
GsBalanced == gs = "kernel" <=> mode = "entry"

\* A process finds its registers as it left them, whichever way it left the
\* CPU and whichever way it comes back; only its own SYSCALL costs it rcx
\* and r11.
RegistersPreserved ==
    /\ \A s \in Ready : resume(table[s]) = left[s]
    /\ mode = "selected" => resume(table[selected]) = left[selected]
    /\ InProcess => regs = left[selected] /\ regs.owner = table[selected].pid

\* run_once never meets a SYSRET context it has to refuse: syscall_bridge
\* lets none become Ready.
ReadyIsResumable == \A s \in Ready : resumable(table[s])

\* None of the halts in the stubs, in handle_user_preempt or in
\* interrupt_dispatch is reached.
NoPanic == mode # "panic"

\* A process enters CPL 3 from run_once with its whole quantum: timer
\* interrupts that hit the kernel between reset_user_quantum and cli do not
\* consume it.
WholeQuantum ==
    [][mode = "selected" /\ mode' = "user" => quantum' = kUserQuantumTicks]_vars

\* The CPU and the table of processes agree at every point of the way through
\* run_once, the stubs and the handlers.
CpuConsistent == RunningIsSelected /\ CpuMatchesProcess /\ NoFreedStackOrTable /\ GsBalanced

\* Every process that has been preempted or has yielded is resumed, with its
\* own registers, and no halt is reached on the way.
ProcessesResume == RegistersPreserved /\ ReadyIsResumable /\ NoPanic

\* The refinement mapping: an exited process that waits to be reaped is gone.
Status == [s \in Slots |-> IF HasState(s, "Ready") THEN "ready"
                           ELSE IF HasState(s, "Running") THEN "running"
                           ELSE "idle"]

RR == INSTANCE RoundRobin WITH status <- Status, last <- previous_slot

\* The scheduler implements the abstract round robin.
ImplementsRoundRobin == RR!Spec

\* While a process is ready, choose_next gives no other process two turns.
NoOvertaking == RR!NoOvertaking

\* Once start-up is over, every process that is ready gets the CPU, whatever
\* the others do.
ReadyRuns ==
    \A s \in Slots : mode # "boot" /\ HasState(s, "Ready") ~> HasState(s, "Running")

\* The desktop loop always gets the CPU back, even from a process that makes
\* no system call.
HostReturns == mode = "user" ~> mode = "loop"
=============================================================================
