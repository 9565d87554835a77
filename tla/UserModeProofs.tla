--------------------------- MODULE UserModeProofs ---------------------------
(* The safety of UserMode for every table size, number of images and       *)
(* quantum, and that it implements RoundRobin.                             *)
EXTENDS UserMode, TLAPS

\* What the safety properties rest on besides themselves.  A slot has a pid
\* exactly while it is in use; the start-up counts its images; only the
\* process that run_once is about to reap is Exited; run_once knows its slot
\* from the choice to the reaping; SYSCALL has overwritten rcx and r11.
Bookkeeping ==
    /\ \A s \in Slots : IF HasState(s, "Unused") THEN table[s] = Empty
                                               ELSE table[s].pid # NoPid
    /\ mode = "boot" =>
         /\ loaded < Images /\ next_pid = loaded + 1
         /\ previous_slot = NoSlot
    /\ \A s \in Slots : HasState(s, "Exited") => mode = "back" /\ s = selected
    /\ mode \in {"selected", "user", "entry", "back"} => selected \in Slots
    /\ \A s \in Slots : ~HasState(s, "Unused") => table[s].saved.owner = table[s].pid
    /\ mode = "selected" => quantum = kUserQuantumTicks /\ resumable(table[selected])
    /\ mode = "entry" => lose_scratch(regs) = regs

IInv ==
    /\ TypeOK
    /\ Bookkeeping
    /\ RunningIsSelected
    /\ CpuMatchesProcess
    /\ NoFreedStackOrTable
    /\ GsBalanced
    /\ RegistersPreserved
    /\ ReadyIsResumable
    /\ NoPanic

LEMMA StepInRange == ASSUME NEW n \in Nat PROVE (n + 1) % Steps \in 0 .. Steps - 1
  BY StepsAssumption

LEMMA RegisterFileType ==
    ASSUME NEW o \in 0 .. Images, NEW n \in 0 .. Steps - 1,
           NEW c \in {"own", "lost"}, NEW k \in {"below", "beyond"}
    PROVE  RegisterFile(o, n, c, k) \in Registers
  BY DEF RegisterFile, Registers

LEMMA FreshType == ASSUME NEW o \in 0 .. Images PROVE Fresh(o) \in Registers
  BY RegisterFileType, StepsAssumption DEF Fresh

LEMMA LoseScratchType ==
    ASSUME NEW r \in Registers PROVE lose_scratch(r) \in Registers
  BY RegisterFileType, Zenon DEF lose_scratch, Registers

Processes == [pid : 0 .. Images, state : {"Unused", "Ready", "Running", "Exited"},
              saved : Registers, return_kind : {"Iret", "Sysret"}]

LEMMA ProcessType ==
    ASSUME NEW p \in 0 .. Images, NEW st \in {"Unused", "Ready", "Running", "Exited"},
           NEW r \in Registers, NEW k \in {"Iret", "Sysret"}
    PROVE  Process(p, st, r, k) \in Processes
  BY DEF Process, Processes

LEMMA EmptyType == Empty \in Processes
  BY ProcessType, FreshType, ImagesAssumption DEF Empty, NoPid

-----------------------------------------------------------------------------
LEMMA InitInv == Init => IInv
<1> SUFFICES ASSUME Init PROVE IInv
  OBVIOUS
<1>1. TypeOK
  BY EmptyType, FreshType, CapacityAssumption, ImagesAssumption, QuantumAssumption
  DEF Init, TypeOK, Processes, NoPid, NoSlot
<1>2. Bookkeeping /\ RunningIsSelected /\ CpuMatchesProcess
  BY ImagesAssumption
  DEF Init, Bookkeeping, RunningIsSelected, CpuMatchesProcess, InProcess,
      HasState, Empty, Process, NoPid, NoSlot
<1>3. NoFreedStackOrTable /\ GsBalanced /\ NoPanic /\ ReadyIsResumable
  BY DEF Init, NoFreedStackOrTable, GsBalanced, NoPanic, ReadyIsResumable,
         Ready, HasState, Empty, Process
<1>4. RegistersPreserved
  BY DEF Init, RegistersPreserved, Ready, HasState, Empty, Process, InProcess
<1> QED
  BY <1>1, <1>2, <1>3, <1>4 DEF IInv

LEMMA LoadImageInv == IInv /\ LoadImage => IInv'
<1> SUFFICES ASSUME IInv, LoadImage PROVE IInv'
  OBVIOUS
<1> DEFINE fresh == Fresh(next_pid)
<1>1. PICK s \in Slots :
        /\ HasState(s, "Unused")
        /\ table' = [table EXCEPT ![s] = Process(next_pid, "Ready", fresh, "Iret")]
        /\ left' = [left EXCEPT ![s] = fresh]
        /\ served' = [served EXCEPT ![s] = {}]
  BY Zenon DEF LoadImage, FirstUnused, StartWaiting
<1>2. /\ mode = "boot" /\ loaded < Images /\ next_pid = loaded + 1 /\ loaded \in Nat
      /\ previous_slot = NoSlot
  BY DEF LoadImage, IInv, Bookkeeping, TypeOK
<1>3. next_pid \in 1 .. Images /\ fresh \in Registers
  BY <1>2, FreshType, ImagesAssumption
<1>4. TypeOK'
  BY <1>1, <1>2, <1>3, ProcessType, ImagesAssumption
  DEF LoadImage, IInv, TypeOK, Processes
<1>5. Bookkeeping'
  BY <1>1, <1>2, <1>3, ImagesAssumption
  DEF LoadImage, IInv, TypeOK, Bookkeeping, HasState, NoPid, Process, Fresh, RegisterFile, resumable
<1>6. RunningIsSelected'
  BY <1>1, <1>2 DEF LoadImage, IInv, TypeOK, RunningIsSelected, HasState, Process
<1>7. CpuMatchesProcess'
  BY <1>2 DEF LoadImage, IInv, CpuMatchesProcess, InProcess
<1>8. NoFreedStackOrTable'
  BY <1>1, <1>2 DEF LoadImage, IInv, TypeOK, NoFreedStackOrTable, Bookkeeping, HasState, NoPid, Process, Empty
<1>9. RegistersPreserved'
  BY <1>1, <1>2
  DEF LoadImage, IInv, TypeOK, RegistersPreserved, Ready, HasState, InProcess, resume, Process
<1>10. (GsBalanced /\ ReadyIsResumable /\ NoPanic)'
  BY <1>1, <1>2
  DEF LoadImage, IInv, TypeOK, GsBalanced, ReadyIsResumable, NoPanic, Ready, HasState,
      resumable, Process
<1> QED
  BY <1>4, <1>5, <1>6, <1>7, <1>8, <1>9, <1>10 DEF IInv

\* reap_exited run on a table in which nothing is Running leaves the CPU
\* without a pointer to any process.
LEMMA StartupFailsInv == IInv /\ StartupFails => IInv'
<1> SUFFICES ASSUME IInv, StartupFails PROVE IInv'
  OBVIOUS
<1>1. /\ table' = [s \in Slots |-> Empty]
      /\ current' = NoSlot /\ stack_top' = NoPid /\ rsp0' = NoPid
  <2>1. ASSUME NEW s \in Slots, HasState(s, "Unused") PROVE table'[s] = Empty
    BY <2>1 DEF StartupFails, reap_exited, HasState, IInv, Bookkeeping
  <2>2. ASSUME NEW s \in Slots, ~HasState(s, "Unused") PROVE table'[s] = Empty
    BY <2>2 DEF StartupFails, reap_exited, in_state, Process
  <2> QED
    BY <2>1, <2>2 DEF StartupFails, reap_exited
<1>2. /\ mode = "boot" /\ mode' = "loop" /\ cr3 = NoPid /\ cr3' = cr3
      /\ gs = "user" /\ gs' = gs
      /\ next_pid = loaded + 1 /\ loaded < Images
  BY DEF StartupFails, IInv, Bookkeeping, CpuMatchesProcess, InProcess, GsBalanced, TypeOK
<1>3. TypeOK'
  BY <1>1, <1>2, EmptyType, ImagesAssumption
  DEF StartupFails, IInv, TypeOK, Processes, NoPid, NoSlot
<1>4. (Bookkeeping /\ RunningIsSelected /\ CpuMatchesProcess)'
  BY <1>1, <1>2
  DEF Bookkeeping, RunningIsSelected, CpuMatchesProcess, InProcess, HasState,
      Empty, Process
<1>5. (NoFreedStackOrTable /\ GsBalanced /\ NoPanic)'
  BY <1>1, <1>2 DEF NoFreedStackOrTable, GsBalanced, NoPanic
<1>6. (RegistersPreserved /\ ReadyIsResumable)'
  BY <1>1, <1>2
  DEF RegistersPreserved, ReadyIsResumable, Ready, HasState, Empty, Process, InProcess
<1> QED
  BY <1>3, <1>4, <1>5, <1>6 DEF IInv

LEMMA RunOnceInv == ASSUME IInv, NEW s \in Slots, RunOnce(s) PROVE IInv'
<1>1. /\ mode = "loop" /\ s \in Ready /\ HasState(s, "Ready")
      /\ resumable(table[s])
  BY DEF RunOnce, choose_next, Ready, IInv, ReadyIsResumable
<1>2. /\ table' = [table EXCEPT ![s] = Process(table[s].pid, "Running",
                                               table[s].saved, table[s].return_kind)]
      /\ quantum' = kUserQuantumTicks /\ selected' = s /\ mode' = "selected"
      /\ served' = [t \in Slots |-> IF t \in Ready THEN served[t] \cup {s}
                                                 ELSE served[t]]
      /\ previous_slot' = s
      /\ UNCHANGED <<rsp0, current, stack_top, next_pid, loaded, cr3, gs, regs, left>>
  BY <1>1 DEF RunOnce, with_state, in_state
<1>3. table[s] \in Processes /\ table' \in [Slots -> Processes]
  BY <1>2, ProcessType DEF IInv, TypeOK, Processes
<1>4. TypeOK'
  BY <1>1, <1>2, <1>3, QuantumAssumption DEF IInv, TypeOK, Processes, Ready
<1>5. Bookkeeping'
  BY <1>1, <1>2 DEF IInv, TypeOK, Bookkeeping, HasState, Process, resumable
<1>6. RunningIsSelected'
  BY <1>1, <1>2 DEF IInv, TypeOK, RunningIsSelected, HasState, Process
<1>7. CpuMatchesProcess'
  BY <1>1, <1>2 DEF IInv, CpuMatchesProcess, InProcess
<1>8. NoFreedStackOrTable'
  BY <1>1, <1>2 DEF IInv, TypeOK, NoFreedStackOrTable, Process
<1>9. RegistersPreserved'
  BY <1>1, <1>2
  DEF IInv, TypeOK, RegistersPreserved, Ready, HasState, InProcess, resume, Process
<1>10. (GsBalanced /\ ReadyIsResumable /\ NoPanic)'
  BY <1>1, <1>2
  DEF IInv, TypeOK, GsBalanced, ReadyIsResumable, NoPanic, Ready, HasState,
      resumable, Process
<1> QED
  BY <1>4, <1>5, <1>6, <1>7, <1>8, <1>9, <1>10 DEF IInv

LEMMA LaunchInv == IInv /\ Launch => IInv'
<1> SUFFICES ASSUME IInv, Launch PROVE IInv'
  OBVIOUS
<1>1. /\ mode = "selected" /\ selected \in Slots /\ HasState(selected, "Running")
      /\ table[selected].pid # NoPid /\ quantum = kUserQuantumTicks
  BY DEF Launch, IInv, Bookkeeping, RunningIsSelected, HasState
<1>2. /\ table[selected] \in Processes
      /\ resume(table[selected]) = left[selected]
      /\ left[selected] \in Registers
      /\ left[selected].owner = table[selected].pid
  BY <1>1
  DEF IInv, TypeOK, Processes, RegistersPreserved, Bookkeeping, HasState, resume,
      lose_scratch, RegisterFile
<1>3. TypeOK'
  BY <1>1, <1>2 DEF Launch, IInv, TypeOK, Processes
<1>4. (Bookkeeping /\ RunningIsSelected)'
  BY <1>1 DEF Launch, IInv, Bookkeeping, RunningIsSelected, HasState
<1>5. CpuMatchesProcess'
  BY <1>1, QuantumAssumption DEF Launch, CpuMatchesProcess, InProcess
<1>6. NoFreedStackOrTable'
  BY <1>1 DEF Launch, NoFreedStackOrTable
<1>7. RegistersPreserved'
  BY <1>1, <1>2 DEF Launch, IInv, RegistersPreserved, Ready, HasState, InProcess
<1>8. (GsBalanced /\ ReadyIsResumable /\ NoPanic)'
  BY <1>1 DEF Launch, IInv, GsBalanced, ReadyIsResumable, NoPanic, Ready, HasState
<1> QED
  BY <1>3, <1>4, <1>5, <1>6, <1>7, <1>8 DEF IInv

\* What holds of the CPU while a process has it.
LEMMA InProcessFacts ==
    ASSUME IInv, InProcess
    PROVE  /\ current = selected /\ selected \in Slots /\ current # NoSlot
           /\ HasState(selected, "Running") /\ table[selected] \in Processes
           /\ table[selected].pid # NoPid
           /\ rsp0 = table[selected].pid
           /\ quantum > 0 /\ quantum \in Nat
           /\ regs = left[selected] /\ regs \in Registers
           /\ regs.owner = table[selected].pid
<1>1. selected \in Slots /\ current = selected /\ HasState(selected, "Running")
  BY DEF IInv, InProcess, Bookkeeping, RunningIsSelected, CpuMatchesProcess
<1>2. /\ table[selected].pid # NoPid /\ quantum > 0
      /\ {cr3, rsp0, stack_top} = {table[selected].pid}
  BY DEF IInv, InProcess, CpuMatchesProcess
<1>3. regs = left[selected] /\ regs \in Registers /\ regs.owner = table[selected].pid
  BY DEF IInv, InProcess, RegistersPreserved, TypeOK
<1>4. current # NoSlot /\ table[selected] \in Processes
  BY <1>1, CapacityAssumption DEF Slots, NoSlot, IInv, TypeOK, Processes
<1>5. rsp0 = table[selected].pid
  BY <1>2
<1>6. quantum \in Nat
  BY QuantumAssumption DEF IInv, TypeOK
<1> QED
  BY <1>1, <1>2, <1>3, <1>4, <1>5, <1>6

\* Every handler that takes the CPU from a process does this: the process
\* becomes Ready, with a context that restores it, or Exited.
LEMMA LeaveInv ==
    ASSUME IInv, InProcess, return_to_host,
           NEW r \in Registers, NEW k \in {"Iret", "Sysret"},
           NEW st \in {"Ready", "Exited"},
           table' = [table EXCEPT ![selected] =
                        Process(table[selected].pid, st, r, k)],
           r.owner = table[selected].pid,
           st = "Ready" => /\ resume(table'[selected]) = left[selected]
                           /\ resumable(table'[selected]),
           served' \in [Slots -> SUBSET Slots],
           quantum' \in 0 .. kUserQuantumTicks,
           gs' = "user"
    PROVE  IInv'
<1>1. /\ selected \in Slots /\ HasState(selected, "Running")
      /\ table[selected] \in Processes /\ table[selected].pid # NoPid
      /\ rsp0 = table[selected].pid
  BY InProcessFacts
<1>2. /\ cr3' = NoPid /\ current' = NoSlot /\ stack_top' = NoPid
      /\ regs' = Fresh(NoPid) /\ mode' = "back"
      /\ UNCHANGED <<next_pid, loaded, selected, previous_slot, rsp0, left>>
  BY DEF return_to_host
<1>3. /\ table' \in [Slots -> Processes]
      /\ table'[selected] = Process(table[selected].pid, st, r, k)
      /\ \A s \in Slots : s # selected => table'[s] = table[s]
  BY <1>1, ProcessType DEF IInv, TypeOK, Processes
<1>4. TypeOK'
  BY <1>1, <1>2, <1>3, FreshType, ImagesAssumption
  DEF IInv, TypeOK, Processes, NoPid, NoSlot
<1>5. Bookkeeping'
  BY <1>1, <1>2, <1>3
  DEF IInv, InProcess, Bookkeeping, HasState, Process, RunningIsSelected
<1>6. RunningIsSelected'
  BY <1>1, <1>2, <1>3 DEF IInv, RunningIsSelected, HasState, Process
<1>7. CpuMatchesProcess'
  BY <1>2 DEF CpuMatchesProcess, InProcess
<1>8. NoFreedStackOrTable'
  BY <1>1, <1>2, <1>3 DEF NoFreedStackOrTable, Process
<1>9. RegistersPreserved'
  BY <1>1, <1>2, <1>3
  DEF IInv, RegistersPreserved, Ready, HasState, InProcess, resume, Process
<1>10. (GsBalanced /\ ReadyIsResumable /\ NoPanic)'
  BY <1>1, <1>2, <1>3
  DEF IInv, GsBalanced, ReadyIsResumable, NoPanic, Ready, HasState, resumable, Process
<1> QED
  BY <1>4, <1>5, <1>6, <1>7, <1>8, <1>9, <1>10 DEF IInv

LEMMA AfterRunInv == IInv /\ AfterRun => IInv'
<1> SUFFICES ASSUME IInv, AfterRun PROVE IInv'
  OBVIOUS
<1>1. mode = "back" /\ mode' = "loop" /\ selected \in Slots /\ selected' = NoSlot
  BY DEF AfterRun, IInv, Bookkeeping
<1>2. ASSUME NEW s \in Slots
      PROVE  table'[s] = IF HasState(s, "Exited") THEN Empty ELSE table[s]
  BY <1>1 DEF AfterRun, reap_exited, HasState, IInv, Bookkeeping
<1>3. table' \in [Slots -> Processes]
  BY <1>1, EmptyType DEF AfterRun, reap_exited, IInv, TypeOK, Processes
<1>4. /\ current = NoSlot /\ stack_top = NoPid /\ cr3 = NoPid /\ gs = "user"
      /\ current' = NoSlot /\ stack_top' = NoPid /\ cr3' = NoPid /\ gs' = "user"
  BY <1>1 DEF AfterRun, reap_exited, IInv, CpuMatchesProcess, InProcess, GsBalanced, TypeOK
<1>5. rsp0' = NoPid \/ (rsp0' = rsp0 /\ ~HasState(selected, "Exited"))
  BY DEF AfterRun, reap_exited
<1>6. TypeOK'
  BY <1>1, <1>3, <1>4, <1>5, ImagesAssumption
  DEF AfterRun, IInv, TypeOK, Processes, NoPid, NoSlot
<1>7. Bookkeeping'
  <2>1. Empty.state = "Unused" /\ Empty.pid = NoPid
    BY DEF Empty, Process
  <2>2. \A s \in Slots : HasState(s, "Exited") => s = selected
    BY DEF IInv, Bookkeeping
  <2>3. \A s \in Slots : /\ HasState(s, "Unused")' => table'[s] = Empty
                         /\ ~HasState(s, "Unused")' => table'[s] = table[s] /\ ~HasState(s, "Unused")
                         /\ ~HasState(s, "Exited")'
    BY <1>2, <2>1 DEF IInv, Bookkeeping, HasState
  <2>4. \A s \in Slots : /\ IF HasState(s, "Unused")' THEN table'[s] = Empty
                                                       ELSE table'[s].pid # NoPid
                         /\ ~HasState(s, "Unused")' => table'[s].saved.owner = table'[s].pid
    BY <2>3 DEF IInv, Bookkeeping
  <2> QED
    BY <1>1, <2>3, <2>4 DEF Bookkeeping
<1>8. RunningIsSelected'
  BY <1>1, <1>2 DEF IInv, RunningIsSelected, HasState, Empty, Process
<1>9. CpuMatchesProcess'
  BY <1>1, <1>4 DEF CpuMatchesProcess, InProcess
<1>10. NoFreedStackOrTable'
  BY <1>1, <1>2, <1>4, <1>5 DEF IInv, NoFreedStackOrTable, Bookkeeping
<1>11. RegistersPreserved'
  BY <1>1, <1>2
  DEF AfterRun, IInv, RegistersPreserved, Ready, HasState, InProcess, Empty, Process
<1>12. (GsBalanced /\ ReadyIsResumable /\ NoPanic)'
  BY <1>1, <1>2, <1>4
  DEF IInv, GsBalanced, ReadyIsResumable, NoPanic, Ready, HasState, Empty, Process
<1> QED
  BY <1>6, <1>7, <1>8, <1>9, <1>10, <1>11, <1>12 DEF IInv

\* A step that changes only the registers of the running process, on its
\* record and on the CPU alike, and perhaps moves in or out of syscall_bridge.
LEMMA ComputeInv ==
    ASSUME IInv, InProcess,
           NEW r \in Registers, r.owner = regs.owner,
           regs' = r, left' = [left EXCEPT ![selected] = r],
           \/ mode' = "user" /\ gs' = "user"
           \/ mode' = "entry" /\ gs' = "kernel" /\ lose_scratch(r) = r,
           UNCHANGED <<table, next_pid, loaded, selected, previous_slot, quantum,
                       cr3, rsp0, current, stack_top, served>>
    PROVE  IInv'
<1>1. InProcess'
  BY DEF InProcess
<1>2. /\ selected \in Slots /\ HasState(selected, "Running")
      /\ regs.owner = table[selected].pid
  BY InProcessFacts
<1>3. TypeOK'
  BY <1>2 DEF IInv, TypeOK
<1>4. Bookkeeping' /\ RunningIsSelected'
  <2>1. Bookkeeping'
    BY <1>2 DEF IInv, InProcess, Bookkeeping, HasState
  <2>2. RunningIsSelected'
    BY <1>1 DEF IInv, InProcess, RunningIsSelected, HasState
  <2> QED
    BY <2>1, <2>2
<1>5. CpuMatchesProcess' /\ NoFreedStackOrTable'
  BY <1>1 DEF IInv, CpuMatchesProcess, NoFreedStackOrTable
<1>6. RegistersPreserved'
  BY <1>1, <1>2 DEF IInv, TypeOK, RegistersPreserved, Ready, HasState
<1>7. (GsBalanced /\ ReadyIsResumable /\ NoPanic)'
  BY DEF IInv, GsBalanced, ReadyIsResumable, NoPanic, Ready, HasState
<1> QED
  BY <1>3, <1>4, <1>5, <1>6, <1>7 DEF IInv

LEMMA UserStepInv == IInv /\ UserStep => IInv'
<1> SUFFICES ASSUME IInv, UserStep PROVE IInv'
  OBVIOUS
<1>1. PICK target \in {"below", "beyond"} :
        regs' = RegisterFile(regs.owner, (regs.step + 1) % Steps, "own", target)
  BY DEF UserStep
<1>2. regs.owner \in 0 .. Images /\ regs.step \in Nat
  BY StepsAssumption DEF IInv, TypeOK, Registers
<1>3. regs' \in Registers
  BY <1>1, <1>2, StepInRange, RegisterFileType
<1>4. regs'.owner = regs.owner
  BY <1>1 DEF RegisterFile
<1>5. mode = "user" /\ mode' = "user" /\ gs' = "user"
  BY DEF UserStep, IInv, GsBalanced, TypeOK
<1> QED
  BY <1>3, <1>4, <1>5, ComputeInv, Zenon DEF UserStep, InProcess

LEMMA SyscallEntryInv == IInv /\ SyscallEntry => IInv'
<1> SUFFICES ASSUME IInv, SyscallEntry PROVE IInv'
  OBVIOUS
<1>1. mode = "user" /\ gs = "user"
  BY DEF SyscallEntry, IInv, GsBalanced, TypeOK
<1>2. gs' = "kernel" /\ mode' = "entry"
  BY <1>1 DEF SyscallEntry, swapgs
<1>3. regs' \in Registers /\ regs'.owner = regs.owner
  BY LoseScratchType DEF SyscallEntry, IInv, TypeOK, lose_scratch, RegisterFile
<1>4. lose_scratch(regs') = regs'
  BY DEF SyscallEntry, lose_scratch, RegisterFile
<1> QED
  BY <1>1, <1>2, <1>3, <1>4, ComputeInv, Zenon DEF SyscallEntry, InProcess

LEMMA StartWaitingType ==
    ASSUME IInv, NEW s \in Slots, StartWaiting(s)
    PROVE  served' \in [Slots -> SUBSET Slots]
  BY DEF StartWaiting, IInv, TypeOK

\* An interrupt frame holds all registers: iretq restores them.
LEMMA CaptureIret ==
    ASSUME IInv, mode = "user", NEW st \in {"Ready", "Exited"},
           table' = capture(selected, "Iret", st)
    PROVE  /\ table' = [table EXCEPT ![selected] =
                           Process(table[selected].pid, st, regs, "Iret")]
           /\ resume(table'[selected]) = left[selected]
           /\ resumable(table'[selected])
<1>1. InProcess /\ selected \in Slots /\ regs = left[selected]
  BY InProcessFacts DEF InProcess
<1>2. table' = [table EXCEPT ![selected] =
                   Process(table[selected].pid, st, regs, "Iret")]
  BY DEF capture
<1>3. table'[selected] = Process(table[selected].pid, st, regs, "Iret")
  BY <1>1, <1>2 DEF IInv, TypeOK
<1> QED
  BY <1>1, <1>2, <1>3 DEF resume, resumable, Process

LEMMA StutterInv == IInv /\ UNCHANGED vars => IInv'
<1> SUFFICES ASSUME IInv, UNCHANGED vars PROVE IInv'
  OBVIOUS
<1> USE DEF vars, cpu, HasState, Ready, InProcess
<1>1. TypeOK'
  BY DEF IInv, TypeOK
<1>2. Bookkeeping'
  BY DEF IInv, Bookkeeping
<1>3. RunningIsSelected' /\ CpuMatchesProcess' /\ NoFreedStackOrTable'
  BY DEF IInv, RunningIsSelected, CpuMatchesProcess, NoFreedStackOrTable
<1>4. GsBalanced' /\ ReadyIsResumable' /\ NoPanic'
  BY DEF IInv, GsBalanced, ReadyIsResumable, NoPanic
<1>5. RegistersPreserved'
  BY DEF IInv, RegistersPreserved
<1> QED
  BY <1>1, <1>2, <1>3, <1>4, <1>5 DEF IInv

LEMMA Int80Inv == ASSUME IInv, NEW a \in Actions, Int80(a) PROVE IInv'
<1>1. /\ mode = "user" /\ InProcess /\ current = selected /\ current # NoSlot
      /\ selected \in Slots /\ regs \in Registers
      /\ regs.owner = table[selected].pid /\ gs' = "user"
  BY InProcessFacts DEF Int80, InProcess, IInv, GsBalanced, TypeOK
<1>2. quantum' \in 0 .. kUserQuantumTicks
  BY <1>1 DEF Int80, IInv, TypeOK
<1>3. CASE a = "ReturnToUser"
  <2>1. UNCHANGED <<table, next_pid, loaded, mode, selected, previous_slot, quantum,
                    cr3, rsp0, current, stack_top, gs, regs, left, served>>
    BY <1>1, <1>3 DEF Int80
  <2> QED
    BY <2>1, StutterInv DEF vars, cpu
<1>4. CASE a = "YieldToHost"
  <2>1. table' = capture(selected, "Iret", "Ready") /\ StartWaiting(selected)
        /\ return_to_host
    BY <1>1, <1>4 DEF Int80
  <2> QED
    BY <1>1, <1>2, <2>1, CaptureIret, StartWaitingType, LeaveInv
<1>5. CASE a = "ExitToHost"
  <2>1. table' = capture(selected, "Iret", "Exited") /\ served' = served
        /\ return_to_host
    BY <1>1, <1>5 DEF Int80
  <2>2. served' \in [Slots -> SUBSET Slots]
    BY <2>1 DEF IInv, TypeOK
  <2> QED
    BY <1>1, <1>2, <2>1, <2>2, CaptureIret, LeaveInv
<1> QED
  BY <1>3, <1>4, <1>5 DEF Actions

LEMMA SyscallBridgeInv == ASSUME IInv, NEW a \in Actions, SyscallBridge(a) PROVE IInv'
<1> DEFINE valid == valid_sysret_context(regs)
<1>1. /\ mode = "entry" /\ InProcess /\ current = selected /\ current # NoSlot
      /\ selected \in Slots /\ table[selected] \in Processes
      /\ HasState(selected, "Running")
      /\ regs \in Registers /\ regs = left[selected]
      /\ regs.owner = table[selected].pid /\ gs = "kernel"
  BY InProcessFacts DEF SyscallBridge, InProcess, IInv, GsBalanced, TypeOK
<1>2. gs' = "user" /\ quantum' = quantum /\ quantum' \in 0 .. kUserQuantumTicks
  BY <1>1 DEF SyscallBridge, swapgs, restore_host_gs_after_syscall, IInv, TypeOK
<1>3. CASE a = "ReturnToUser" /\ valid
  <2>1. /\ mode' = "user"
        /\ UNCHANGED <<table, next_pid, loaded, selected, previous_slot, quantum,
                       cr3, rsp0, current, stack_top, regs, left, served>>
    BY <1>1, <1>2, <1>3 DEF SyscallBridge
  <2>2. left' = [left EXCEPT ![selected] = regs]
    BY <1>1, <2>1 DEF IInv, TypeOK
  <2> QED
    BY <1>1, <1>2, <2>1, <2>2, ComputeInv, Zenon
<1>4. CASE a = "ReturnToUser" /\ ~valid
  <2>1. table' = with_state(selected, "Exited") /\ served' = served /\ return_to_host
    BY <1>1, <1>4 DEF SyscallBridge
  <2>2. /\ table' = [table EXCEPT ![selected] =
                       Process(table[selected].pid, "Exited",
                               table[selected].saved, table[selected].return_kind)]
        /\ table[selected].saved \in Registers
        /\ table[selected].return_kind \in {"Iret", "Sysret"}
        /\ table[selected].saved.owner = table[selected].pid
    BY <1>1, <2>1 DEF with_state, in_state, Processes, IInv, Bookkeeping, HasState
  <2>3. served' \in [Slots -> SUBSET Slots]
    BY <2>1 DEF IInv, TypeOK
  <2> QED
    BY <1>1, <1>2, <2>1, <2>2, <2>3, LeaveInv
<1>5. CASE a = "YieldToHost" /\ valid
  <2>1. table' = capture(selected, "Sysret", "Ready") /\ StartWaiting(selected)
        /\ return_to_host
    BY <1>1, <1>5 DEF SyscallBridge
  <2>2. table' = [table EXCEPT ![selected] =
                     Process(table[selected].pid, "Ready", regs, "Sysret")]
    BY <2>1 DEF capture
  <2>3. table'[selected] = Process(table[selected].pid, "Ready", regs, "Sysret")
    BY <1>1, <2>2 DEF IInv, TypeOK
  <2>4. resume(table'[selected]) = left[selected] /\ resumable(table'[selected])
    <3>1. table'[selected].return_kind = "Sysret" /\ table'[selected].saved = regs
      BY <2>3 DEF Process
    <3>2. lose_scratch(regs) = regs
      BY <1>1 DEF IInv, Bookkeeping
    <3> QED
      BY <1>1, <1>5, <3>1, <3>2 DEF resume, resumable
  <2> QED
    BY <1>1, <1>2, <2>1, <2>2, <2>4, StartWaitingType, LeaveInv
<1>6. CASE a = "ExitToHost" \/ (a = "YieldToHost" /\ ~valid)
  <2>1. table' = capture(selected, "Sysret", "Exited") /\ served' = served
        /\ return_to_host
    BY <1>1, <1>6 DEF SyscallBridge
  <2>2. table' = [table EXCEPT ![selected] =
                     Process(table[selected].pid, "Exited", regs, "Sysret")]
    BY <2>1 DEF capture
  <2>3. served' \in [Slots -> SUBSET Slots]
    BY <2>1 DEF IInv, TypeOK
  <2> QED
    BY <1>1, <1>2, <2>1, <2>2, <2>3, LeaveInv
<1> QED
  BY <1>3, <1>4, <1>5, <1>6 DEF Actions

LEMMA TimerIrqInv == IInv /\ TimerIrq => IInv'
<1> SUFFICES ASSUME IInv, TimerIrq PROVE IInv'
  OBVIOUS
<1>1. mode \in {"loop", "selected", "user", "back"} /\ gs = "user" /\ gs' = gs
  BY DEF TimerIrq, IInv, GsBalanced, TypeOK
<1>2. quantum \in Nat /\ kUserQuantumTicks \in Nat /\ quantum <= kUserQuantumTicks
  BY QuantumAssumption DEF IInv, TypeOK
<1>3. CASE mode # "user"
  \* The kernel was interrupted: the tick counts for nobody.
  <2>1. UNCHANGED vars
    BY <1>1, <1>3 DEF TimerIrq, tick_counts, vars, cpu
  <2> QED
    BY <2>1, StutterInv
<1>4. CASE mode = "user"
  <2>1. /\ InProcess /\ current = selected /\ current # NoSlot /\ selected \in Slots
        /\ HasState(selected, "Running") /\ table[selected].pid # NoPid
        /\ quantum > 0 /\ regs \in Registers /\ regs.owner = table[selected].pid
    BY <1>4, InProcessFacts DEF InProcess
  <2>2. CASE quantum # 1
    <3>0. tick_counts(mode = "user")
      BY <1>4, <2>1 DEF tick_counts
    <3>1. /\ quantum' = quantum - 1
          /\ UNCHANGED <<table, next_pid, loaded, mode, selected, previous_slot, cr3,
                         rsp0, current, stack_top, gs, regs, left, served>>
      BY <2>2, <3>0 DEF TimerIrq
    <3>2. quantum' > 0 /\ quantum' \in 0 .. kUserQuantumTicks
      <4>1. quantum' = quantum - 1 /\ quantum > 0 /\ quantum # 1
        BY <2>1, <2>2, <3>1
      <4> QED
        BY <1>2, <4>1
    <3> USE DEF HasState, Ready, InProcess
    <3>3. TypeOK'
      BY <3>1, <3>2 DEF IInv, TypeOK
    <3>4. Bookkeeping'
      BY <1>4, <3>1 DEF IInv, Bookkeeping
    <3>5. RunningIsSelected' /\ CpuMatchesProcess' /\ NoFreedStackOrTable'
      BY <1>4, <3>1, <3>2
      DEF IInv, RunningIsSelected, CpuMatchesProcess, NoFreedStackOrTable
    <3>6. GsBalanced' /\ ReadyIsResumable' /\ NoPanic' /\ RegistersPreserved'
      BY <3>1 DEF IInv, GsBalanced, ReadyIsResumable, NoPanic, RegistersPreserved
    <3> QED
      BY <3>3, <3>4, <3>5, <3>6 DEF IInv
  <2>3. CASE quantum = 1
    <3>1. tracked
      BY <2>1 DEF tracked
    <3>0. tick_counts(mode = "user") /\ current = selected
      BY <1>4, <2>1 DEF tick_counts
    <3>2. /\ quantum' = 0 /\ table' = capture(selected, "Iret", "Ready")
          /\ StartWaiting(selected) /\ return_to_host
      BY <1>4, <2>3, <3>0, <3>1 DEF TimerIrq
    <3>3. quantum' \in 0 .. kUserQuantumTicks
      BY <1>2, <3>2
    <3> QED
      BY <1>1, <1>4, <2>1, <3>2, <3>3, CaptureIret, StartWaitingType, LeaveInv
  <2> QED
    BY <2>2, <2>3
<1> QED
  BY <1>3, <1>4

LEMMA UserFaultInv == IInv /\ UserFault => IInv'
<1> SUFFICES ASSUME IInv, UserFault PROVE IInv'
  OBVIOUS
<1>1. mode = "user" /\ gs' = "user"
  BY DEF UserFault, IInv, GsBalanced, TypeOK
<1>2. /\ InProcess /\ current = selected /\ current # NoSlot /\ selected \in Slots
      /\ HasState(selected, "Running") /\ table[selected].pid # NoPid
      /\ regs \in Registers /\ regs.owner = table[selected].pid
  BY <1>1, InProcessFacts DEF InProcess
<1>3. tracked
  BY <1>2 DEF tracked
<1>4. /\ table' = capture(selected, "Iret", "Exited")
      /\ quantum' = quantum /\ served' = served /\ return_to_host
  BY <1>2, <1>3 DEF UserFault
<1>5. served' \in [Slots -> SUBSET Slots] /\ quantum' \in 0 .. kUserQuantumTicks
  BY <1>4 DEF IInv, TypeOK
<1> QED
  BY <1>1, <1>2, <1>4, <1>5, CaptureIret, LeaveInv

LEMMA NextInv == IInv /\ [Next]_vars => IInv'
  BY LoadImageInv, StartupFailsInv, RunOnceInv, LaunchInv, AfterRunInv, UserStepInv,
     Int80Inv, SyscallEntryInv, SyscallBridgeInv, TimerIrqInv, UserFaultInv, StutterInv
  DEF Next

-----------------------------------------------------------------------------
\* The inductive invariant.
THEOREM Invariance == Spec => []IInv
  BY InitInv, NextInv, PTL DEF Spec

\* The types of the state.
THEOREM TypeCorrect == Spec => []TypeOK
  BY Invariance, PTL DEF IInv

\* Exactly the process run_once selected is Running until a handler leaves it;
\* CR3, TSS.rsp0 and the cpu-local stack name that process, and nothing the
\* reaper has freed; every path through the SYSCALL entry exchanges the GS
\* bases an even number of times.
THEOREM CpuStaysConsistent == Spec => []CpuConsistent
  BY Invariance, PTL DEF IInv, CpuConsistent

\* A process finds its registers as it left them, every process that is Ready
\* has a frame to return through, and no halt of the kernel is reached.
THEOREM EveryProcessResumes == Spec => []ProcessesResume
  BY Invariance, PTL DEF IInv, ProcessesResume

\* Ticks that hit the kernel are not charged to the process about to run.
THEOREM QuantumIsWhole == Spec => WholeQuantum
<1>1. IInv /\ [Next]_vars =>
        [mode = "selected" /\ mode' = "user" => quantum' = kUserQuantumTicks]_vars
  <2> SUFFICES ASSUME IInv, Next, mode = "selected", mode' = "user"
               PROVE  quantum' = kUserQuantumTicks
    OBVIOUS
  <2>1. Launch
    BY DEF Next, LoadImage, StartupFails, RunOnce, Launch, AfterRun, UserStep, Int80,
           SyscallEntry, SyscallBridge, TimerIrq, UserFault, tick_counts
  <2> QED
    BY <2>1 DEF Launch, IInv, Bookkeeping
<1> QED
  BY <1>1, Invariance, PTL DEF Spec, WholeQuantum

-----------------------------------------------------------------------------
(* Refinement.                                                             *)

LEMMA InitRefines == Init => RR!Init
  BY DEF Init, RR!Init, Status, RR!Slots, Slots, HasState, Empty, Process, NoSlot

\* Leaving a process: to wait is a Pause, to exit is a Finish.
LEMMA PauseRefines ==
    ASSUME IInv, InProcess, NEW r, NEW k,
           table' = [table EXCEPT ![selected] =
                        Process(table[selected].pid, "Ready", r, k)],
           StartWaiting(selected), return_to_host
    PROVE  RR!Next
<1>1. selected \in Slots /\ HasState(selected, "Running")
  BY InProcessFacts
<1>2. Status[selected] = "running" /\ Status' = [Status EXCEPT ![selected] = "ready"]
  BY <1>1, Zenon DEF Status, HasState, Process, IInv, TypeOK
<1>3. RR!Pause(selected)
  BY <1>2 DEF RR!Pause, StartWaiting, return_to_host
<1> QED
  BY <1>1, <1>3 DEF RR!Next, RR!Slots, Slots

LEMMA FinishRefines ==
    ASSUME IInv, InProcess, NEW r, NEW k,
           table' = [table EXCEPT ![selected] =
                        Process(table[selected].pid, "Exited", r, k)],
           served' = served, return_to_host
    PROVE  RR!Next
<1>1. selected \in Slots /\ HasState(selected, "Running")
  BY InProcessFacts
<1>2. Status[selected] = "running" /\ Status' = [Status EXCEPT ![selected] = "idle"]
  BY <1>1, Zenon DEF Status, HasState, Process, IInv, TypeOK
<1>3. RR!Finish(selected)
  BY <1>2 DEF RR!Finish, return_to_host
<1> QED
  BY <1>1, <1>3 DEF RR!Next, RR!Slots, Slots

\* Whatever changes neither the table, nor the last slot, nor the history of
\* waiting is invisible.
LEMMA Invisible ==
    ASSUME UNCHANGED <<table, previous_slot, served>> PROVE UNCHANGED RR!vars
  BY DEF RR!vars, Status, HasState

LEMMA LoadImageRefines == IInv /\ LoadImage => RR!Next
<1> SUFFICES ASSUME IInv, LoadImage PROVE RR!Next
  OBVIOUS
<1>1. PICK s \in Slots :
        /\ HasState(s, "Unused")
        /\ table' = [table EXCEPT ![s] =
                        Process(next_pid, "Ready", Fresh(next_pid), "Iret")]
        /\ StartWaiting(s)
  BY Zenon DEF LoadImage, FirstUnused
<1>2. Status[s] = "idle" /\ Status' = [Status EXCEPT ![s] = "ready"]
  BY <1>1, Zenon DEF Status, HasState, Process, IInv, TypeOK
<1>3. RR!Admit(s)
  BY <1>1, <1>2, Zenon DEF RR!Admit, StartWaiting, LoadImage
<1> QED
  BY <1>3 DEF RR!Next, RR!Slots, Slots

LEMMA StartupFailsRefines == IInv /\ StartupFails => RR!Next
<1> SUFFICES ASSUME IInv, StartupFails PROVE RR!Next
  OBVIOUS
<1>1. ASSUME NEW s \in Slots PROVE table'[s].state \notin {"Ready", "Running"}
  BY DEF StartupFails, reap_exited, in_state, Process, Empty, HasState
<1>2. Status' = [s \in Slots |-> "idle"]
  BY <1>1 DEF Status, HasState
<1>3. RR!Abandon
  BY <1>2 DEF RR!Abandon, StartupFails, IInv, Bookkeeping, NoSlot, Slots, RR!Slots
<1> QED
  BY <1>3 DEF RR!Next

LEMMA RunOnceRefines == ASSUME IInv, NEW s \in Slots, RunOnce(s) PROVE RR!Next
<1>1. /\ mode = "loop" /\ s \in Ready /\ HasState(s, "Ready")
      /\ resumable(table[s])
  BY DEF RunOnce, choose_next, Ready, IInv, ReadyIsResumable
<1>2. RR!Waiting = Ready
  BY Zenon DEF RR!Waiting, RR!Slots, Slots, Ready, Status, HasState
<1>3. RR!FirstInLine(s)
  BY <1>2 DEF RunOnce, choose_next, RR!FirstInLine, RR!Distance, Distance
<1>4. \A t \in RR!Slots : Status[t] # "running"
  BY <1>1 DEF IInv, RunningIsSelected, Status, HasState, RR!Slots, Slots
<1>5. Status' = [Status EXCEPT ![s] = "running"]
  <2>1. table' = [table EXCEPT ![s] = Process(table[s].pid, "Running",
                                              table[s].saved, table[s].return_kind)]
    BY <1>1 DEF RunOnce, with_state, in_state
  <2> QED
    BY <1>1, <2>1, Zenon DEF Process, Status, HasState, IInv, TypeOK
<1>6. /\ previous_slot' = s
      /\ served' = [t \in RR!Slots |-> IF t \in RR!Waiting THEN served[t] \cup {s}
                                                           ELSE served[t]]
  BY <1>1, <1>2 DEF RunOnce, RR!Slots, Slots
<1>7. RR!Dispatch(s)
  BY <1>3, <1>4, <1>5, <1>6 DEF RR!Dispatch
<1> QED
  BY <1>7 DEF RR!Next, RR!Slots, Slots

\* Every step of the kernel is a step of the round robin, or invisible to it.
LEMMA NextRefines == IInv /\ [Next]_vars => [RR!Next]_RR!vars
<1> SUFFICES ASSUME IInv, [Next]_vars PROVE RR!Next \/ UNCHANGED RR!vars
  OBVIOUS
<1>1. CASE LoadImage \/ StartupFails \/ \E s \in Slots : RunOnce(s)
  BY <1>1, LoadImageRefines, StartupFailsRefines, RunOnceRefines
<1>2. CASE Launch \/ UserStep \/ SyscallEntry
  BY <1>2, Invisible DEF Launch, UserStep, SyscallEntry
<1>3. CASE AfterRun
  <2>1. Status' = Status
    <3>1. \/ table' = [s \in Slots |-> IF table[s].state = "Exited" THEN Empty ELSE table[s]]
          \/ table' = table
      BY <1>3 DEF AfterRun, reap_exited
    <3>2. Empty.state = "Unused"
      BY DEF Empty, Process
    <3> QED
      BY <3>1, <3>2 DEF Status, HasState
  <2> QED
    BY <1>3, <2>1 DEF AfterRun, RR!vars
<1>4. ASSUME NEW a \in Actions, Int80(a) PROVE RR!Next \/ UNCHANGED RR!vars
  <2>1. InProcess /\ current = selected /\ current # NoSlot
    BY <1>4, InProcessFacts DEF Int80, InProcess
  <2>2. CASE a = "ReturnToUser"
    BY <1>4, <2>1, <2>2, Invisible DEF Int80
  <2>3. CASE a = "YieldToHost"
    BY <1>4, <2>1, <2>3, PauseRefines DEF Int80, capture
  <2>4. CASE a = "ExitToHost"
    BY <1>4, <2>1, <2>4, FinishRefines DEF Int80, capture
  <2> QED
    BY <2>2, <2>3, <2>4 DEF Actions
<1>5. ASSUME NEW a \in Actions, SyscallBridge(a) PROVE RR!Next \/ UNCHANGED RR!vars
  <2>1. InProcess /\ current = selected /\ current # NoSlot
    BY <1>5, InProcessFacts DEF SyscallBridge, InProcess
  <2>2. CASE a = "ReturnToUser" /\ valid_sysret_context(regs)
    BY <1>5, <2>1, <2>2, Invisible DEF SyscallBridge
  <2>3. CASE a = "ReturnToUser" /\ ~valid_sysret_context(regs)
    BY <1>5, <2>1, <2>3, FinishRefines DEF SyscallBridge, with_state, in_state
  <2>4. CASE a = "YieldToHost" /\ valid_sysret_context(regs)
    BY <1>5, <2>1, <2>4, PauseRefines DEF SyscallBridge, capture
  <2>5. CASE a = "ExitToHost" \/ (a = "YieldToHost" /\ ~valid_sysret_context(regs))
    BY <1>5, <2>1, <2>5, FinishRefines DEF SyscallBridge, capture
  <2> QED
    BY <2>2, <2>3, <2>4, <2>5 DEF Actions
<1>6. CASE TimerIrq
  <2>1. CASE tick_counts(mode = "user") /\ quantum = 1
    <3>1. InProcess /\ current = selected
      BY <2>1, InProcessFacts DEF tick_counts, InProcess
    <3>2. tracked
      BY <3>1, InProcessFacts DEF tracked
    <3> QED
      BY <1>6, <2>1, <3>1, <3>2, PauseRefines DEF TimerIrq, tick_counts, capture
  <2>2. CASE ~(tick_counts(mode = "user") /\ quantum = 1)
    BY <1>6, <2>2, Invisible DEF TimerIrq
  <2> QED
    BY <2>1, <2>2
<1>7. CASE UserFault
  <2>1. InProcess /\ current = selected /\ tracked
    BY <1>7, InProcessFacts DEF UserFault, InProcess, tracked
  <2> QED
    BY <1>7, <2>1, FinishRefines DEF UserFault, capture
<1>8. CASE UNCHANGED vars
  BY <1>8, Invisible DEF vars
<1> QED
  BY <1>1, <1>2, <1>3, <1>4, <1>5, <1>6, <1>7, <1>8 DEF Next

\* The scheduler, with its context switches, interrupts, faults and reaping,
\* implements the abstract round robin.
THEOREM Refinement == Spec => ImplementsRoundRobin
  BY InitRefines, NextRefines, Invariance, PTL DEF Spec, ImplementsRoundRobin, RR!Spec

RRP == INSTANCE RoundRobinProofs WITH status <- Status, last <- previous_slot

\* While a process is ready, no other process gets two turns: inherited from
\* the abstract specification through the refinement.
THEOREM NobodyOvertaken == Spec => NoOvertaking
<1>1. RRP!Spec => RRP!NoOvertaking
  BY RRP!RoundRobinNoOvertaking, CapacityAssumption
<1>2. RR!Spec <=> RRP!Spec
  BY DEF RR!Spec, RRP!Spec, RR!Init, RRP!Init, RR!Next, RRP!Next, RR!vars, RRP!vars,
         RR!Admit, RRP!Admit, RR!Dispatch, RRP!Dispatch, RR!Pause, RRP!Pause,
         RR!Finish, RRP!Finish, RR!Abandon, RRP!Abandon, RR!Slots, RRP!Slots,
         RR!FirstInLine, RRP!FirstInLine, RR!Waiting, RRP!Waiting,
         RR!Distance, RRP!Distance
<1>3. NoOvertaking <=> RRP!NoOvertaking
  BY DEF NoOvertaking, RR!NoOvertaking, RRP!NoOvertaking, RR!Slots, RRP!Slots,
         RR!vars, RRP!vars
<1> QED
  BY <1>1, <1>2, <1>3, Refinement DEF ImplementsRoundRobin
=============================================================================
