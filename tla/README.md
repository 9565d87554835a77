# TLA+ models of the Linux95 kernel

Linux95 is an x86_64 kernel in C++ with a desktop. It has one CPU, one kernel
stack for the desktop loop, and no kernel threads. What makes it hard to test is
what comes in between: timer, keyboard and mouse interrupts, faults and system calls
of user processes, sectors that fail to be written, pages that run out, frames that
come late, a user who changes in one window what another one shows. These modules
model the parts of the kernel where the order of such events decides whether the code
is right.

`PROJECT.json` lists the components, the runs with their properties, the source
lines behind every definition, the hazards, and the theorems.

## The system and its models

`kernel_main` (`kernel/kernel.cpp`) initialises the subsystems in a line, loads
user images and enters `desktop::run` (`kernel/gui/desktop.cpp`). Each iteration of
the desktop loop polls the network, the resolver, the apps and the input, draws,
and calls `scheduler::run_once`, which gives the CPU to one user process until the
process yields, exits, faults or has used up its quantum.

| Part of the kernel | Modules | Status |
|---|---|---|
| processes, scheduler, context switch, system calls, timer and faults | `UserMode`, `RoundRobin`, `UserModeProofs`, `RoundRobinProofs` | checked, proved |
| physical pages, user address spaces, loading and reaping of images | `PageBitmap`, `UserMemory`, `UserMemoryProofs` | checked, proved |
| keyboard and mouse, from the interrupt to the loop | `Keyboard`, `Mouse`, `Input`, `EventFifo`, `InputProofs` | checked, in part proved |
| window manager, desktop, repainting | `WindowManager`, `Desktop`, `DesktopProofs` | checked, in part proved |
| ARP, ping, the pending UDP datagram | `Network`, `NetworkProofs` | checked, proved |
| DNS resolver and the terminal session that waits for it | `Dns` | checked |
| FAT32 writer and reader over a disk that fails | `Fat32Write`, `Fat32Read`, `FileStore` | checked |
| VFS, file manager, editor, shell | `Vfs`, `FileManager`, `Editor`, `Apps` | checked |

The layers are joined by abstract specifications. `Fat32Write` implements
`FileStore`, and the volume under `Vfs` and the apps is a `FileStore`; `UserMode`
implements `RoundRobin`; the key ring implements `EventFifo`. `Dns` extends `Network`,
`Input` extends `Keyboard` and `Mouse`, `Desktop` extends `WindowManager`, `Apps`
extends `Editor` and `FileManager`, which extends `Vfs`.

The `MC*` modules give the constants their values for TLC; each `.cfg` is one run.

### UserMode and RoundRobin

`UserMode` is the process table and the CPU. `mode` is the control point of the
kernel; `cr3`, `rsp0`, `current`, `stack_top` and `gs` are the registers and the
per-CPU fields by which the kernel finds a process. A page table or a kernel stack
is named by the pid it belongs to. The registers of a process keep only what can be
told apart: whose they are, how far the process has come, whether `rcx` and `r11`
are still its own, and on which side of `valid_sysret_target` they point.

One action is one handler: `LoadImage`, `StartupFails`, `RunOnce` (to the point
where a process is chosen and interrupts are still enabled), `Launch` (from `cli`
to CPL 3), `Int80`, `SyscallEntry`, `SyscallBridge` with each of its ways out,
`TimerIrq` with `handle_user_preempt`, `UserFault`, and `AfterRun` (the rest of
`run_once` with `reap_exited`). Interrupt gates and `FMASK` clear IF, so handlers
run to their end; the timer can hit the desktop loop, `run_once` before `cli`, and
CPL 3.

`RoundRobin` is what the scheduler promises: one process at a time, the next one in
circular order after the last. `ImplementsRoundRobin` maps the table of `UserMode`
to it.

### PageBitmap and UserMemory

`PageBitmap` is `page_bitmap.hpp` with `physical::allocate_page` and `free_page`: the
bitmap, its count and its hint, with the two passes of the search. `UserMemory` adds
who holds the pages. A virtual page is the path `<<pml4, pdpt, pd, pt>>`, and the
tables on the way to it are the prefixes of the path. One step of the loader is one
allocation, because each one may fail: the root, a page, each missing table, the kernel
stack. `cleanup`, `discard_startup_processes` and `reap_exited` give pages back and
record whether `free_page` ever refused one.

### Keyboard, Mouse, Input and EventFifo

`Keyboard` has `Set1Decoder` and `EventQueue`, `Mouse` has `PacketDecoder`, the mouse's
ring and `read_event`. `Input` puts both between the devices, which send bytes, and the
desktop loop, which drains the rings and halts when there was nothing. An interrupt
runs to its end but may come between any two accesses of the loop to what it shares with
a handler, so `EventQueue::pop` and `read_event` are several steps each.
`--g_count` is a load and a store; where the slot of the mouse's ring is read is left
to the build, as `g_events` is not volatile. The counters of the key ring wrap around
at `Width`, 2^32 in the code.

`EventFifo` is the bounded queue that drops the newest event. `KeyboardIsFifo` maps the
key ring to it.

### WindowManager and Desktop

`WindowManager` is the class of that name as operators on a record: slots, focus,
stacking, clamping, dragging, resizing. `Desktop` has the rest of `desktop.cpp` that
keeps state: panel, menu and task buttons, hit tests, the routing of mouse and keys,
the queue of dirty rectangles that turns into the whole screen when it is full,
repainting, and the cursor with the pixels it saved. The screen is a function from
pixels to what they show: a part of a window or of the panel, and whether it is still
what the code would paint now. One action is one mouse event, one key, one app that asks to be repainted, or one
rectangle painted.

### Network and Dns

`Network` is `network.cpp` with its caches: the ARP table with its replacement turn,
the one ping, the one slot for a datagram that waits for an address. `poll` is split
at the frames it takes, as the timer may tick between them. The network answers
anything it has been sent at any time, any number of times, or never. A deadline is
kept as the time that is left. The sequence number of a ping is 16 bits wide; its wrap to
0 is in `start_ping`, but lies beyond `MaxPings`, which `BoundsAssumption` keeps below it:
what happens when a number comes up again after 65,536 pings is neither checked nor proved.

`Dns` extends `Network` with `dns.cpp` and with `ShellSession` and `TerminalApp` as far
as they use it. An iteration of the loop goes through the points "frames", "dns",
"session" and "input". An answer either fails a check of the message or has records, which
are aliases and owners of addresses in any combination; what `parse_response` makes of
them (ambiguous records, names that come back, room for visited names, a follow-up
question) is translated. Which bytes fail the checks of the message
(`dns.cpp:453-546`) is left out. The resolver may have failed to bind its port.

### Fat32Write, Fat32Read and FileStore

`Fat32Write` is all of `fat32_write.cpp`: `touch`, `mkdir`, `remove`, `write_file`,
`copy_file`, `move`. A step is one write that matters to the disk. `job` holds the
local variables, `pc` the call. A failing write may have taken effect or not, and
the device may go away and come back at the next start-up, or fail to be mounted again;
both are bounded by `MaxFaults` and `MaxLosses`. The state between any two steps is what a
loss of power leaves. Sizes are counted in sectors, so the last cluster of a file may be
filled in part; the bytes of the last sector are left out.

A `move` to another directory that fails may leave a file with two names. The model goes
on from there, as the code does. `twins` remembers it: "kept" while both names are whole,
"spoiled" from the call on by which `remove` or `write_file` gives back the chain of one
of them. What is stated of the volume as a whole holds up to that call; the run
`fat32_two_names` shows what the call does.

`Fat32Read` is `fat32.cpp`: `stat_path`, `list_directory`, `read_directory_entry`
and `read_file` as operators over the volume, with the limits on the length of a chain
that keep their loops finite. `ReaderAgrees` compares them with the tree that the volume
shows, in every state that the writer passes through.

`FileStore` is what a user may expect: a tree in which one step changes one name from
one whole version to another. `ImplementsFileStore` maps the tree that the volume
shows to it.

### Vfs, FileManager, Editor and Apps

`Vfs` has the tables of descriptors and directory handles over a `FileStore`. Any call
may fail, and one that changes the volume may take effect all the same; `MaxFaults`
bounds how often. A call that takes clusters may also find the volume full at any time,
as the clusters are not counted here. `FileManager` has the model with its listing, selection and dialogs and
the handlers of the window. `Editor` is `editor_model.cpp`: text, cursor, desired column,
viewport, and the rule for leaving with unsaved changes. `Apps` adds the shell's
commands, loading and saving, and the desktop that hands one event after the other to the
windows. One step is one call to the VFS, because each one may fail; `task` is the handler
that makes it.

## Runs

| Run | What it checks | Bounds |
|---|---|---|
| `usermode` | at every interleaving of system calls, ticks and faults only the chosen process runs, no register names freed memory, GS is balanced, registers survive, nothing panics, each turn has a whole quantum; `UserMode` implements `RoundRobin`; a ready process runs, the desktop gets the CPU back | 3 slots, 3 images, quantum 2; 75,100 states |
| `memory_pages` | each page has one owner, none is given back twice, a ready process is complete, giving up means memory is full | 26 pages, 2 of 4 images, with and without NX; 2,861 states |
| `input_queues` | the key ring is a bounded queue and every key is handled; the decoders keep step with their devices; the mouse's count never promises too much | rings of 2 events, counters modulo 4, 5 strokes, packets or acknowledgements; 198,545 states |
| `mouse_ring` | violated: see below | the same, 4 inputs |
| `desktop_windows` | windows stay on the screen and keep their minimal size; focus, stacking and capture agree; outside the dirty rectangles nothing stale is shown | 3 windows on 8 by 7 units, 4 dirty rectangles, 3 presses, 1 further move, 1 change by an app; 133,711 states |
| `desktop_screen` | violated: see below | the same |
| `network` | nobody waits for an address that is known; the cache is current; a reply is for this ping; the slot is not overwritten | 3 neighbours, 1 remote, 2 MACs, 2 cache entries, 2 pings, 2 datagrams; 639,501 states |
| `dns` | addresses come from an answer to this lookup; two attempts a name; the one datagram slot never makes a lookup fail; every lookup and every ping ends | 3 names, 1 of them asked for, 8 aliases, answers of 2 records, 2 commands, at most 1 ping, room for 2 visited names; 173,150 states |
| `fat32_files` | the volume shows only whole files and readers see nothing else; `Ok` means done; nothing leaks without faults | 4 clusters of 2 sectors, 2 FATs, 2 names, files of 0, 2 and 3 sectors, 1 fault, 1 loss of the device; 316,515 states |
| `fat32_directories` | directories stay well formed, moves keep the file, other names are left alone, lookups and listings are right in between | 4 clusters, 2 FATs, 2 names, 3 slots a cluster, files of 0 and 2 sectors, 1 fault; 257,014 states |
| `fat32_two_names` | violated: see below | the same, files of 2 sectors |
| `apps` | no handle is lost; the dialogs change nothing but what they name, and once; an unmodified text is what the disk holds; listing, cursor and viewport are right; every handler returns | 3 names, 2 volumes, 1 directory handle, 2 descriptors, listings of 2, texts of 4, 5 events, 1 fault; 286,760 states |

In every run but two TLC also looks for deadlock. `memory_pages` does not, because
its processes are all gone at the end and nothing more is loaded; `apps` does not,
because the user may stop after the last event.

Why the bounds are enough to be interesting:

- User mode: slots are free before the images are loaded and after exits, so the
  circular scan wraps and skips; three processes let two conspire against a third; a
  quantum of two ticks has a first and a last one.
- Memory: 26 pages, of which three are reserved, hold both images with everything. The
  kernel has taken any number of them before, so memory runs out at every allocation of
  either image.
- Input: a ring of two is full, empty and half full; counters modulo four wrap around
  after four events. The keys are a letter, a shift and a key with a prefix; one packet
  is ordinary and one has overflowed.
- Desktop: the default bounds overlap as in the code, the File Manager over both others.
  The targets are the panel's buttons, a task button, a menu item, and titles, buttons
  and grips; the pixels that are followed include one of each window, overlap, panel part
  and of the bare desktop. Four dirty rectangles overflow.
- Network: two cache entries for three neighbours force evictions; two pings and two
  datagrams make late answers meet later requests, one of them through the gateway.
- DNS: three names and room for two visited names make chains that fit, chains that loop
  and chains that overflow, the latter in one answer or in the answer to a follow-up
  question. Of the nine aliases `MCDns` leaves out one, as the second and the third name
  differ only in what answers say of them. Two commands make late answers meet a later lookup. A second is one
  tick (`TicksPerSecond`), so that a timeout in seconds and one in ticks fall due at
  the same points; that an attempt may begin in the middle of a second is not explored.
- FAT32: four clusters, of which one is the root, with two copies of the FAT. A file
  needs up to two of them, the second in part, and a directory of two or three slots overflows into another
  cluster, so growth, lack of space and reuse of freed clusters all occur. One fault
  is placed at every write in turn. The file run also loses the device once. The run with
  directories ends a behaviour (`Followed`) where one of two names is given up; the file
  run has no directories, so no move leaves two.
- Apps: three names overflow a listing of two; one directory handle makes the first one
  that is lost visible; a text of four fills up, has two lines and may be empty; the
  Terminal may have no rows at all. A name is a number and a directory is listed in the
  order of its names, where FAT32 lists in the order of its slots; no property depends
  on which order it is.

Symmetry is used for file names and MACs, in runs without liveness.

### What the runs showed

All properties hold except three.

- **Two names** (`fat32_two_names`). When the write that creates the destination of a
  `move` to another directory takes effect but is reported as failed, both names remain
  and share one chain; `fat32_write_test.cpp` expects the two names. A later `rm` of either
  name, or a `write` to it, frees the chain that the other name still leads to, and the
  next file is written into it. The design document for the writable file system asks to "avoid
  freeing clusters that may now be referenced" (lines 335-337) and says "Never free a
  chain if publication may have made it live" (lines 347-348).
- **Painting over** (`desktop_screen`). `redraw_region` paints "Open windows in ascending
  z order." (`desktop.cpp:966`), but only those that the dirty rectangle meets, and
  `draw_window` paints a window whole. A rectangle that meets a lower window and not the
  higher one that overlaps it elsewhere leaves the lower window on top there.
- **The mouse's ring** (`mouse_ring`). "Keep all existing queued input when full."
  (`mouse.cpp:98`): `read_event` decrements `g_count` with interrupts enabled. An
  interrupt between the load and the store queues an event that is never counted, and
  from then on the head runs ahead of what is read and overwrites events that wait.
  `CountNeverAhead`, which is proved, says that the error goes one way only: the count
  is too small and never too large, so no slot is returned twice.

Modelling also met things that are not stated as properties, as the code is as it should
be or nothing in the repository speaks of them:

- The repository's README.md says of the process environment "It has no preemption" (line
  92), but the timer interrupt preempts a process whose quantum is used up
  (`handle_user_preempt`, `process/scheduler.cpp`). The code is right, the text is old.
- The editor takes a read of no bytes for an error (`editor_file.cpp:75`). `Vfs` reads all
  that is asked for or fails, so this branch is in `open_file_read` and never taken.
- After a FAT write that failed between the copies, `allocate_chain` meets the
  cluster whose copies disagree first and returns `Corrupt`, each time.
- While the terminal shows the editor the session is not polled, so a ping that ends
  meanwhile is reported only when the editor is left (`PingIsReported` says so).
- A dirty rectangle that meets only a title bar makes `draw_window` fill the whole
  window, while the app is asked to draw only if its content is met (`desktop.cpp:556`):
  the content stays blank until it is painted again.
- The header of an overflowed mouse packet may be 0xFA, which the decoder takes for an
  acknowledgement (`mouse_helpers.hpp:38`); the packet's other bytes are then looked at
  as headers. `MCInput` sends an overflowed packet with another header.

## Fairness

`usermode` assumes that code between two control points completes (weak fairness
of `LoadImage`/`StartupFails`, `RunOnce`, `Launch`, `AfterRun`, `SyscallBridge`): the
desktop loop never waits for anything and calls `run_once` in each iteration. It
assumes strong fairness of the timer interrupt at CPL 3: the PIC latches an interrupt
while IF is clear, so a process that is at CPL 3 again and again is hit again and
again. Nothing is assumed of user processes.

`dns` assumes that the desktop loop goes round and that the timer ticks. Nothing is
assumed of the network: the properties hold though nobody ever answers.

`input_queues` assumes that the loop goes on when the processor is not halted, and that the
timer, which `pit.cpp` runs all the time, ends a halt. Nothing is assumed of the devices.

`apps` assumes that a handler that has begun takes its next step: it runs in the one
thread of the desktop and waits for nobody. Nothing is assumed of the user.

## Proofs

TLAPS checks all proofs; no step is left open. They hold for every value of the
constants that satisfies the named `ASSUME`s of the modules, which TLC evaluates
on the instances: sizes are positive, addresses inside and outside the subnet differ,
tables and mapped pages are different places, an image maps no page twice, the range of
the ring's counters is a multiple of its capacity and at least twice as large, a window of
the minimal size fits below the panel.

**`RoundRobinProofs`** shows that the abstract scheduler runs one process at a time
(`RoundRobinOneAtATime`) and that no process gets two turns while another waits
(`RoundRobinNoOvertaking`), by arithmetic on the circular distance from the last slot.

**`UserModeProofs`** shows all safety properties of `UserMode` and that it implements
`RoundRobin`. The properties are not inductive by themselves. `Bookkeeping` adds that a
slot has a pid exactly while it is used, that only the process `run_once` is about to
reap is `Exited`, that saved registers belong to the process in the slot, and that the
quantum is whole and the context resumable between the choice and `Launch`. There is
one lemma per action; `Refinement` then maps each action to a step of `RoundRobin`
or to none, and `NobodyOvertaken` carries `RoundRobinNoOvertaking` over.

**`NetworkProofs`** shows the properties of `Network`, for any cache size and any
number of hosts. The invariant is strengthened by `EntriesOfNeighbours` (the cache
holds only addresses of the subnet), `PingHasTarget` (a ping under way has an address) and
`Numbered` (what is on the wire has numbers already given out; without it a reply could
answer a ping to come). The central lemma `LearnCache` says what a cache contains after
`learn`.

**`UserMemoryProofs`** shows `PagesSound` and `GivesUpOnlyWhenFull` for any
amount of memory, any images and any number of processes. The invariant `MInv` adds
`Progress`: at each point of `load_process_image`, the pages in `user_pages` are those
mapped so far and at most one more, and no virtual page still to come is mapped. Without
it the cleanup, which frees `user_pages` and then the tables, could not be seen to free
each page once. The lemmas `Allocated`, `Exhausted` and `Freed` say what the allocator
does, with the count of free pages as a cardinality.

**`InputProofs`** shows that the key ring implements `EventFifo` (`KeyRingImplementsFifo`)
for any capacity and any width of the counters. The invariant `RingInv` says that no more
events wait than there are slots, and that the locals of `pop` agree with the ring: the tail
it has loaded is still the tail, and the event it has copied is still in the slot. This
holds because only `pop` moves the tail and `push` never writes a slot in use. The
arithmetic of the wrap-around is in lemmas on `%`. `CountStaysBehind` shows
`CountNeverAhead` with `CountInv`, which bounds the count, and the value that `--g_count`
has loaded, by the number of events that wait, at each point of `read_event`.

**`DesktopProofs`** shows `WindowsFit` for any screen, default bounds, number of windows
and movement of the pointer (`WindowsAlwaysFit`). Clamping alone does not give it, as a
resize computes the new size from the bounds at its start. The invariant adds `Pointer`: the
window that is dragged or resized is open, the bounds at the start of the gesture fit, and
during a resize the upper left corner has not moved; and that ids are unique, so that the
window found by its id is the one that was grabbed.

Only model-checked are: the liveness properties (`ReadyRuns`, `HostReturns`, `KeysHandled`,
`LookupEnds`, `PingIsReported`, `HandlersReturn`), which need fairness; `ReadyIsWhole` of
`UserMemory`; `DecodersInStep`; `FocusSound` and `NoGhosts`, which relate the numbering of a set of
windows and every pixel to the whole history of events; all of `Dns`, of `Apps` and of the
FAT32 modules, where walking a chain or a directory is a recursion over the data, and what
a recursive definition computes for every input is out of the prover's reach.

## Mutants

Each module has, before a definition, variants of it with a plausible mistake: a guard
dropped, an order swapped, an end off by one. `PROJECT.json` pairs each property of each run
with one of them, for which TLC finds the property violated. They are used nowhere
else.

## What is not modelled, and why

| Part | Source | Why |
|---|---|---|
| RTL8139 driver | `drivers/rtl8139*.{cpp,hpp}`, `pci/pci.cpp` | what its rings contain is decided by the card, whose behaviour is not in the repository; `Network` knows a card that takes or refuses a frame |
| ATA port protocol | `storage/ata.cpp` | polls a device in a straight line; what matters above it, a write that fails and may have taken effect, is in `Fat32Write` |
| Kernel paging and heap | `memory/paging.cpp`, `virtual.cpp`, `memory.cpp`, `heap.cpp` | runs once at boot, on one thread and before any process: `virtual.cpp` builds tables in a line, `map_page` serves only the framebuffer and the self test, the heap only moves its end |
| ELF header checks | `user/elf.cpp` (`inspect_elf64`, `build_load_plan`) | conditions on the bytes of one header, without state; `UserMemory` takes any image that passes them |
| The boot sector, 8.3 names, paths as text | `filesystem/fat32.cpp`, `fat32_helpers.hpp`, `vfs.cpp` | conversions without state; a name is a value, a path a sequence of names |
| Wire formats | `net/dns.cpp` up to the records, `net/*.cpp` headers and checksums | parsing without state; a message that fails its checks is a failure or is not there |
| UDP bindings | `net/udp_bindings.cpp` | outside its self tests the kernel makes one binding, the resolver's, and never removes it |
| Set-up of PS/2, PIC, PIT | `arch/ps2.cpp`, `pic.cpp`, `pit.cpp` | sequences of port accesses before the loop starts |
| Command line, scrolling text | `terminal/shell.cpp`, `gui/terminal_model.cpp` | text layout; the commands themselves are in `Apps` and `Dns` |
| Rendering, fonts, system information | `graphics/*.cpp`, `gui/system_info_app.cpp`, `terminal/vga.cpp` | pixels and text, no state that a property would be about |
| Boot loader, entry code, self tests | `boot/*.asm`, `entry.asm`, `*_self_test.cpp` | straight lines of instructions, and test code |

Two remarks on the RTL8139 driver for whoever can test it against the card: it sets the
WRAP bit and reserves room behind the receive ring, yet reads the ring modulo its size; and
`transmit` refuses while the status of its slot reports an abort or an underrun, and does
not go on to another slot, so it refuses for as long as the card keeps that status.
