# A verification of the ceblar-20 kernel

ceblar-20 is a small 32-bit x86 kernel for one CPU. This directory holds TLA+
models of its parts, the TLC configurations that check them on small instances,
and proofs, checked by TLAPS, for every size: of invariants of the process table,
the ready list, the owners of address spaces, the descriptor tables, the interrupt
controllers, the rings, the consoles and signal delivery, and of one refinement.

## The system and its parts

| Part | Source | State | Operations | Module |
|---|---|---|---|---|
| process table | `kernel/process.c` | `processes[]`: state, generation, parent, wait target, futex key and deadline, saved frame | create, fork, exit, kill, wait, signal, futex wait/wake, poll timeouts | `Process` |
| scheduler | `scheduler/round_robin.c` | `current`, `ready_head` and the `next` links | enqueue, next_ready, timer tick, block, yield | `Process`, `ReadyList`, `ReadyQueue` |
| trap frames | `arch/x86/isr.S`, `isr.c`, `include/isr.h`, `user_mode.S` | kernel stacks, TSS | 49 stubs, `isr_common`, dispatch, iret | `IsrFrame` |
| signals | `kernel/process.c`, `kernel/syscall.c` | pending, mask, handlers, saved frame | sigaction, kill, delivery, sigreturn, exec | `Signals` |
| physical memory, DMA | `mm/pmm.c`, `drivers/dma/dma.c` | bitmap, reference counts | alloc, retain, free | `Pmm` |
| virtual memory, exec | `mm/vmm.c`, `kernel/elf.c` | address spaces, entries, areas, CR3 | fork, exec, mmap, munmap, page fault, destroy | `Memory`, `PrivateMemory` |
| heap | `mm/heap.c` | block list, mapped pages | kmalloc, kfree, krealloc | `Heap` |
| descriptors | `fs/vfs.c` | 8 descriptors per process | open, read, write, seek, close, inherit, release | `Vfs` |
| FAT32 | `fs/fat32/fat32.c` | volume | mount, open, read | `Fat32` |
| journal | `fs/journal.c` | log slots, sequence | write, replay | `Storage` |
| block layer, virtio, ATA | `drivers/block.c`, `virtio_blk.c`, `ata.c` | rings, registers, the call in progress | submit, poll, time out; the device answers | `SectorIo`, `Devices` |
| PCI, disk probes | `drivers/pci/pci.c`, `ahci.c`, `nvme.c`, `nic.c` | registered devices | find, size a BAR, handshake, register | `Devices` |
| boot, PIC, keyboard, timer | `kernel/main.c`, `arch/x86/isr.c`, `keyboard.c`, `pit.c` | masks, requests, handlers, key ring | the steps of kmain, IRQs, getc | `Platform` |
| ACPI, APIC, I/O APIC, SMP | `acpi.c`, `apic.c`, `ioapic.c`, `smp.c` | controllers, overrides, redirection entries | parse, program | `Acpi`, `Platform` |
| sockets, loopback, checksums | `net/net.c`, `kernel/syscall.c` | sockets, packet ring | socket calls; pure functions | `Loopback`, `Checksum` |
| modules | `modules/module.c` | registered and loaded modules | register, load, unload | `Modules` |
| consoles | `vga.c`, `serial.c`, `kprintf.c` | cursor, FIFO | print, scroll, with preemption | `Console` |

`PROJECT.json` lists each part with what is left out of it, and the hazards of
the code, line by line, with the properties that cover them.

How the parts interact: an interrupt, an exception or `int 0x80` enters through
a stub in `isr.S`; `interrupt_dispatch` calls the scheduler for a tick and
`syscall_from_interrupt` for a call; both return the frame through which the
CPU leaves the kernel, which may be the frame of another process. Every gate is
an interrupt gate, so a handler is never interrupted on the only CPU (page
faults excepted, and they do not switch). This is why one action is one whole
handler, in `Process` and in the modules of the other parts alike, and why the
spinlock of the heap and of the page allocator never spins. The exceptions are
modelled step by step: the workers print with interrupts on (`Console`), the
devices work while the kernel polls (`SectorIo`), keys arrive while kmain runs
(`Platform`), and power may fail at any step (`Storage`).

## Modules

**Process** is the process table, the scheduler and the system calls that
change either. The variables are the fields of the PCB under their own names
(`allocated`, `generation`, `state`, `parent_pid`, `wait_for_pid`,
`user_mode`, `futex_key`, `interrupt_frame`), the ready list as the sequence
`ready`, and `current`. Three variables have no counterpart in memory: `cpu` is
the process that really executes, `context` says where the registers of a
process are, and `machine` is down after a panic, a hang or a jump to nowhere.
`cpu` and `current` differ when nothing is ready: the kernel then makes the
idle PCB current and returns to the process that has just blocked.

| Action | Code |
|---|---|
| `TimerTick` | `process_poll_timeouts` and `scheduler_timer_tick` |
| `Exit`, `Kill`, `WorkerExit` | `process_exit_with_status` from SYS_EXIT, from signal 9, from `worker_body` |
| `Fork` | `process_fork`, with success, no address space, and failed clone |
| `WaitReap`, `WaitBlock` | `process_wait` of a zombie, of a live child |
| `Signal` | `process_send_signal`, except 9 |
| `FutexWait`, `FutexWake` | `process_futex_wait` when the word has the expected value, `process_futex_wake` |
| `Yield` | SYS_YIELD: `rr_tick` and `context_switch` |
| `Sleep` | SYS_SLEEP: `hlt` with interrupts off, which nothing ends |
| `OtherCall` | any call that fails or leaves the table alone |

Abstractions: exit codes, credentials, names, descriptors and address spaces
are left out. A deadline is the number of ticks left. The value of a futex word
is left out: a wait on the wrong value fails and is an `OtherCall`. Programs
may make any call in any order. `Enqueue` is a set with one element, because
"in slot order" is stated and not computed; this keeps recursion out of the
module, and the proofs free of induction.

**ReadyList** is the same ready list as the code has it, `ready_head` and
`next`, with `enqueue` and `next_ready` as loops. **ReadyQueue** is what the list promises:
joining at the end, leaving at the front, and the cut that a write of
`next = 0` makes when a slot is freed or reused while it is queued. ReadyList
implements ReadyQueue under the mapping `queue <- List`. Its one assumption,
that `enqueue` is never called for a queued process, is what theorem
`ReadyListSound` of `ProcessProofs` says of the callers.

**IsrFrame** is the trap frame, word by word: what the CPU pushes, what each
stub pushes, `pusha`, the layout of `registers_t`, and the way out through
`popa`, `add esp, 8` and `iretd`. Who runs next is left open: a tick or a
system call may switch to any process. A page fault may occur inside a handler.
The segment registers ds and es, which the stubs neither save nor load, are left
out.

**Pmm** has the allocator as a record and each call as an operator on it.
**Memory** puts address spaces over it: a space maps user pages to entries
(frame, write bit, copy-on-write bit) and has a set of areas. Its actions are
fork, exec of an executable, exit, kill, wait, mmap, munmap, stores, and the
page-fault handler with its two branches. Page contents are values, so that
**PrivateMemory** can say what a program may rely on: its memory is its own. Three
things in the code end that.

- A demand fault gives the frame it has just mapped back to the allocator
  (`mm/vmm.c:19`). `RefsCountMappings`, `SharedIsCow` and `PrivateUntilDemand` hold
  until the first one is resolved, and say so; no property judges what follows.
- A segment in a page that is mapped already gets a second frame, and the first one
  is lost (`kernel/elf.c:9`); the history variable `lost` names these frames.
- mmap keeps the flags it is given as they are (`kernel/syscall.c:18`), and a demand
  fault combines them with the address of the frame. An area carries its flags as
  a pair: whether PAGE_COW is among them, and which frame the entry names then. If
  that is another frame than the one taken, `strayed` is set and the model ends,
  because a store may reach anything from there on. `UsedCountExact` holds up to
  there.

The self-tests of kmain are run in `Init`, which has the states in which the first
process got its stack and its program; otherwise kmain panics (`kernel/main.c:37`)
and nothing runs. **SeqFold** is the fold with which Memory, Modules and Checksum
write loops over arrays. It is SequencesExt's `FoldLeft`, apart from the rest of
that module, whose definitions would burden every proof about Memory and Platform.

**Heap** is the block list with byte addresses. `InsideHeap` states where merge
joins two blocks that are not neighbours in memory. krealloc copies as many bytes
as the old block has. When the new block is smaller, which `HeldApart` shows to
need a size that rounding takes past 2^32, the copy goes over the header behind it:
`overrun` is set, nothing is freed, and the model ends.

**SectorIo** is one sector call with the driver and the device as two
processes, for virtio and for ATA. A call may time out, and the answer may come
during a later call. The device reads the descriptors and rings as the driver lays
them out: that `virtio_blk.c:24` has descriptors of 12 bytes and rings of 8 entries
is taken as given, and the model says nothing about a device that expects another
layout. **Storage** is the journal over it, with the boot order of
kmain, replay, journalled and direct writes, and power failures. A record does
not hold the last 20 bytes of its sector, so a sector has a body and a tail. The
journalled write is `fat32_write_sector`, the only caller of `journal_write`, which
has no caller itself: it is checked as the interface it offers.
The properties hold up to the first timeout, which neither driver recovers from.

**Fat32** has the read side of the file system as operators on a disk, in units
of what the code reads at once. **Vfs** has the descriptor tables and the raw
disk, with the processes that use, inherit and release them. In a raw write any
sector may fail when it is read and when it is written back, and a write that is
reported as failed may have reached the disk or not. `PrivateTables` and
`DeadHoldNothing` are about the descriptors for files, from 4 up.

**Platform** is kmain step by step with interrupts off, then the running system:
the PIC with requests, masks and in-service bits, the keyboard and its ring, the
timer. SYS_SLEEP halts in an interrupt gate (`ksleep_ms`): interrupts stay off and
nothing but the devices moves any more (`Halted`, `hlt`). It composes **Acpi** (what the tables say, what the I/O APIC is told),
**Devices** (PCI, the handshake with a virtio disk, registration), **Modules**,
**Loopback**, **Checksum**, **Console** and **Signals**. The last five share no state
with each other; a machine of the instance gives the system one kind of work,
so that they do not multiply.

**Signals** is one process, its PCB fields and the frame with which it goes on.
Delivery is at the end of each system call, as in `syscall_from_interrupt`.
`entered` is the history of the frames that handlers interrupted. A process that
blocks while nothing is ready runs on as idle (`mode`): its calls then meet the
PCB of idle, so that a sigreturn does nothing and no signal is delivered, until a
tick gives the CPU to somebody else or a timeout ends the wait.

**Modules** has module_load_all, which stops at the first module whose dependency
or initializer fails, and module_unload. `events` is the history of initializers,
exits, loads and unloads that `ModulesStartOnce` is stated over.

**Console** splits `vga_putc` and `serial_write_n` where a tick may come in
between. The kernel is built without `-O`, so that every use of `row` and `col` is a
load or a store of its own: each is a step, with the value in a register (`regs`)
between them. What `++col >= 80` compares, the value stored or the variable, is
left to the compiler.

Four modules are checked beyond the present callers, because the interface is
what the code offers to others: lists of modules other than the one example,
repeated loads and unloads (`Modules`); krealloc, and more than one block at a
time (`Heap`); taking packets out of the ring (`Loopback`); journalled writes
(`Storage`).

The theorems are in modules of their own: **ProcessProofs**, **ReadyListProofs**,
**OwnersProofs** (the address spaces of Memory), **VfsProofs**, and for Platform
**RingProofs** (packets and keys), **WorkProofs** (consoles and signals) and
**DeliveryProofs** (the interrupt controllers). **LeastNumbers** has the lemmas on
least and largest numbers that several of them use. The modules `MC...` are the instances for TLC. Operators marked "Mutant" are deliberate errors: with one of
them in the place of the definition below it, the property it stands for fails.

## Runs

| Run | Instance | Shows |
|---|---|---|
| `process_table` | 4 slots (a worker, init, a program from disk or not, free ones), pids reused at once, no futexes | the six invariants of the table |
| `process_live` | 3 slots, one futex word, timeouts of up to 2 ticks, every call but kill | `QueuedRuns`, `TimedWaitEnds` |
| `ready_list` | 4 PCBs | the pointer list is a list, implements the queue, its loops end |
| `isr_frame` | 2 user processes, 1 worker, vectors with and without error code, IRQ0, IRQ1, the system call, one nested fault | frames tell the truth, code resumes as it was interrupted |
| `memory` | 10 frames with a hole and the driver's buffers, 3 processes, 3 spaces, 3 pages (one without a table), ranges of 1 and 3 pages, mmap with plain flags and with PAGE_COW and the lowest frame bit, 3 system calls besides faults and switches | used frames are counted, CR3 and spaces belong to who uses them; until a demand fault every mapping is counted, shared pages are copy-on-write and memory is private |
| `storage` | 2 journal slots, virtio or ATA or both, 2 writes, 2 crashes, 2 timeouts, 2-bit ring indices | calls answer truly and return, sectors are never mixed, what was acknowledged survives |
| `files` | 4 disks (partitioned, unpartitioned, no FAT, none), chains out of order, sectors that cannot be read or written, 3 process slots, 3 calls | reads and raw writes are exact, tables stay with their process, the dead hold nothing |
| `platform` | 7 firmwares with keys, one with 120 combinations of devices, memory maps and drives and with each other kind of work, 5 keys, ring of 4, 5 packets, 4 module calls, all packets of up to 5 small bytes, 2 writers on a 2 by 2 screen, 2 signals with 4 calls | see the properties in `PROJECT.json`: keys, delivery, packets, disks, modules, checksums, consoles, handlers |
| `heap` | 144 bytes and up to 2 pages of 64 (a third cannot be mapped), 6 calls of 5 sizes | blocks are apart, no byte is lost, where a block may leave the heap |
| `exit_wakes_parent` | as process_table, all calls | violated: see below |
| `ready_is_not_lost` | yield, exit, signal, futex wait | violated: see below |
| `blocked_does_not_run` | all calls | violated: see below |

Bounds. Four slots give a process, its child, its parent and a bystander, so
that a slot can be freed and reused while two others are waiting or queued.
`GenMax = 1` makes every reuse of a slot a reuse of its pid, the state the real
kernel reaches after the generation wraps: it is the worst case for stale pids,
and the theorems cover the other values. Futexes are in `process_live`; the
theorems cover them together with everything else. A list of four has a head, a
tail and something between, with one process outside. Two user processes and a
worker give every pair of rings a switch can connect.

In `memory` three calls are enough for a fork with an exec, a wait or an unmap
after it on either side; two free frames are few enough for every allocation to
fail in some state. fork takes a second space for a moment, so that with three
spaces the fork of a fork always fails for want of one: three processes that share
one page are not reached. In `storage` two writes and two crashes give a replay that is
interrupted and tried again with records of two boots in the log. In `files`
the longer file has two clusters in reverse order and ends inside a sector. In
`platform` the rings wrap around and fill up; the sizes of words and registers
are scaled down (base 3 for bytes, 8 bits for a BAR, 64 ports). Six heap calls
are enough to fill the array, grow, free on both sides and allocate again. Every
count of calls is a guard of the module and a constant marked "bound".

Deadlock checking is off where the system may stop: the machine goes down or
halts (`Process`, `IsrFrame`, `Memory`, `Heap`, `Vfs`), or the bound on calls is
reached (`Storage`). It is on in `ReadyList` and `Platform`.

Fairness. `FairSpec` of `Process` assumes only that IRQ0 keeps coming (weak
fairness of `TimerTick`): user code and workers run with interrupts on. No
program is assumed to make progress. `ReadyList` assumes that a loop that has
begun goes on: it runs with interrupts off. `Storage` assumes that the kernel
goes on, alone on the CPU, and that polling loops count down to their timeout;
nothing is asked of the device. `Platform` assumes that kmain goes on, that a
timer request is served, and that a keyboard request is served in the end
although the timer has priority (strong fairness of its handler): between two
ticks there are 10 ms. Fairness asks nothing of programs, and a program may sleep:
`KeysAreRead` says that a key is read or that the machine has halted.

`QueuedRuns` is checked without kill. With it the property is false for a
reason the ready list makes plain: a process killed while queued and reaped
before it is popped has its `next` cleared and takes the rest of the list with
it. Both liveness properties of `Process` let the machine go down: SYS_SLEEP
hangs it, and SYS_YIELD may switch to a process that `context_switch` cannot
resume.

### Where code and documents disagree

- `exit_wakes_parent`: `docs/v05-status.md` says that SYS_WAIT "is woken by a
  matching child exit". `process_exit_with_status` looks for the waiter among
  the children of the process that exits. The parent stays blocked.
- `ready_is_not_lost`: `docs/contributing-scheduler.md` asks that "a READY
  process is not lost when a running process yields". A process that was alone
  for one tick stays READY without being queued. If another process is woken
  before the next tick, the first one never runs again.
- `blocked_does_not_run`: `docs/v05-status.md` says that SYS_WAIT "blocks
  through the interrupt-frame scheduler path". When nothing else is ready the
  call returns to the process that blocked or exited, which runs on as pid 0.

## Proofs

Every theorem holds for all values of the constants that satisfy the assumption
named with it. The assumptions are in the modules that declare the constants, and
TLC evaluates them on the instances.

| Theorem | States | Assumption |
|---|---|---|
| `Invariance` | the inductive invariant `Inv` of Process | `ConstantsAssumption`: at most 255 slots, among them the workers and a process |
| `TypeCorrect` | `TypeOK` | same |
| `ReadyListSound` | `NoDuplicates`: nobody is queued twice | same |
| `QueuedSound` | `QueuedIsWaitingToRun`: neither the current process nor a blocked one is queued | same |
| `CurrentSound`, `FramesSound`, `WaitSound` | `CurrentIsOnCpu`, `FrameMatchesContext`, `WaitTargetExists` | same |
| `ListSound` | `IsList`: the links end | `ListAssumption`: finitely many PCBs, none of them null |
| `QueueSound` | ReadyList implements ReadyQueue (`ListIsQueue`) | same |
| `LoadedSound`, `OwnersSound` | `LoadedIsCurrents`, `SpacesAreOwned` | `MemoryAssumption`: processes and spaces are numbered from 1 on |
| `DeadSound`, `TablesSound` | `DeadHoldNothing`, `PrivateTables` | `VfsAssumption`: slots are numbers, among them those of kmain's processes |
| `PacketsSound` | `PacketsInOrder` | `LoopbackAssumption`: the ring has a place |
| `KeysSound`, `DeliverySound` | `KeysInOrder`, `OneDeliveryPath` | `PlatformAssumption`: the ring has a place, tables have a length |
| `ConsoleSound` | `ConsoleRecovers` | `ConsoleAssumption`: fewer workers than places in the FIFO |
| `SignalsSound` | `HandlersReturn` | `SignalsAssumption`: signals are positive numbers |

**Process.** `Inv` adds three facts to the five properties. `CurrentNotBlocked`:
between two handlers the current process is not blocked. `PidsInUse`: only an
allocated slot holds a blocked process, and an allocated slot has a generation
other than 0. `CpuInv`: the process on the CPU has a slot and its registers are on
the CPU; if it runs as idle, it left a frame when it blocked. Without the first, a
wake-up could queue the current process; without the second, a fork could take
the slot of a waiting process; without the third, nothing is known of the frame
of a process that runs as idle. `EnqueueIsGood` and `PoppedIsGood` say which
processes may be added to a list without duplicates and what is left after a pop.
`IretIsSound` and `ReturnIsSound` say that whichever way a handler leaves the
kernel, the scheduler's part of `Inv` holds again. Each action then only has to
show what it asks of them, and that the targets of waits survive (`TargetsStay`,
`ExitKeepsTargets`). `PidInjective` (a pid determines slot and generation) is what
makes a wait target unique.

**ReadyList.** `Chain(s, head, next)` says that sequence `s` is what one meets from
`head` on; there is at most one, and `List` is it. `ListInv` says that there is one
and that, while `enqueue` walks, its process is outside and its cursor inside. Each
step takes a chain to the chain with a process appended, with the first one taken,
cut behind a process, or unchanged, and these are the steps of ReadyQueue.

**Memory.** `OwnInv` says that used spaces and processes that are not free belong to
each other one to one, that CR3 has the space of the current process or the
kernel's, and that the current process is alive. The last part is in neither
property: it tells the process on the CPU from the zombie whose space a wait
destroys and from the free slot that a fork fills. `LeastNatural` gives the slots
that new_pcb and vmm_create_address_space find. What the frames hold and how they
are counted does not matter here.

**Vfs.** `TablesInv` ties `active` to the process that runs, and says that a
process that can make a call is alive unless it runs as idle, and that who has a
file open is alive. The first is what makes `PrivateTables` hold: every call of
vfs.c works on the table of `active`.

**Platform.** One invariant per part, because they share no state but the boot's
program counter. `NetInv` and `KeyInv` give the places of a ring modulo its size;
`KeyInv` also says that a scan code whose interrupt is still requested is not in
the ring yet, without which a request that outlives its byte could store a key
twice. `ScreenInv` says which writer will bring the cursor back: for the column one
that is about to clear it, or one that is about to test it and whose register holds
the column that is there now, since either value it may compare is then beyond the
edge. `PortInv` counts the bytes in the FIFO together with the writers that found
it empty. `SignalInv` says where a handler that is active goes back to.
`DeliveryInv` says what kmain has set up at each of its steps, and that the
redirection entries are those of `ioapic_init`, which masks what it does not route.

Many leaves name Zenon: they need no arithmetic, and on large contexts Zenon is
the faster prover.

Only model-checked:

- Liveness (`QueuedRuns`, `TimedWaitEnds`, `LoopsEnd`, `CallsReturn`,
  `KeysAreRead`) and whatever rests on fairness, which is out of the prover's reach.
- The counts and contents of frames: `RefsCountMappings`, `SharedIsCow`,
  `UsedCountExact`, and that Memory implements PrivateMemory
  (`PrivateUntilDemand`). They rest on what the folds over page tables compute.
- What recursive definitions compute for every input: reads along a cluster
  chain and raw writes (`ReadIsExact`, `RawWriteIsExact`), the checksums
  (`PacketsChecked`), the block list of the heap (`InsideHeap`, `HeldApart`,
  `Accounted`).
- The journal and the drivers (`Storage`, `SectorIo`), where the properties range
  over power failures and late answers together and the invariant that would
  carry them, about every record a replay may meet, is not worked out.
- The trap frames (`IsrFrame`), which are checked word by word for every vector
  class and have no parameter worth a proof but the number of processes.
- `DisksAreUsable` and `ModulesStartOnce` of Platform, about lists of devices and
  modules that a search goes through.

## Behaviour that is modelled and that no property judges

The models do in these cases what the code does, and no document says what it
should do:

- SYS_YIELD to a process that was suspended by the timer, and SYS_SLEEP, take
  the machine down.
- What a request that timed out does to the next one when its answer comes late,
  and what a frame that a demand fault gave back does to its next owner.
- The child of a fork is READY and is never given to the scheduler.
- A signal that is pending when a futex wait blocks is delivered into the frame
  that waits: the result of the wait ends up in the handler's eax.
- After an exec that a signal met, `signal_active` stays set.
- mmap accepts a range that the page tables cannot reach; the first access
  panics. So does a heap that outgrows its page table.
- Sockets belong to no process and are not closed at exit; the exit function of
  a module that was never loaded may run.
- An open that fails leaves `kind = 2` in the descriptor, which is not named.

## Not modelled

- `timer_uptime_ms` and its wrap after about 12 hours: deadlines are remaining
  ticks.
- The contents of data: what is printed, the meaning of scan codes, ELF and ACPI
  header fields beyond "accepted" or not, credentials.
- Code without a caller: `shell_run`, `fat32_readdir`, `journal_clear`,
  `process_create_thread`, `ioapic_enable_irq`, `ioapic_disable_irq`,
  `percpu_irq_enter`, `percpu_irq_leave`, `net_tcp_validate`,
  `scheduler_register` for a second scheduler.
- `kernel/percpu.c`, which mirrors `current`; `kernel/spinlock.c`, which on one
  CPU is the interrupt flag; the descriptor tables of `gdt.c`; the entry code of
  `boot.S`.
- User programs as such: every model lets a program make any call at any time.
- Disks whose cluster chains are circles, which `scan_root` would follow for
  ever.
