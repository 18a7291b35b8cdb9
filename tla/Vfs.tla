-------------------------------- MODULE Vfs --------------------------------
(***************************************************************************)
(* The descriptor tables of fs/vfs.c over Fat32, with the processes that   *)
(* use them: the calls a program makes through userspace/libc/syscalls.c   *)
(* and kernel/syscall.c, and what fork, exit, wait and a switch do to the  *)
(* tables.                                                                 *)
(*                                                                         *)
(* A slot of the process table is named by its number, which is all that   *)
(* vfs.c uses of a pid.  Slot 0 holds a worker, which makes no calls, Boot *)
(* holds init and Disk what disk_exec_smoke loads, if it is there.  A      *)
(* forked child is never put on the ready list and does not run.  A        *)
(* process that blocks or exits when nothing is ready keeps running:       *)
(* current is then Idle, and active still its slot.  Which process is      *)
(* ready is left open.                                                     *)
(***************************************************************************)
EXTENDS Fat32, SequencesExt

CONSTANTS
  Slots,     \* of the process table, from 0 on
  LastFd,    \* descriptors are 0 .. LastFd (7)
  Images,    \* disks the machine may have; a disk without sectors is no disk
  BadSets,   \* sectors that may fail during a call
  Contents,  \* what the files hold: by 8.3 name, a sequence of bytes
  Paths,     \* what programs open: "hda", a file below hda/, anything else
  ExecMax,   \* EXEC_MAX_IMAGE, in units
  Lengths,   \* bound: lengths of transfers
  Values,    \* what programs write
  RawEnd,    \* bound: raw writes stay below this unit
  MaxCalls   \* bound: calls that concern files

Worker == 0
Boot == 1
Disk == 2
Idle == -1
NoParent == -1
Zero == [tag |-> "zero"]  \* a unit of zero bytes
Gone == -2  \* the pid of a parent that was reaped
RawFd == 3
FileFds == 4 .. LastFd

ASSUME VfsAssumption ==
  /\ Slots \in SUBSET Nat /\ {Worker, Boot, Disk} \subseteq Slots
  /\ LastFd \in Nat

VARIABLES
  disk, volume,  \* the disk, and the statics of fat32.c
  files,         \* files[slot][fd]; flags, which nothing reads, are left out
  active,        \* the slot of active_pid
  sector,        \* vfs.c's sector buffer
  state,         \* of a slot: free, live or zombie
  parent,        \* the parent's slot; NoParent is parent_pid = 0
  started,       \* slots that were put on the ready list
  cpu, current,  \* who executes, and who the scheduler thinks does
  machine,       \* up, or down after a panic
  reply,         \* history: the last read of a file or write of the disk
  calls

procVars == <<state, parent, started, cpu, current, machine>>
vars == <<disk, volume, files, active, sector, procVars, reply, calls>>

Closed == [name |-> FALSE, kind |-> 0, position |-> 0, fat |-> NoFile]
NoReply == [call |-> "none", ret |-> 0, data |-> <<>>, from |-> 0, clean |-> TRUE,
            asked |-> 0, fat |-> NoFile]

-----------------------------------------------------------------------------
(* vfs_open on table t.  A file that is not found leaves kind at 2. *)
FreeFds(t) == {fd \in FileFds : ~t[fd].name}
OpenFat(t, fd, f) ==
  [t EXCEPT ![fd] = [name |-> f # NoFile, kind |-> 2, position |-> 0,
                     fat |-> IF f # NoFile THEN f ELSE @.fat]]
vfs_open(t, path, bad) ==
  LET fd == Min(FreeFds(t))
      f  == fat32_open(volume, disk, bad, path)
      OnFat == path.type = "fat" /\ volume.mounted
  IN  IF path.type = "hda"
      THEN [ret |-> IF t[RawFd].name THEN RawFd ELSE -1, table |-> t]
      ELSE IF FreeFds(t) = {} THEN [ret |-> -1, table |-> t]
      ELSE IF OnFat
      THEN [ret |-> IF f # NoFile THEN fd ELSE -1, table |-> OpenFat(t, fd, f)]
      ELSE [ret |-> fd,
            table |-> [t EXCEPT ![fd].name = TRUE, ![fd].position = 0, ![fd].kind = 0]]
vfs_close(t, fd) ==
  IF fd \in FileFds /\ t[fd].name
  THEN [t EXCEPT ![fd].name = FALSE, ![fd].kind = 0] ELSE t

(* vfs_read of the raw disk, sector by sector, up to the first that fails. *)
RawStop(bad, from, to) ==
  Min({k \in from .. to - 1 : k \div SectorSize \notin Readable(disk, bad)} \cup {to})
vfs_read(t, fd, n, bad) ==
  LET from == t[fd].position
      to   == RawStop(bad, from, from + n)
      r    == fat32_read_file(volume, disk, bad, t[fd].fat, n)
  IN  IF fd = RawFd /\ t[fd].name
      THEN [ret |-> IF to = from /\ n > 0 THEN -1 ELSE to - from,
            data |-> [i \in 1 .. to - from |->
                       disk[(from + i - 1) \div SectorSize]
                           [((from + i - 1) % SectorSize) + 1]],
            buffer |-> IF to = from THEN sector ELSE disk[(to - 1) \div SectorSize],
            table |-> [t EXCEPT ![fd].position = to]]
      ELSE IF fd \in FileFds /\ t[fd].kind = 2
      THEN [ret |-> r.ret, data |-> r.data, buffer |-> sector,
            table |-> [t EXCEPT ![fd].fat.position = r.position]]
      ELSE [ret |-> -1, data |-> <<>>, buffer |-> sector, table |-> t]

(* Mutant: only the offset is looked at. *)
PartialStart(off, take) == off # 0
(* vfs_write of the raw disk: w is the state of the loop.  A sector that   *)
(* is not overwritten entirely is read first.  The reads of some sectors   *)
(* may fail and the writes of some; of a write that failed the disk may    *)
(* have stored the sector all the same (landed), as when only the flush or *)
(* the answer was missing.  The buffer has the new bytes by then.          *)
Partial(off, take) == off # 0 \/ take < SectorSize
WriteSector(w, end, x, fails) ==
  LET lba  == w.at \div SectorSize
      off  == w.at % SectorSize
      take == Min({SectorSize - off, end - w.at})
      old  == IF Partial(off, take) THEN w.disk[lba] ELSE w.buffer
      new  == [i \in 1 .. SectorSize |-> IF off < i /\ i <= off + take THEN x ELSE old[i]]
      ok   == lba \in Readable(w.disk, fails.write)
  IN  IF w.failed \/ w.at = end THEN w
      ELSE IF Partial(off, take) /\ lba \notin Readable(w.disk, fails.read)
      THEN [w EXCEPT !.failed = TRUE]
      ELSE [disk |-> IF ok \/ (fails.landed /\ lba \in DOMAIN w.disk)
                     THEN [w.disk EXCEPT ![lba] = new] ELSE w.disk,
            buffer |-> new, at |-> IF ok THEN w.at + take ELSE w.at, failed |-> ~ok]
RawWrite(from, n, x, fails) ==
  FoldLeft(LAMBDA w, i : WriteSector(w, from + n, x, fails),
           [disk |-> disk, buffer |-> sector, at |-> from, failed |-> FALSE],
           [i \in 1 .. n |-> i])

(* vfs_inherit_process copies all eight; vfs_release_process leaves the    *)
(* first four alone, the position of the raw disk included.                *)
Inherit(p, c) == [files EXCEPT ![c] = files[p]]
Release(fs, s) ==
  [fs EXCEPT ![s] = [fd \in 0 .. LastFd |->
     IF fd \in FileFds THEN [@[fd] EXCEPT !.name = FALSE, !.kind = 0, !.position = 0]
     ELSE @[fd]]]

(* The image of a program: open, allocate, read and close.  Without        *)
(* memory nothing is read.                                                 *)
LoadImage(t, path, bad, oom) ==
  LET o == vfs_open(t, path, bad)
      r == vfs_read(o.table, o.ret, ExecMax, bad)
  IN  IF o.ret < 0 THEN [ret |-> -1, table |-> o.table, buffer |-> sector]
      ELSE IF oom THEN [ret |-> -1, table |-> vfs_close(o.table, o.ret), buffer |-> sector]
      ELSE [ret |-> r.ret, table |-> vfs_close(r.table, o.ret), buffer |-> r.buffer]

-----------------------------------------------------------------------------
(* kmain: fat32_mount, vfs_init, the worker, init, and disk_exec_smoke,    *)
(* which loads a program with the descriptors of init.                     *)
BootTable ==
  [fd \in 0 .. LastFd |->
     IF fd = RawFd /\ disk # <<>> THEN [Closed EXCEPT !.name = TRUE, !.kind = 1]
     ELSE Closed]
HelloElf == [type |-> "fat", base |-> "hello", ext |-> "elf", upper |-> TRUE]
Init ==
  /\ disk \in Images
  /\ \E bad \in BadSets : volume = fat32_mount(disk, bad)
  /\ active = Boot /\ cpu = Boot /\ current = Boot
  /\ sector = [i \in 1 .. SectorSize |-> Zero]
  /\ machine = "up" /\ reply = NoReply /\ calls = 0
  /\ parent = [s \in Slots |-> NoParent]
  /\ \E bad \in BadSets, oom \in BOOLEAN :
       LET loaded == LoadImage(BootTable, HelloElf, bad, oom)
           there  == loaded.ret > 0 /\ loaded.ret # ExecMax
       IN  /\ files = [s \in Slots |-> IF s = Boot THEN loaded.table ELSE BootTable]
           /\ started = {Worker, Boot} \cup IF there THEN {Disk} ELSE {}
  /\ state = [s \in Slots |-> IF s \in started THEN "live" ELSE "free"]

-----------------------------------------------------------------------------
(* activate, for a process on the ready list; vfs_set_process follows. *)
CanRun == {s \in started : state[s] = "live"}
Activate(s) == cpu' = s /\ current' = s /\ active' = s
(* switch_from_current with nothing ready: back to the caller, as idle. *)
NobodyReady == current' = Idle /\ UNCHANGED <<cpu, active>>
Stay == UNCHANGED <<cpu, current, active>>

(* Mutant: vfs_set_process is not called. *)
SwitchStale ==
  /\ machine = "up"
  /\ \E s \in CanRun : cpu' = s /\ current' = s
  /\ reply' = NoReply
  /\ UNCHANGED <<disk, volume, files, active, sector, state, parent, started,
                 machine, calls>>
(* A timer tick, or a call that blocks. *)
Switch ==
  /\ machine = "up"
  /\ (\E s \in CanRun : Activate(s)) \/ NobodyReady
  /\ reply' = NoReply
  /\ UNCHANGED <<disk, volume, files, sector, state, parent, started, machine,
                 calls>>

(* Mutant: nothing is released. *)
ExitedHoldsFiles(s) ==
  /\ state' = [state EXCEPT ![s] = "zombie"]
  /\ parent' = [c \in Slots |-> IF parent[c] = s /\ state'[c] = "zombie"
                                THEN NoParent ELSE parent[c]]
  /\ UNCHANGED <<disk, volume, files, sector, started, machine>>
(* process_exit_with_status *)
Exited(s) ==
  /\ state' = [state EXCEPT ![s] = "zombie"]
  /\ files' = Release(files, s)
  /\ parent' = [c \in Slots |-> IF parent[c] = s /\ state'[c] = "zombie"
                                THEN NoParent ELSE parent[c]]
  /\ UNCHANGED <<disk, volume, sector, started, machine>>
WorkerExit ==
  /\ machine = "up" /\ cpu = Worker /\ state[Worker] = "live"
  /\ Exited(Worker) /\ Stay
  /\ UNCHANGED <<reply, calls>>

-----------------------------------------------------------------------------
(* The handlers of syscall.c.  The checks of user pointers need an address *)
(* space, which idle has not: open, read, write and exec then fail.        *)
op ==
  /\ current # Idle
  /\ \E path \in Paths, bad \in BadSets :
       files' = [files EXCEPT ![active] = vfs_open(@, path, bad).table]
  /\ Stay /\ reply' = NoReply
  /\ UNCHANGED <<disk, volume, sector, state, parent, started, machine>>
cl ==
  /\ \E fd \in 0 .. LastFd + 1 :
       files' = [files EXCEPT ![active] = vfs_close(@, fd)]
  /\ Stay /\ reply' = NoReply
  /\ UNCHANGED <<disk, volume, sector, state, parent, started, machine>>
rd ==
  /\ current # Idle
  /\ \E fd \in RawFd .. LastFd, n \in Lengths, bad \in BadSets :
       LET t == files[active]
           r == vfs_read(t, fd, n, bad)
       IN  /\ files' = [files EXCEPT ![active] = r.table]
           /\ sector' = r.buffer
           /\ reply' = IF fd = RawFd \/ t[fd].kind # 2 THEN NoReply
                       ELSE [call |-> "read", ret |-> r.ret, data |-> r.data,
                             from |-> t[fd].fat.position, asked |-> n,
                             clean |-> bad = {}, fat |-> t[fd].fat]
  /\ Stay
  /\ UNCHANGED <<disk, volume, state, parent, started, machine>>
wr ==
  /\ current # Idle
  /\ \E n \in Lengths, x \in Values,
        fails \in [read : BadSets, write : BadSets, landed : BOOLEAN] :
       LET from == files[active][RawFd].position
           w    == RawWrite(from, n, x, fails)
       IN  /\ files[active][RawFd].name /\ from + n <= RawEnd
           /\ disk' = w.disk /\ sector' = w.buffer
           /\ files' = [files EXCEPT ![active][RawFd].position = w.at]
           /\ reply' = [NoReply EXCEPT
                !.call = "write", !.from = from, !.data = <<x>>, !.asked = n,
                !.ret = IF w.failed /\ w.at = from THEN -1 ELSE w.at - from]
  /\ Stay
  /\ UNCHANGED <<volume, state, parent, started, machine>>
(* The console: reads and writes of descriptors 0 to 2, and calls that do  *)
(* not concern files.                                                      *)
other ==
  /\ Stay /\ reply' = NoReply
  /\ UNCHANGED <<disk, volume, files, sector, state, parent, started, machine>>

(* process_fork, and process_exit of the child if its space is not cloned. *)
Child == Min({s \in Slots : state[s] = "free"})
fk ==
  /\ \E s \in Slots : state[s] = "free"
  /\ LET from == IF current = Idle THEN Worker ELSE current
     IN  \/ /\ files' = Inherit(from, Child)
            /\ state' = [state EXCEPT ![Child] = "live"]
         \/ /\ current # Idle
            /\ files' = Release(Inherit(from, Child), Child)
            /\ state' = [state EXCEPT ![Child] = "zombie"]
  /\ parent' = [parent EXCEPT ![Child] = current]
  /\ Stay /\ reply' = NoReply
  /\ UNCHANGED <<disk, volume, sector, started, machine>>
ex ==
  /\ current # Idle
  /\ Exited(current) /\ reply' = NoReply
  /\ (\E s \in CanRun \ {current} : Activate(s)) \/ NobodyReady
(* SIGKILL, of a zombie too. *)
kill_sys ==
  /\ \E s \in Slots :
       /\ state[s] # "free" /\ Exited(s)
       /\ IF s = current
          THEN (\E q \in CanRun \ {s} : Activate(q)) \/ NobodyReady
          ELSE Stay
  /\ reply' = NoReply
(* process_wait of a zombie.  Idle has pid 0, the parent of what has none; *)
(* a process that reaps itself as idle loses its page tables and faults.   *)
wt ==
  /\ \E s \in Slots :
       /\ state[s] = "zombie" /\ parent[s] = current
       /\ files' = Release(files, s)
       /\ state' = [state EXCEPT ![s] = "free"]
       /\ parent' = [c \in Slots |-> IF c = s THEN NoParent
                                     ELSE IF parent[c] = s THEN Gone ELSE parent[c]]
       /\ started' = started \ {s}
       /\ machine' = IF s = cpu THEN "down" ELSE machine
  /\ Stay /\ reply' = NoReply
  /\ UNCHANGED <<disk, volume, sector>>
(* SYS_EXEC, as far as it goes through the descriptors. *)
ee ==
  /\ current # Idle
  /\ \E path \in Paths, bad \in BadSets, oom \in BOOLEAN :
       LET loaded == LoadImage(files[active], path, bad, oom)
       IN  files' = [files EXCEPT ![active] = loaded.table] /\ sector' = loaded.buffer
  /\ Stay /\ reply' = NoReply
  /\ UNCHANGED <<disk, volume, state, parent, started, machine>>

-----------------------------------------------------------------------------
(* The number each function of the C library passes in eax. *)
Number ==
  [u_read |-> 0, u_write |-> 1, u_open |-> 2, u_close |-> 3, u_fork |-> 4,
   u_exit |-> 5, u_getpid |-> 6, u_yield |-> 7, u_sleep |-> 8, u_wait |-> 9,
   u_exec |-> 10, u_mmap |-> 11, u_uname |-> 12, u_munmap |-> 13, u_kill |-> 14,
   u_futex_wait |-> 15, u_futex_wait_timeout |-> 15, u_futex_wake |-> 16,
   u_sigaction |-> 17, u_sigreturn |-> 18, u_getcred |-> 19, u_socket |-> 20,
   u_connect |-> 21, u_send |-> 22, u_socket_close |-> 23]
(* syscall_init: table[number]. *)
Table ==
  <<"rd", "wr", "op", "cl", "fk", "ex", "gp", "yl", "sl", "wt", "ee", "mm", "un",
    "mu", "kill_sys", "futex_wait_sys", "futex_wake_sys", "sigaction_sys",
    "sigreturn_sys", "getcred_sys", "socket_sys", "connect_sys", "send_sys",
    "close_socket_sys">>
FileHandlers == {"rd", "wr", "op", "cl", "fk", "ex", "wt", "ee", "kill_sys"}

(* A program calls the library function u; syscall_dispatch finds the      *)
(* handler.                                                                *)
Call(u) ==
  LET h == Table[Number[u] + 1]
  IN  /\ machine = "up" /\ cpu # Worker
      /\ calls < MaxCalls
      /\ calls' = IF h \in FileHandlers THEN calls + 1 ELSE calls
      /\ \/ h = "rd" /\ rd
         \/ h = "wr" /\ wr
         \/ h = "op" /\ op
         \/ h = "cl" /\ cl
         \/ h = "fk" /\ fk
         \/ h = "ex" /\ ex
         \/ h = "wt" /\ wt
         \/ h = "ee" /\ ee
         \/ h = "kill_sys" /\ kill_sys
         \/ h \notin FileHandlers /\ other

Next == Switch \/ WorkerExit \/ \E u \in DOMAIN Number : Call(u)
Spec == Init /\ [][Next]_vars

-----------------------------------------------------------------------------
(* The tables hold descriptors, only descriptor 3 is the raw disk, and no  *)
(* position is past the end of its file.                                   *)
TypeOK ==
  /\ \A s \in Slots, fd \in 0 .. LastFd :
       LET d == files[s][fd]
       IN  /\ d.name \in BOOLEAN /\ d.kind \in 0 .. 2 /\ d.position \in Nat
           /\ d.kind = 1 => fd = RawFd
           /\ d.kind = 2 => fd \in FileFds
           /\ d.fat.position <= d.fat.size
  /\ active \in Slots /\ cpu \in Slots /\ current \in {Idle, cpu}
  /\ state \in [Slots -> {"free", "live", "zombie"}]
  /\ parent \in [Slots -> Slots \cup {NoParent, Gone}]
  /\ started \subseteq {s \in Slots : state[s] # "free"}
  /\ machine \in {"up", "down"} /\ calls \in 0 .. MaxCalls

(* No process changes what another one has open.  A step of the kernel     *)
(* changes the table of the process on the CPU; or it copies that table,   *)
(* unchanged, to a new process (the table of slot 0 when it runs as idle); *)
(* or it releases the files of a process that dies or is reaped.           *)
PrivateTables ==
  [][\A s \in Slots :
       /\ files'[s] # files[s] =>
            \/ s = cpu
            \/ state[s] = "free"
            \/ state'[s] # "live" /\ \A fd \in FileFds : ~files'[s][fd].name
       /\ state[s] = "free" /\ state'[s] = "live" =>
            /\ files'[s] = files[IF current = Idle THEN Worker ELSE cpu]
            /\ s # cpu => files'[cpu] = files[cpu]]_vars

(* A process that exited, was killed, was reaped or never got its address  *)
(* space has no file open: nothing of it is left for the next process in   *)
(* its slot (process_exit_with_status, process_wait, process_fork).        *)
DeadHoldNothing ==
  \A s \in Slots : state[s] # "live" => \A fd \in FileFds : ~files[s][fd].name

(* A read of a file returns its next bytes, in order, whatever the layout  *)
(* of its cluster chain, however it was read before and by whom it was     *)
(* inherited; all that was asked for, up to the end of the file, if no     *)
(* sector failed; and a prefix of that otherwise.                          *)
ReadIsExact ==
  LET content == Contents[reply.fat.entry]
      all     == SubSeq(content, reply.from + 1,
                        Min({Len(content), reply.from + reply.asked}))
  IN  reply.call = "read" /\ reply.fat # NoFile =>
        /\ IsPrefix(reply.data, all)
        /\ reply.clean => reply.data = all
        /\ reply.ret = Len(reply.data) \/ (reply.ret = -1 /\ reply.data = <<>>)

(* A raw write through descriptor 3 that returns n has changed the n bytes *)
(* from the position on, and the position moves by n, although it writes   *)
(* whole sectors through a buffer that every process shares.  It returns   *)
(* less than it was asked for when a sector cannot be read or written, and *)
(* then the bytes it was given for that one sector may be on the disk too; *)
(* no other byte of the disk changes.                                      *)
RawWriteIsExact ==
  [][reply'.call = "write" /\ reply' # reply =>
       LET done == IF reply'.ret < 0 THEN 0 ELSE reply'.ret
           stop == reply'.from + done
       IN  /\ \A l \in DOMAIN disk, i \in 1 .. SectorSize :
                LET k == l * SectorSize + i - 1
                IN  IF k >= reply'.from /\ k < stop THEN disk'[l][i] = reply'.data[1]
                    ELSE \/ disk'[l][i] = disk[l][i]
                         \/ /\ k >= stop /\ k < reply'.from + reply'.asked
                            /\ l = stop \div SectorSize
                            /\ disk'[l][i] = reply'.data[1]
           /\ files'[active][RawFd].position = stop]_vars
=============================================================================
