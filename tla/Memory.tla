------------------------------- MODULE Memory -------------------------------
(***************************************************************************)
(* User memory: address spaces (mm/vmm.c) over the frames of Pmm, as the   *)
(* system calls fork, exec, exit, wait, mmap and munmap and the page-fault *)
(* handler change them.                                                    *)
(*                                                                         *)
(* Every operation runs in an interrupt gate, with interrupts off, and is  *)
(* one action.  A space maps a user page to an entry: the frame, and the   *)
(* PAGE_WRITE and PAGE_COW bits; frame 0 stands for an entry that is not   *)
(* present.  Page contents are values.  The kernel's scratch mapping at    *)
(* 0x003ff000, through which it reads and writes frames, is part of the    *)
(* state: where it points between two faults decides which frame a demand  *)
(* fault clears.                                                           *)
(*                                                                         *)
(* Which process runs when is left open here: any live process may be      *)
(* switched to (Process models the scheduler).  exit needs a process to    *)
(* switch to; a process that exits with nothing else ready is covered by   *)
(* Process.  spaces[i].refs is 1 for every used space, because             *)
(* process_create_thread has no caller; it is left out.                    *)
(***************************************************************************)
EXTENDS Pmm, Sequences, SeqFold

CONSTANTS
  Available,   \* the frames the boot loader's memory map calls available
  Procs,       \* process slots, 1 .. n
  Spaces,      \* address-space slots, 1 .. MAX_SPACES
  LastPage,    \* user pages are 1 .. LastPage
  LastTable,   \* pages above this have no user_tables entry (di > 8)
  StackPage,   \* the page below USER_STACK_TOP
  AutoPage,    \* where mmap with address 0 starts to look (0x01000000)
  Lengths,     \* lengths, in pages, that mmap and munmap are called with
  Flags,       \* flag words for mmap: cow, whether PAGE_COW is among them, and
               \* frame, what the bits above the page offset make of a frame
               \* number; a bound: not one beyond the frames
  MaxVmas,     \* VMM_MAX_VMAS
  WindowFrame, \* the frame at physical address 0x003ff000
  QueuePages,  \* pages of virtio's queue buffer
  RequestPages, \* pages of virtio's request buffer
  HasDisk,     \* virtio_blk_init found its device
  Images,      \* executable files
  Data,        \* what programs store
  MaxCalls,    \* bound: system calls in one behaviour
  MaxDemands,  \* bound: demand faults resolved in one behaviour
  Zero, Junk   \* a cleared page, and what memory holds at power-on

VPages == 1 .. LastPage
(* An executable as elf32_load sees it: whether the header is accepted,    *)
(* whether every segment is, and the pages of the segments up to there.    *)
Image(header, loadable, pages) ==
  [header |-> header, loadable |-> loadable, pages |-> pages]
(* The embedded program: one segment of one page at the first user page,   *)
(* for reading and executing.                                              *)
user_image == Image(TRUE, TRUE, <<[page |-> 1, write |-> FALSE, holds |-> "text"]>>)
Contents == Data \cup {Zero, Junk} \cup
            {e.holds : e \in UNION {Range(i.pages) : i \in Images \cup {user_image}}}
NoSpace == 0
NotPresent == [frame |-> 0, write |-> FALSE, cow |-> FALSE]

ASSUME MemoryAssumption ==
  /\ Available \subseteq Frames
  /\ WindowFrame \in Frames \ {0}
  /\ StackPage \in 1 .. LastTable
  /\ LastTable \in VPages
  /\ AutoPage \in VPages /\ LastPage \in Nat /\ LastTable \in Nat
  /\ Lengths \subseteq Nat \ {0}
  /\ Flags \subseteq [cow : BOOLEAN, frame : [Frames -> Frames]]
  /\ QueuePages \in Nat \ {0} /\ RequestPages \in Nat \ {0}
  /\ MaxCalls \in Nat /\ MaxDemands \in Nat
  /\ IsFiniteSet(Procs) /\ Procs # {} /\ Procs = 1 .. Cardinality(Procs)
  /\ IsFiniteSet(Spaces) /\ Spaces # {} /\ Spaces = 1 .. Cardinality(Spaces)
  /\ Cardinality(Spaces) < MaxRefs
  /\ \E f, g \in FreeFrames(PmmInit(Available)) : f # g
  /\ \A i \in Images \cup {user_image} :
       i \in [header : BOOLEAN, loadable : BOOLEAN,
              pages : Seq([page : 1 .. LastTable, write : BOOLEAN,
                           holds : Contents])]
  /\ "absent" \notin Contents

VARIABLES
  pmm,      \* the allocator
  driver,   \* frames virtio_blk holds for DMA
  content,  \* content[f]: what frame f holds
  space,    \* space[s]: used, pte (VPages -> entry), vmas (a set of ranges)
  proc,     \* proc[p]: status (free, live, zombie), space and parent
  current,  \* the process on the CPU
  loaded,   \* current_space: the address space in CR3, or the kernel's
  window,   \* the frame the scratch page 0x003ff000 maps
  demands,  \* history: demand faults resolved so far
  strayed,  \* history: a demand fault mapped another frame than it took
  lost,     \* history: frames that a later segment of a program replaced
  panicked, \* the machine has halted
  calls     \* system calls made so far

vars == <<pmm, driver, content, space, proc, current, loaded, window,
          demands, strayed, lost, panicked, calls>>

-----------------------------------------------------------------------------
Vma(start, end, flags) == [start |-> start, end |-> end, flags |-> flags]
Present(pte) == {v \in VPages : pte[v].frame # 0}
Empty == [used |-> FALSE, pte |-> [v \in VPages |-> NotPresent], vmas |-> {}]
Fresh == [Empty EXCEPT !.used = TRUE]
NewProc(status, s, parent) ==
  [status |-> status, space |-> s, parent |-> parent]
FreeSpaces == {s \in Spaces : ~space[s].used}
Covers(a, v) == a.start <= v /\ v < a.end
InVma(s, v) == \E a \in space[s].vmas : Covers(a, v)
Overlaps(s, start, end) ==
  \E a \in space[s].vmas : start < a.end /\ end > a.start

(* vmm_destroy_address_space gives back every present page. *)
FreeAll(m, pte) ==
  FoldSet(LAMBDA v, acc : Free(acc, pte[v].frame), m, Present(pte))
(* Mutant: the clone takes no reference. *)
RetainNone(m, pte) == m
RetainAll(m, pte) ==
  FoldSet(LAMBDA v, acc : Retain(acc, pte[v].frame), m, Present(pte))

(* vmm_clone_address_space gives every present page a frame of its own.    *)
(* It is called by its self-test only, which kmain runs before anything is *)
(* allocated, followed by the one of the copy-on-write clone.              *)
vmm_clone_address_space(m, pte) ==
  FoldSet(LAMBDA v, acc : [pmm |-> Alloc(acc.pmm),
                           pte |-> [acc.pte EXCEPT ![v] =
                                      [pte[v] EXCEPT !.frame = NextFrame(acc.pmm)]]],
          [pmm |-> m, pte |-> Empty.pte], Present(pte))
OnePage(f) == [Empty.pte EXCEPT ![1] = [frame |-> f, write |-> TRUE, cow |-> FALSE]]
vmm_clone_selftest(m) ==
  LET a == OnePage(NextFrame(m))
      b == vmm_clone_address_space(Alloc(m), a)
  IN  FreeAll(FreeAll(b.pmm, b.pte), a)
vmm_cow_selftest(m) ==
  LET a == OnePage(NextFrame(m))
      cloned == RetainAll(Alloc(m), a)
      copied == Free(Alloc(cloned), NextFrame(m))
  IN  FreeAll(FreeAll(copied, OnePage(NextFrame(cloned))), a)

(* One page of elf32_load, or the stack page: a frame, its entry and what  *)
(* it is filled with.  elf32_load asks vmm_get_physical whether the page   *)
(* is mapped, which knows the kernel's tables only: a page two segments    *)
(* touch gets a second frame, and nobody gives the first one back.         *)
LoadPage(st, e) ==
  IF ~st.ok \/ FreeFrames(st.pmm) = {} THEN [st EXCEPT !.ok = FALSE]
  ELSE LET f == NextFrame(st.pmm)
       IN  [ok |-> TRUE, pmm |-> Alloc(st.pmm),
            pte |-> [st.pte EXCEPT ![e.page] =
                       [frame |-> f, write |-> e.write, cow |-> FALSE]],
            content |-> [st.content EXCEPT ![f] = e.holds],
            lost |-> st.lost \cup ({st.pte[e.page].frame} \ {0})]
(* vmm_user_alloc does not clear the page: the stack holds what its frame  *)
(* held before.                                                            *)
WithStack(m, c) ==
  LoadPage([ok |-> TRUE, pmm |-> m, pte |-> Empty.pte, content |-> c, lost |-> {}],
           [page |-> StackPage, write |-> TRUE,
            holds |-> IF FreeFrames(m) = {} THEN Junk ELSE c[NextFrame(m)]])
(* A segment that is both writable and executable, or out of bounds, stops *)
(* the load after the segments before it have been mapped.                 *)
LoadImage(st, image) ==
  LET end == FoldLeft(LoadPage, st, image.pages)
  IN  [end EXCEPT !.ok = @ /\ image.loadable]

Tested == vmm_cow_selftest(vmm_clone_selftest(PmmInit(Available)))

(* kmain has created the first process: it panics when that fails. *)
Init ==
  /\ driver = IF HasDisk THEN DriverFrames(Tested, QueuePages, RequestPages) ELSE {}
  /\ LET m == IF HasDisk THEN AfterDriver(Tested, QueuePages, RequestPages) ELSE Tested
         stacked == WithStack(m, [f \in Frames |-> Junk])
         st == LoadImage(stacked, user_image)
     IN  /\ stacked.ok /\ st.ok
         /\ pmm = st.pmm
         /\ content = st.content
         /\ lost = st.lost
         /\ space = [s \in Spaces |-> IF s = 1 THEN [Fresh EXCEPT !.pte = st.pte]
                                      ELSE Empty]
  /\ proc = [p \in Procs |-> IF p = 1 THEN NewProc("live", 1, 0)
                             ELSE NewProc("free", NoSpace, 0)]
  /\ current = 1
  /\ loaded = 1
  /\ window = WindowFrame
  /\ demands = 0
  /\ strayed = FALSE
  /\ panicked = FALSE
  /\ calls = 0

-----------------------------------------------------------------------------
(* A frame that a demand fault did not take may be anybody's, the kernel's *)
(* included: from there on a store can change all that is modelled here,   *)
(* and the model ends.                                                     *)
Up == ~panicked /\ ~strayed

(* A user-mode store to a page whose entry allows it. *)
UserWrite(v, x) ==
  /\ Up
  /\ loaded # NoSpace
  /\ space[loaded].pte[v].write
  /\ content' = [content EXCEPT ![space[loaded].pte[v].frame] = x]
  /\ UNCHANGED <<pmm, driver, space, proc, current, loaded, window, demands, strayed, lost,
                 panicked, calls>>

(* vmm_page_fault: what an access to page v needs. *)
Demands(s, v) ==
  s # NoSpace /\ v <= LastTable /\ InVma(s, v) /\ space[s].pte[v].frame = 0
Copies(s, v) ==
  s # NoSpace /\ ~Demands(s, v) /\ space[s].pte[v].cow

(* The demand branch clears whatever frame the scratch page maps, only     *)
(* then points it at the new frame, maps the new frame with the flags of   *)
(* the range and gives it back to the allocator.                           *)
DemandPage(v) ==
  LET f == NextFrame(pmm)
      flags == (CHOOSE a \in space[loaded].vmas : Covers(a, v)).flags
  IN  [pmm |-> Free(Alloc(pmm), f),
       entry |-> [frame |-> flags.frame[f], write |-> TRUE, cow |-> flags.cow],
       content |-> [content EXCEPT ![window] = Zero],
       window |-> f]
(* Mutant: the new frame is mapped without the old one's content. *)
CopyNothing(v) ==
  LET f == NextFrame(pmm)
      old == space[loaded].pte[v].frame
  IN  [pmm |-> Free(Alloc(pmm), old),
       entry |-> [frame |-> f, write |-> TRUE, cow |-> FALSE],
       content |-> content,
       window |-> WindowFrame]
CopyPage(v) ==
  LET f == NextFrame(pmm)
      old == space[loaded].pte[v].frame
  IN  [pmm |-> Free(Alloc(pmm), old),
       entry |-> [frame |-> f, write |-> TRUE, cow |-> FALSE],
       content |-> [content EXCEPT ![f] = content[old]],
       window |-> WindowFrame]
Resolved(v) == IF Demands(loaded, v) THEN DemandPage(v) ELSE CopyPage(v)

Panic ==
  /\ panicked' = TRUE
  /\ UNCHANGED <<pmm, driver, content, space, proc, current, loaded, window,
                 demands, strayed, lost, calls>>

(* vmm_page_fault on page v; Store is what the kernel does to memory next. *)
Handle(v, resolvable, Store(_)) ==
  IF resolvable /\ FreeFrames(pmm) # {}
  THEN LET r == Resolved(v)
       IN  /\ pmm' = r.pmm
           /\ space' = [space EXCEPT ![loaded].pte[v] = r.entry]
           /\ content' = Store(r)
           /\ window' = r.window
           /\ demands' = IF Demands(loaded, v) THEN demands + 1 ELSE demands
           /\ demands' <= MaxDemands
           /\ strayed' = (Demands(loaded, v) /\ r.entry.frame # NextFrame(pmm))
           /\ UNCHANGED <<driver, proc, current, loaded, lost, panicked, calls>>
  ELSE Panic

(* The fault a user-mode access to page v raises, when it raises one. *)
PageFault(v, write) ==
  /\ Up
  /\ loaded # NoSpace =>
       \/ space[loaded].pte[v].frame = 0
       \/ write /\ ~space[loaded].pte[v].write
  /\ Handle(v, Demands(loaded, v) \/ (write /\ Copies(loaded, v)),
            LAMBDA r : r.content)

-----------------------------------------------------------------------------
(* A system call of the current process, which runs in its own space. *)
InSyscall == Up /\ loaded # NoSpace
Syscall == InSyscall /\ calls < MaxCalls /\ calls' = calls + 1

(* A system call stores into a user page that is not writable yet:         *)
(* vmm_validate_user_ptr resolves the fault first.  (On a writable page it *)
(* is UserWrite; on any other the call fails and changes nothing.)         *)
KernelWrite(v, x) ==
  /\ InSyscall
  /\ \/ space[loaded].pte[v].frame = 0 /\ InVma(loaded, v)
     \/ space[loaded].pte[v].cow /\ ~space[loaded].pte[v].write
  /\ Handle(v, v <= LastTable,
            LAMBDA r : [r.content EXCEPT ![r.entry.frame] = x])

(* mmap: vmm_map_lazy_range only records the range, and the flags as they  *)
(* were given.                                                             *)
AddVma(start, end, flags) ==
  /\ end <= LastPage + 1
  /\ ~Overlaps(loaded, start, end)
  /\ Cardinality(space[loaded].vmas) < MaxVmas
  /\ space' = [space EXCEPT ![loaded].vmas = @ \cup {Vma(start, end, flags)}]
  /\ UNCHANGED <<pmm, driver, content, proc, current, loaded, window, demands, strayed, lost,
                 panicked>>
MmapAt(v, n, flags) == Syscall /\ AddVma(v, v + n, flags)
MmapAnywhere(n, flags) ==
  /\ Syscall
  /\ LET bases == {b \in AutoPage .. LastPage : ~Overlaps(loaded, b, b + n)}
     IN  bases # {} /\ AddVma(Min(bases), Min(bases) + n, flags)

(* What is left of range a when [start, end) inside it is unmapped: when   *)
(* it would split and all slots are taken, the whole range stays.          *)
Remaining(vmas, a, start, end) ==
  LET parts == {r \in {Vma(a.start, start, a.flags), Vma(end, a.end, a.flags)} :
                  r.start < r.end}
  IN  IF Cardinality(vmas \ {a}) + Cardinality(parts) <= MaxVmas
      THEN (vmas \ {a}) \cup parts
      ELSE vmas

(* munmap: every page present, all in one range. *)
Munmap(start, n) ==
  /\ Syscall
  /\ start .. start + n - 1 \subseteq Present(space[loaded].pte)
  /\ \E a \in space[loaded].vmas :
       /\ a.start <= start /\ start + n <= a.end
       /\ LET pte == space[loaded].pte
              gone == start .. start + n - 1
          IN  /\ pmm' = FoldSet(LAMBDA v, acc : Free(acc, pte[v].frame), pmm, gone)
              /\ space' = [space EXCEPT
                   ![loaded].vmas = Remaining(@, a, start, start + n),
                   ![loaded].pte = [v \in VPages |->
                                      IF v \in gone THEN NotPresent ELSE @[v]]]
  /\ UNCHANGED <<driver, content, proc, current, loaded, window, demands, strayed, lost,
                 panicked>>

-----------------------------------------------------------------------------
(* Mutant: the write bit of the parent's entries is left alone. *)
CowEntriesWritable(pte) ==
  [v \in VPages |-> IF pte[v].frame = 0 THEN NotPresent
                    ELSE [pte[v] EXCEPT !.cow = TRUE]]
(* The entries of both spaces after vmm_clone_address_space_cow. *)
CowEntries(pte) ==
  [v \in VPages |-> IF pte[v].frame = 0 THEN NotPresent
                    ELSE [pte[v] EXCEPT !.write = FALSE, !.cow = TRUE]]

(* fork takes a space in new_pcb, then a second one for the clone, and     *)
(* only then gives the first back.  Without a second space the child stays *)
(* behind as a zombie with an empty space.                                 *)
Fork ==
  /\ Syscall
  /\ FreeSpaces # {}
  /\ \E c \in Procs :
       /\ proc[c].status = "free"
       /\ \A p \in Procs : p < c => proc[p].status # "free"
       /\ LET first == Min(FreeSpaces)
              rest  == FreeSpaces \ {first}
              shared == CowEntries(space[loaded].pte)
          IN  IF rest = {}
              THEN /\ space' = [space EXCEPT ![first] = Fresh]
                   /\ proc' = [proc EXCEPT ![c] = NewProc("zombie", first, current)]
                   /\ UNCHANGED pmm
              ELSE /\ space' = [space EXCEPT
                                  ![loaded].pte = shared,
                                  ![Min(rest)] = [space[loaded] EXCEPT !.pte = shared]]
                   /\ proc' = [proc EXCEPT ![c] = NewProc("live", Min(rest), current)]
                   /\ pmm' = RetainAll(pmm, shared)
  /\ UNCHANGED <<driver, content, current, loaded, window, demands, strayed, lost, panicked>>

(* exec builds the new image in a new space and then drops the old one.    *)
(* elf32_load checks the header first and from then on leaves the kernel's *)
(* directory in CR3, which exec repairs only when the load succeeded.      *)
Exec(image) ==
  /\ Syscall
  /\ FreeSpaces # {}
  /\ LET s   == Min(FreeSpaces)
         old == proc[current].space
         stacked == WithStack(pmm, content)
         st  == LoadImage(stacked, image)
     IN  /\ stacked.ok /\ image.header
         /\ IF st.ok
            THEN /\ pmm' = FreeAll(st.pmm, space[old].pte)
                 /\ space' = [space EXCEPT ![s] = [Fresh EXCEPT !.pte = st.pte],
                                           ![old] = Empty]
                 /\ proc' = [proc EXCEPT ![current].space = s]
                 /\ loaded' = s
            ELSE /\ pmm' = FreeAll(st.pmm, st.pte)
                 /\ loaded' = NoSpace
                 /\ UNCHANGED <<space, proc>>
         /\ content' = st.content
         /\ lost' = lost \cup st.lost
  /\ UNCHANGED <<driver, current, window, demands, strayed, panicked>>

(* The state of a process that exits or is killed, zombies it leaves       *)
(* included.                                                               *)
Exited(p) ==
  [q \in Procs |->
     CASE q = p -> [proc[q] EXCEPT !.status = "zombie"]
       [] q # p /\ proc[q].parent = p /\ proc[q].status = "zombie" ->
            [proc[q] EXCEPT !.parent = 0]
       [] OTHER -> proc[q]]

Exit(q) ==
  /\ Syscall
  /\ q # current /\ proc[q].status = "live"
  /\ proc' = Exited(current)
  /\ current' = q
  /\ loaded' = proc[q].space
  /\ UNCHANGED <<pmm, driver, content, space, window, demands, strayed, lost, panicked>>

(* kill(p, 9) *)
Kill(p) ==
  /\ Syscall
  /\ p # current /\ proc[p].status = "live"
  /\ proc' = Exited(p)
  /\ UNCHANGED <<pmm, driver, content, space, current, loaded, window, demands, strayed, lost,
                 panicked>>

(* Mutant: the child's space is forgotten, not destroyed. *)
ReapLeak(z) ==
  /\ Syscall
  /\ proc[z].status = "zombie" /\ proc[z].parent = current
  /\ proc' = [q \in Procs |->
                IF q = z THEN NewProc("free", NoSpace, 0)
                ELSE [proc[q] EXCEPT !.parent = IF @ = z THEN 0 ELSE @]]
  /\ UNCHANGED <<pmm, space, loaded, driver, content, current, window, demands, strayed, lost,
                 panicked>>
(* wait for a child that has exited destroys its space.  A pid carries a   *)
(* generation, so children of the reaped process are nobody's from now on. *)
Reap(z) ==
  /\ Syscall
  /\ proc[z].status = "zombie" /\ proc[z].parent = current
  /\ pmm' = FreeAll(pmm, space[proc[z].space].pte)
  /\ space' = [space EXCEPT ![proc[z].space] = Empty]
  /\ proc' = [q \in Procs |->
                IF q = z THEN NewProc("free", NoSpace, 0)
                ELSE [proc[q] EXCEPT !.parent = IF @ = z THEN 0 ELSE @]]
  /\ loaded' = IF loaded = proc[z].space THEN NoSpace ELSE loaded
  /\ UNCHANGED <<driver, content, current, window, demands, strayed, lost, panicked>>

(* Mutant: the directory in CR3 stays that of the previous process. *)
SwitchLazily(q) ==
  /\ Up
  /\ proc[q].status = "live"
  /\ current' = q
  /\ UNCHANGED <<pmm, driver, content, space, proc, loaded, window, demands, strayed, lost,
                 panicked, calls>>
(* activate loads the space of the process the scheduler chose. *)
Switch(q) ==
  /\ Up
  /\ proc[q].status = "live"
  /\ current' = q
  /\ loaded' = proc[q].space
  /\ UNCHANGED <<pmm, driver, content, space, proc, window, demands, strayed, lost, panicked,
                 calls>>

Next ==
  \/ \E v \in VPages, x \in Data : UserWrite(v, x) \/ KernelWrite(v, x)
  \/ \E v \in VPages, write \in BOOLEAN : PageFault(v, write)
  \/ \E v \in VPages, n \in Lengths, flags \in Flags : MmapAt(v, n, flags)
  \/ \E n \in Lengths, flags \in Flags : MmapAnywhere(n, flags)
  \/ \E v \in VPages, n \in Lengths : Munmap(v, n)
  \/ Fork
  \/ \E image \in Images : Exec(image)
  \/ \E p \in Procs : Exit(p) \/ Kill(p) \/ Reap(p) \/ Switch(p)

Spec == Init /\ [][Next]_vars

-----------------------------------------------------------------------------
Used == {s \in Spaces : space[s].used}
Mappings(f) == {m \in Used \X VPages : space[m[1]].pte[m[2]].frame = f}

(* The state has the types of the statics of pmm.c and vmm.c. *)
TypeOK ==
  /\ pmm.bits \subseteq Frames
  /\ pmm.refs \in [Frames -> 0 .. MaxRefs]
  /\ pmm.used \in 0 .. Cardinality(Frames)
  /\ content \in [Frames -> Contents]
  /\ \A s \in Spaces :
       /\ space[s].used \in BOOLEAN
       /\ space[s].pte \in [VPages ->
            [frame : Frames, write : BOOLEAN, cow : BOOLEAN]]
       /\ \A a \in space[s].vmas :
            /\ a.start \in VPages /\ a.end \in 2 .. LastPage + 1 /\ a.start < a.end
            /\ a.flags \in Flags
  /\ \A p \in Procs :
       /\ proc[p].status \in {"free", "live", "zombie"}
       /\ proc[p].space \in Spaces \cup {NoSpace}
       /\ proc[p].parent \in Procs \cup {0}
  /\ current \in Procs
  /\ loaded \in Spaces \cup {NoSpace}
  /\ window \in Frames
  /\ calls \in 0 .. MaxCalls
  /\ demands \in 0 .. MaxDemands
  /\ panicked \in BOOLEAN /\ strayed \in BOOLEAN /\ lost \subseteq Frames

(* As long as no demand fault has been resolved (pmm_free_page there gives *)
(* back the page it just mapped), page_refs of a frame is the number of    *)
(* page-table entries that map it, through fork, copy-on-write, exec,      *)
(* munmap and wait, the failing ones included.  No frame leaks but those   *)
(* that elf32_load replaces when a segment touches a page that is mapped   *)
(* already, and none of the kernel's or the disk driver's is ever mapped.  *)
RefsCountMappings ==
  demands = 0 =>
    \A f \in Frames \ {0} :
      IF f \in driver \/ f \notin Usable(Available) \/ f < KernelFrames
      THEN Mappings(f) = {}
      ELSE /\ pmm.refs[f] = Cardinality(Mappings(f)) + (IF f \in lost THEN 1 ELSE 0)
           /\ f \in pmm.bits <=> Mappings(f) # {} \/ f \in lost

(* Two entries that map one frame are both read-only and marked for        *)
(* copying, so that a store by either process faults                       *)
(* (vmm_clone_address_space_cow), until a demand fault has been resolved.  *)
SharedIsCow ==
  demands = 0 =>
    \A f \in Frames \ {0} : Cardinality(Mappings(f)) > 1 =>
      \A m \in Mappings(f) :
        LET e == space[m[1]].pte[m[2]] IN ~e.write /\ e.cow

(* used_pages_count is the number of usable frames whose bit is set, after *)
(* demand faults too, so that pmm_free_pages never lies and the guard on   *)
(* its decrement is never needed.  That ends when the flags of an mmap     *)
(* made a demand fault map a frame that it did not take (vmm_page_fault):  *)
(* munmap would give back a frame that was never counted.                  *)
UsedCountExact == ~strayed => pmm.used = Cardinality(pmm.bits \cap Usable(Available))

(* CR3 holds the kernel's directory or the space of the process on the CPU *)
(* - never one that has been destroyed or belongs to somebody else.        *)
LoadedIsCurrents ==
  loaded # NoSpace =>
    /\ space[loaded].used
    /\ loaded = proc[current].space
    /\ proc[current].status = "live"

(* Every used space belongs to exactly one process slot and every slot in  *)
(* use has one: neither the failing paths of fork and exec nor wait leak a *)
(* slot of the 32 or free it twice.                                        *)
SpacesAreOwned ==
  /\ Used = {proc[p].space : p \in {q \in Procs : proc[q].status # "free"}}
  /\ \A p, q \in Procs :
       p # q /\ proc[p].status # "free" => proc[p].space # proc[q].space

-----------------------------------------------------------------------------
(* The abstract memory a process sees. *)
Memory(p) ==
  [v \in VPages |->
     LET s == proc[p].space
     IN  IF s = NoSpace \/ space[s].pte[v].frame = 0 THEN "absent"
         ELSE content[space[s].pte[v].frame]]
Program(image) ==
  [v \in VPages |->
     LET fills == {i \in 1 .. Len(image.pages) : image.pages[i].page = v}
     IN  IF fills = {} THEN "absent" ELSE image.pages[Max(fills)].holds]
Private == INSTANCE PrivateMemory WITH
  memory <- [p \in Procs |-> Memory(p)],
  running <- current,
  Stack <- StackPage,
  Programs <- {Program(i) : i \in Images \cup {user_image}},
  Absent <- "absent"

(* Up to the first demand fault the frames, shared and copied on write,    *)
(* implement PrivateMemory: what a process finds in its pages changes only *)
(* by its own stores, munmap and exec, and a child starts with its         *)
(* parent's pages.                                                         *)
PrivateUntilDemand ==
  /\ Private!Init
  /\ [][demands' = 0 => Private!Next]_<<[p \in Procs |-> Memory(p)], current>>
=============================================================================
