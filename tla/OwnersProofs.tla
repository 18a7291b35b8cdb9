---------------------------- MODULE OwnersProofs ----------------------------
(***************************************************************************)
(* Proofs about the address spaces of Memory and their owners, for any     *)
(* number of frames, pages, processes and spaces, any executables and any  *)
(* flags of mmap.  What the frames hold does not matter here.              *)
(***************************************************************************)
EXTENDS Memory, FiniteSetTheorems, LeastNumbers, TLAPS

-----------------------------------------------------------------------------
(* The inductive invariant.                                                *)

ProcRows == [status : {"free", "live", "zombie"}, space : Spaces \cup {NoSpace},
             parent : Procs \cup {0}]
IsRow(row) ==
  row = [used |-> row.used, pte |-> row.pte, vmas |-> row.vmas] /\ row.used \in BOOLEAN
SpacesOk(sp) == sp = [s \in Spaces |-> sp[s]] /\ \A s \in Spaces : IsRow(sp[s])
(* Address spaces sp, process table pr, process c on the CPU and l in CR3.  The
   process on the CPU is alive, which the properties do not say of a CPU that has
   the kernel's directory loaded. *)
OwnersOk(sp, pr, c, l) ==
  /\ pr \in [Procs -> ProcRows] /\ c \in Procs /\ l \in Spaces \cup {NoSpace}
  /\ \A p \in Procs : pr[p].status = "free" <=> pr[p].space = NoSpace
  /\ \A p \in Procs : pr[p].space # NoSpace => sp[pr[p].space].used
  /\ \A s \in Spaces : sp[s].used => \E p \in Procs : pr[p].space = s
  /\ \A p, q \in Procs : pr[p].space = pr[q].space /\ pr[p].space # NoSpace => p = q
  /\ pr[c].status = "live"
  /\ l # NoSpace => l = pr[c].space
OwnInv == SpacesOk(space) /\ OwnersOk(space, proc, current, loaded)

(* The slots of address spaces and processes are numbers from 1 on. *)
LEMMA Slots ==
  /\ 1 \in Spaces /\ Spaces \in SUBSET Nat /\ 1 \in Procs
  /\ NoSpace \notin Spaces /\ 0 \notin Procs
<1>1. Cardinality(Spaces) \in Nat /\ Cardinality(Procs) \in Nat
  BY MemoryAssumption, FS_CardinalityType, Zenon
<1>2. /\ Spaces # {} /\ Spaces = 1 .. Cardinality(Spaces)
      /\ Procs # {} /\ Procs = 1 .. Cardinality(Procs)
  BY MemoryAssumption, Zenon
<1> QED
  BY <1>1, <1>2 DEF NoSpace

(* A space whose table or ranges change is used as before. *)
LEMMA EditedRow ==
  ASSUME NEW row, IsRow(row), NEW x
  PROVE  /\ IsRow([row EXCEPT !.pte = x]) /\ [row EXCEPT !.pte = x].used = row.used
         /\ IsRow([row EXCEPT !.vmas = x]) /\ [row EXCEPT !.vmas = x].used = row.used
<1>1. PICK u, t, r : row = [used |-> u, pte |-> t, vmas |-> r] /\ u \in BOOLEAN /\ u = row.used
  BY Zenon DEF IsRow
<1>2. [row EXCEPT !.pte = x] = [used |-> u, pte |-> x, vmas |-> r]
  BY <1>1
<1>3. [row EXCEPT !.vmas = x] = [used |-> u, pte |-> t, vmas |-> x]
  BY <1>1
<1> QED
  BY <1>1, <1>2, <1>3 DEF IsRow

(* An unused slot, and one that vmm_create_address_space has just taken. *)
LEMMA NewRows ==
  /\ IsRow(Empty) /\ ~Empty.used /\ IsRow(Fresh) /\ Fresh.used
<1>1. PICK t, r : Empty = [used |-> FALSE, pte |-> t, vmas |-> r]
  BY Zenon DEF Empty
<1>2. Fresh = [used |-> TRUE, pte |-> t, vmas |-> r]
  <2>1. Fresh = [Empty EXCEPT !.used = TRUE]
    BY Zenon DEF Fresh
  <2> QED
    BY <1>1, <2>1, Zenon
<1> QED
  BY <1>1, <1>2 DEF IsRow

Replaces(tp, sp, s, row) == tp = [sp EXCEPT ![s] = row]
RowsAre(tp, sp, s, row) == tp[s] = row /\ \A t \in Spaces : t # s => tp[t] = sp[t]
(* One row of the table of spaces is replaced. *)
LEMMA ReplacedRow ==
  ASSUME NEW sp, SpacesOk(sp), NEW s \in Spaces, NEW row, IsRow(row),
         NEW tp, Replaces(tp, sp, s, row)
  PROVE  SpacesOk(tp) /\ RowsAre(tp, sp, s, row)
<1>1. tp = [t \in Spaces |-> IF t = s THEN row ELSE sp[t]]
  BY Zenon DEF SpacesOk, Replaces
<1> QED
  BY <1>1, Zenon DEF SpacesOk, RowsAre

(* Owners depend on which slots are used only; CR3 may be reset. *)
LEMMA SameOwners ==
  ASSUME NEW sp, NEW tp, NEW pr, NEW c, NEW l, OwnersOk(sp, pr, c, l),
         \A s \in Spaces : tp[s].used = sp[s].used, NEW k, k \in {l, NoSpace}
  PROVE  OwnersOk(tp, pr, c, k)
BY Zenon DEF OwnersOk, ProcRows

(* The space in CR3 is one of a slot in use. *)
LEMMA LoadedSlot ==
  ASSUME OwnInv, loaded # NoSpace
  PROVE  loaded \in Spaces /\ IsRow(space[loaded]) /\ space[loaded].used
BY Zenon DEF OwnInv, OwnersOk, SpacesOk

(* A step that changes one table or one set of ranges. *)
LEMMA EditKeeps ==
  ASSUME OwnInv, NEW s \in Spaces, NEW row, IsRow(row), row.used = space[s].used,
         space' = [space EXCEPT ![s] = row], UNCHANGED <<proc, current, loaded>>
  PROVE  OwnInv'
<1>1. SpacesOk(space) /\ OwnersOk(space, proc, current, loaded)
  BY Zenon DEF OwnInv
<1>2. SpacesOk(space') /\ RowsAre(space', space, s, row)
  <2>1. Replaces(space', space, s, row)
    BY Zenon DEF Replaces
  <2> QED
    BY <1>1, <2>1, ReplacedRow, Zenon
<1>3. \A t \in Spaces : space'[t].used = space[t].used
  BY <1>2, Zenon DEF RowsAre
<1>4. OwnersOk(space', proc, current, loaded)
  BY <1>1, <1>3, SameOwners, Zenon
<1> QED
  BY <1>2, <1>4, Zenon DEF OwnInv

(* A step that leaves spaces and processes alone. *)
LEMMA SameKeeps ==
  ASSUME OwnInv, UNCHANGED <<space, proc, current, loaded>>
  PROVE  OwnInv'
BY Zenon DEF OwnInv

-----------------------------------------------------------------------------
(* Faults, mmap and munmap.                                                *)

(* vmm_page_fault changes entries only. *)
LEMMA FaultKeeps ==
  ASSUME OwnInv, NEW v \in VPages
  PROVE  /\ \A write \in BOOLEAN : PageFault(v, write) => OwnInv'
         /\ \A x \in Data : KernelWrite(v, x) => OwnInv'
<1>1. ASSUME NEW e, loaded # NoSpace, UNCHANGED <<proc, current, loaded>>,
             space' = [space EXCEPT ![loaded].pte[v] = e]
      PROVE  OwnInv'
  <2>1. PICK row, table : /\ table = [space[loaded].pte EXCEPT ![v] = e]
                          /\ row = [space[loaded] EXCEPT !.pte = table]
    BY Zenon
  <2>2. space' = [space EXCEPT ![loaded] = row]
    BY <1>1, <2>1, Zenon
  <2>3. loaded \in Spaces /\ IsRow(row) /\ row.used = space[loaded].used
    BY <1>1, <2>1, LoadedSlot, EditedRow, Zenon
  <2> QED
    BY <1>1, <2>2, <2>3, EditKeeps, Zenon
<1>2. CASE Panic
  BY <1>2, SameKeeps, Zenon DEF Panic
<1>3. ASSUME NEW write \in BOOLEAN, PageFault(v, write)
      PROVE  OwnInv'
  <2>1. CASE ~ ((Demands(loaded, v) \/ (write /\ Copies(loaded, v))) /\ FreeFrames(pmm) # {})
    BY <1>2, <1>3, <2>1, Zenon DEF PageFault, Handle
  <2>2. CASE (Demands(loaded, v) \/ (write /\ Copies(loaded, v))) /\ FreeFrames(pmm) # {}
    <3>1. loaded # NoSpace
      BY <2>2, Zenon DEF Demands, Copies
    <3>2. /\ UNCHANGED <<proc, current, loaded>>
          /\ space' = [space EXCEPT ![loaded].pte[v] = Resolved(v).entry]
      BY <1>3, <2>2, Zenon DEF PageFault, Handle
    <3> QED
      BY <1>1, <3>1, <3>2, Zenon
  <2> QED
    BY <2>1, <2>2, Zenon
<1>4. ASSUME NEW x \in Data, KernelWrite(v, x)
      PROVE  OwnInv'
  <2>1. CASE ~ (v <= LastTable /\ FreeFrames(pmm) # {})
    BY <1>2, <1>4, <2>1, Zenon DEF KernelWrite, Handle
  <2>2. CASE v <= LastTable /\ FreeFrames(pmm) # {}
    <3>1. loaded # NoSpace
      BY <1>4, Zenon DEF KernelWrite, InSyscall
    <3>2. /\ UNCHANGED <<proc, current, loaded>>
          /\ space' = [space EXCEPT ![loaded].pte[v] = Resolved(v).entry]
      BY <1>4, <2>2, Zenon DEF KernelWrite, Handle
    <3> QED
      BY <1>1, <3>1, <3>2, Zenon
  <2> QED
    BY <2>1, <2>2, Zenon
<1> QED
  BY <1>3, <1>4, Zenon

(* vmm_map_lazy_range records a range. *)
LEMMA MmapKeeps ==
  ASSUME OwnInv, loaded # NoSpace, NEW start, NEW end, NEW flags, AddVma(start, end, flags)
  PROVE  OwnInv'
<1>1. PICK row, vmas : /\ vmas = space[loaded].vmas \cup {Vma(start, end, flags)}
                       /\ row = [space[loaded] EXCEPT !.vmas = vmas]
  BY Zenon
<1>2. space' = [space EXCEPT ![loaded] = row] /\ UNCHANGED <<proc, current, loaded>>
  BY <1>1, Zenon DEF AddVma
<1>3. loaded \in Spaces /\ IsRow(row) /\ row.used = space[loaded].used
  BY <1>1, LoadedSlot, EditedRow, Zenon
<1> QED
  BY <1>2, <1>3, EditKeeps, Zenon

(* munmap clears entries and cuts a range. *)
LEMMA MunmapKeeps ==
  ASSUME OwnInv, NEW v \in VPages, NEW n \in Lengths, Munmap(v, n)
  PROVE  OwnInv'
<1>1. loaded # NoSpace /\ UNCHANGED <<proc, current, loaded>>
  BY Zenon DEF Munmap, Syscall, InSyscall
<1>2. PICK vmas, table :
        space' = [space EXCEPT ![loaded].vmas = vmas, ![loaded].pte = table]
  BY Zenon DEF Munmap
<1>3. PICK mid : mid = [space[loaded] EXCEPT !.vmas = vmas]
  BY Zenon
<1>4. PICK row : row = [mid EXCEPT !.pte = table]
  BY Zenon
<1>5. loaded \in Spaces /\ IsRow(mid) /\ mid.used = space[loaded].used
  BY <1>1, <1>3, LoadedSlot, EditedRow, Zenon
<1>6. IsRow(row) /\ row.used = space[loaded].used
  BY <1>4, <1>5, EditedRow, Zenon
<1>7. space' = [space EXCEPT ![loaded] = row]
  BY <1>2, <1>3, <1>4, <1>5, Zenon DEF OwnInv, SpacesOk
<1> QED
  BY <1>1, <1>5, <1>6, <1>7, EditKeeps, Zenon

-----------------------------------------------------------------------------
(* exit, kill, wait and a switch.                                          *)

(* The table of processes after a process has died. *)
LEMMA ExitedTable ==
  ASSUME proc \in [Procs -> ProcRows], NEW p \in Procs, NEW pr, pr = Exited(p)
  PROVE  /\ pr \in [Procs -> ProcRows]
         /\ \A q \in Procs : /\ pr[q].space = proc[q].space
                             /\ pr[q].status = IF q = p THEN "zombie" ELSE proc[q].status
<1>1. ASSUME NEW q \in Procs
      PROVE  /\ pr[q] \in ProcRows /\ pr[q].space = proc[q].space
             /\ pr[q].status = IF q = p THEN "zombie" ELSE proc[q].status
  <2>0. proc[q] \in ProcRows
    BY Zenon
  <2>1. CASE q = p
    <3>1. pr[q] = [proc[q] EXCEPT !.status = "zombie"]
      BY <2>1, Zenon DEF Exited
    <3> QED
      BY <2>0, <2>1, <3>1, Zenon DEF ProcRows
  <2>2. CASE q # p /\ proc[q].parent = p /\ proc[q].status = "zombie"
    <3>1. pr[q] = [proc[q] EXCEPT !.parent = 0]
      BY <2>2, Zenon DEF Exited
    <3> QED
      BY <2>0, <2>2, <3>1, Zenon DEF ProcRows
  <2>3. CASE q # p /\ ~ (proc[q].parent = p /\ proc[q].status = "zombie")
    <3>1. pr[q] = proc[q]
      BY <2>3, Zenon DEF Exited
    <3> QED
      BY <2>0, <2>3, <3>1, Zenon
  <2> QED
    BY <2>1, <2>2, <2>3, Zenon
<1>2. pr = [q \in Procs |-> pr[q]]
  BY Zenon DEF Exited
<1> QED
  BY <1>1, <1>2, Zenon

(* exit, kill and a switch leave every process its space. *)
LEMMA ExitKeeps ==
  ASSUME OwnInv, NEW q \in Procs
  PROVE  Exit(q) \/ Kill(q) \/ Switch(q) => OwnInv'
<1>0. SpacesOk(space) /\ OwnersOk(space, proc, current, loaded)
  BY Zenon DEF OwnInv
<1>1. /\ proc \in [Procs -> ProcRows] /\ current \in Procs
      /\ \A p \in Procs : proc[p].space \in Spaces \cup {NoSpace}
  BY <1>0, Zenon DEF OwnersOk, ProcRows
<1>2. ASSUME NEW d \in Procs, proc' = Exited(d), proc[d].status = "live", UNCHANGED space,
             current' # d, current' \in Procs, proc[current'].status = "live",
             loaded' \in Spaces \cup {NoSpace}, loaded' # NoSpace => loaded' = proc[current'].space
      PROVE  OwnInv'
  <2>1. /\ proc' \in [Procs -> ProcRows]
        /\ \A p \in Procs : /\ proc'[p].space = proc[p].space
                            /\ proc'[p].status = IF p = d THEN "zombie" ELSE proc[p].status
    BY <1>1, <1>2, ExitedTable, SMTT(30)
  <2>2. \A p \in Procs : proc'[p].status = "free" <=> proc[p].status = "free"
    BY <1>2, <2>1
  <2>3. proc'[current'].status = "live"
    BY <1>2, <2>1
  <2>4. OwnersOk(space', proc', current', loaded')
    BY <1>0, <1>2, <2>1, <2>2, <2>3, SMTT(30) DEF OwnersOk
  <2> QED
    BY <1>0, <1>2, <2>4, Zenon DEF OwnInv
<1>3. CASE Exit(q)
  BY <1>0, <1>1, <1>2, <1>3, Zenon DEF Exit, OwnersOk
<1>4. CASE Kill(q)
  BY <1>0, <1>1, <1>2, <1>4, Zenon DEF Kill, OwnersOk
<1>5. CASE Switch(q)
  <2>1. /\ UNCHANGED <<space, proc>> /\ current' = q /\ loaded' = proc[q].space
        /\ proc[q].status = "live"
    BY <1>5, Zenon DEF Switch
  <2> QED
    BY <1>0, <1>1, <2>1, Zenon DEF OwnersOk, OwnInv
<1> QED
  BY <1>3, <1>4, <1>5, Zenon

(* process_wait destroys the space of a zombie together with its slot. *)
LEMMA ReapKeeps ==
  ASSUME OwnInv, NEW z \in Procs, Reap(z)
  PROVE  OwnInv'
<1>1. loaded # NoSpace
  BY Zenon DEF Reap, Syscall, InSyscall
<1>2. SpacesOk(space) /\ OwnersOk(space, proc, current, loaded)
  BY Zenon DEF OwnInv
<1>3. PICK s : s = proc[z].space
  BY Zenon
<1>4. /\ proc[z].status = "zombie" /\ z # current
      /\ UNCHANGED current
  BY <1>2, Zenon DEF Reap, OwnersOk
<1>5. s \in Spaces /\ space[s].used
  BY <1>2, <1>3, <1>4, Zenon DEF OwnersOk, ProcRows
<1>7. Replaces(space', space, s, Empty)
  BY <1>3, Zenon DEF Reap, Replaces
<1>8. SpacesOk(space') /\ RowsAre(space', space, s, Empty)
  BY <1>2, <1>5, <1>7, ReplacedRow, NewRows, Zenon
<1>9. loaded' = loaded
  BY <1>1, <1>2, <1>3, <1>4, <1>5, SMTT(30) DEF Reap, OwnersOk
<1>10. ASSUME NEW q \in Procs
       PROVE  /\ proc'[q] \in ProcRows
              /\ q = z => proc'[q].status = "free" /\ proc'[q].space = NoSpace
              /\ q # z => proc'[q].status = proc[q].status /\ proc'[q].space = proc[q].space
  <2>0. proc[q] \in ProcRows
    BY <1>2, Zenon DEF OwnersOk
  <2>1. CASE q = z
    <3>1. proc'[q] = [status |-> "free", space |-> NoSpace, parent |-> 0]
      BY <2>1, Zenon DEF Reap, NewProc
    <3> QED
      BY <2>1, <3>1 DEF ProcRows
  <2>2. CASE q # z
    <3>1. PICK x : x = IF proc[q].parent = z THEN 0 ELSE proc[q].parent
      BY Zenon
    <3>2. proc'[q] = [proc[q] EXCEPT !.parent = x] /\ x \in Procs \cup {0}
      BY <2>0, <2>2, <3>1, Zenon DEF Reap, ProcRows
    <3> QED
      BY <2>0, <2>2, <3>2, Zenon DEF ProcRows
  <2> QED
    BY <2>1, <2>2, Zenon
<1>11. proc' \in [Procs -> ProcRows]
  <2>1. proc' = [q \in Procs |-> proc'[q]]
    BY Zenon DEF Reap
  <2> QED
    BY <1>10, <2>1, Zenon
<1>12. \A t \in Spaces : space'[t].used <=> t # s /\ space[t].used
  BY <1>8, NewRows, Zenon DEF RowsAre
<1>13. OwnersOk(space', proc', current', loaded')
  <2>1. \A q \in Procs : q # z => proc[q].space # s
    BY <1>2, <1>3, <1>5, Slots, Zenon DEF OwnersOk
  <2>2. \A p \in Procs : proc'[p].status = "free" <=> proc'[p].space = NoSpace
    BY <1>2, <1>10, SMTT(30) DEF OwnersOk
  <2>3. \A p \in Procs : proc'[p].space # NoSpace => space'[proc'[p].space].used
    BY <1>2, <1>10, <1>12, <2>1 DEF OwnersOk, ProcRows
  <2>4. \A t \in Spaces : space'[t].used => \E p \in Procs : proc'[p].space = t
    <3>1. ASSUME NEW t \in Spaces, space'[t].used
          PROVE  \E p \in Procs : proc'[p].space = t
      <4>1. PICK p \in Procs : proc[p].space = t
        BY <1>2, <1>12, <3>1, Zenon DEF OwnersOk
      <4>2. p # z
        BY <1>3, <1>12, <3>1, <4>1, Zenon
      <4> QED
        BY <1>10, <4>1, <4>2, Zenon
    <3> QED
      BY <3>1, Zenon
  <2>5. \A p, q \in Procs : proc'[p].space = proc'[q].space /\ proc'[p].space # NoSpace => p = q
    BY <1>2, <1>10 DEF OwnersOk
  <2>6. proc'[current'].status = "live" /\ loaded' = proc'[current'].space
    BY <1>1, <1>2, <1>4, <1>9, <1>10, Zenon DEF OwnersOk
  <2> QED
    BY <1>2, <1>4, <1>9, <1>11, <2>2, <2>3, <2>4, <2>5, <2>6, Zenon DEF OwnersOk
<1> QED
  BY <1>8, <1>13, Zenon DEF OwnInv

-----------------------------------------------------------------------------
(* fork and exec.                                                          *)

(* The first unused slot of the table of address spaces is one. *)
LEMMA FreeSlots ==
  ASSUME NEW S, S \subseteq FreeSpaces, S # {}
  PROVE  Min(S) \in S /\ Min(S) \in Spaces /\ ~space[Min(S)].used
<1>1. S \in SUBSET Nat
  BY Slots, Zenon DEF FreeSpaces
<1>2. Min(S) \in S
  BY <1>1, MinOfNaturals, Zenon
<1> QED
  BY <1>2, Zenon DEF FreeSpaces

Given(qr, pr, d, row) == qr = [pr EXCEPT ![d] = row]
(* A slot for an address space and one for a process are given to each other. *)
LEMMA NewOwner ==
  ASSUME NEW sp, NEW tp, NEW pr, NEW c, NEW l, OwnersOk(sp, pr, c, l),
         NEW t \in Spaces, ~sp[t].used, NEW d \in Procs, pr[d].status = "free",
         \A s \in Spaces : tp[s].used <=> s = t \/ sp[s].used,
         NEW status \in {"live", "zombie"}, NEW qr, Given(qr, pr, d, NewProc(status, t, c))
  PROVE  OwnersOk(tp, qr, c, l)
<1>1. /\ pr \in [Procs -> ProcRows] /\ c \in Procs /\ l \in Spaces \cup {NoSpace}
      /\ \A p \in Procs : pr[p].space \in Spaces \cup {NoSpace}
  BY Zenon DEF OwnersOk, ProcRows
<1>2. PICK new : new = NewProc(status, t, c)
  BY Zenon
<1>3. new \in ProcRows /\ new.status = status /\ new.space = t
  BY <1>1, <1>2, Zenon DEF NewProc, ProcRows
<1>4. qr \in [Procs -> ProcRows] /\ qr[d] = new /\ \A p \in Procs : p # d => qr[p] = pr[p]
  BY <1>1, <1>2, <1>3, Zenon DEF Given
<1>5. \A p \in Procs : pr[p].space # t
  BY Slots DEF OwnersOk
<1>6. \A p \in Procs : qr[p].status = "free" <=> qr[p].space = NoSpace
  BY <1>3, <1>4, Slots DEF OwnersOk
<1>7. \A p \in Procs : qr[p].space # NoSpace => tp[qr[p].space].used
  BY <1>1, <1>3, <1>4 DEF OwnersOk
<1>8. \A s \in Spaces : tp[s].used => \E p \in Procs : qr[p].space = s
  <2>1. ASSUME NEW s \in Spaces, tp[s].used
        PROVE  \E p \in Procs : qr[p].space = s
    <3>1. CASE s = t
      BY <1>3, <1>4, <3>1, Zenon
    <3>2. CASE s # t
      <4>1. PICK p \in Procs : pr[p].space = s
        BY <2>1, <3>2, Zenon DEF OwnersOk
      <4>2. p # d
        BY <4>1, Slots DEF OwnersOk
      <4> QED
        BY <1>4, <4>1, <4>2, Zenon
    <3> QED
      BY <3>1, <3>2, Zenon
  <2> QED
    BY <2>1, Zenon
<1>9. \A p, q \in Procs : qr[p].space = qr[q].space /\ qr[p].space # NoSpace => p = q
  BY <1>3, <1>4, <1>5, SMTT(30) DEF OwnersOk
<1>10. c # d /\ qr[c] = pr[c]
  BY <1>1, <1>4, Zenon DEF OwnersOk
<1> QED
  BY <1>1, <1>4, <1>6, <1>7, <1>8, <1>9, <1>10, Zenon DEF OwnersOk

(* process_fork takes one space and one process slot, whether the clone succeeds or
   not. *)
LEMMA ForkKeeps ==
  ASSUME OwnInv, Fork
  PROVE  OwnInv'
<1>1. loaded # NoSpace /\ UNCHANGED <<current, loaded>> /\ FreeSpaces # {}
  BY Zenon DEF Fork, Syscall, InSyscall
<1>2. SpacesOk(space) /\ OwnersOk(space, proc, current, loaded)
  BY Zenon DEF OwnInv
<1>3. PICK first, rest : first = Min(FreeSpaces) /\ rest = FreeSpaces \ {first}
  BY Zenon
<1>4. PICK shared : shared = CowEntries(space[loaded].pte)
  BY Zenon
<1>5. PICK c \in Procs :
        /\ proc[c].status = "free"
        /\ rest = {} => /\ space' = [space EXCEPT ![first] = Fresh]
                        /\ proc' = [proc EXCEPT ![c] = NewProc("zombie", first, current)]
        /\ rest # {} => /\ space' = [space EXCEPT
                              ![loaded].pte = shared,
                              ![Min(rest)] = [space[loaded] EXCEPT !.pte = shared]]
                        /\ proc' = [proc EXCEPT ![c] = NewProc("live", Min(rest), current)]
  BY <1>3, <1>4, Zenon DEF Fork
<1>6. CASE rest = {}
  <2>1. first \in Spaces /\ ~space[first].used
    BY <1>1, <1>3, FreeSlots, Zenon
  <2>2. SpacesOk(space') /\ RowsAre(space', space, first, Fresh)
    <3>1. Replaces(space', space, first, Fresh)
      BY <1>5, <1>6, Zenon DEF Replaces
    <3> QED
      BY <1>2, <2>1, <3>1, ReplacedRow, NewRows, Zenon
  <2>3. \A s \in Spaces : space'[s].used <=> s = first \/ space[s].used
    BY <2>2, NewRows, Zenon DEF RowsAre
  <2>4. OwnersOk(space', proc', current, loaded)
    <3>1. Given(proc', proc, c, NewProc("zombie", first, current)) /\ proc[c].status = "free"
      BY <1>5, <1>6, Zenon DEF Given
    <3> QED
      BY <1>2, <2>1, <2>3, <3>1, NewOwner, Zenon
  <2> QED
    BY <1>1, <2>2, <2>4, Zenon DEF OwnInv
<1>7. CASE rest # {}
  <2>1. PICK t, row, mid : /\ t = Min(rest) /\ row = [space[loaded] EXCEPT !.pte = shared]
                           /\ mid = [space EXCEPT ![loaded] = row]
    BY Zenon
  <2>2. t \in Spaces /\ ~space[t].used
    BY <1>3, <1>7, <2>1, FreeSlots, Zenon
  <2>3. loaded \in Spaces /\ IsRow(row) /\ row.used
    BY <1>1, <2>1, LoadedSlot, EditedRow, Zenon
  <2>4. SpacesOk(mid) /\ RowsAre(mid, space, loaded, row)
    <3>1. Replaces(mid, space, loaded, row)
      BY <2>1, Zenon DEF Replaces
    <3> QED
      BY <1>2, <2>3, <3>1, ReplacedRow, Zenon
  <2>5. Replaces(space', mid, t, row)
    BY <1>5, <1>7, <2>1, Zenon DEF Replaces
  <2>6. SpacesOk(space') /\ RowsAre(space', mid, t, row)
    BY <2>2, <2>3, <2>4, <2>5, ReplacedRow, Zenon
  <2>7. \A s \in Spaces : space'[s].used <=> s = t \/ space[s].used
    BY <1>1, <2>3, <2>4, <2>6, LoadedSlot, Zenon DEF RowsAre
  <2>8. Given(proc', proc, c, NewProc("live", t, current)) /\ proc[c].status = "free"
    BY <1>5, <1>7, <2>1, Zenon DEF Given
  <2>9. OwnersOk(space', proc', current, loaded)
    BY <1>2, <2>2, <2>7, <2>8, NewOwner, Zenon
  <2> QED
    BY <1>1, <2>6, <2>9, Zenon DEF OwnInv
<1> QED
  BY <1>6, <1>7, Zenon

(* exec gives the process the space it has built in exchange for the old one, or
   leaves everything but CR3 as it was. *)
LEMMA ExecKeeps ==
  ASSUME OwnInv, NEW image \in Images, Exec(image)
  PROVE  OwnInv'
<1>1. UNCHANGED current /\ FreeSpaces # {}
  BY Zenon DEF Exec
<1>2. SpacesOk(space) /\ OwnersOk(space, proc, current, loaded)
  BY Zenon DEF OwnInv
<1>3. PICK s, old : s = Min(FreeSpaces) /\ old = proc[current].space
  BY Zenon
<1>4. s \in Spaces /\ ~space[s].used
  BY <1>1, <1>3, FreeSlots, Zenon
<1>5. \/ UNCHANGED <<space, proc>> /\ loaded' = NoSpace
      \/ /\ \E table : space' = [space EXCEPT ![s] = [Fresh EXCEPT !.pte = table], ![old] = Empty]
         /\ proc' = [proc EXCEPT ![current].space = s]
         /\ loaded' = s
  BY <1>3, Zenon DEF Exec
<1>6. CASE UNCHANGED <<space, proc>> /\ loaded' = NoSpace
  BY <1>1, <1>2, <1>6, Zenon DEF OwnInv, OwnersOk
<1>7. CASE /\ \E table : space' = [space EXCEPT ![s] = [Fresh EXCEPT !.pte = table], ![old] = Empty]
           /\ proc' = [proc EXCEPT ![current].space = s]
           /\ loaded' = s
  <2>1. PICK table : space' = [space EXCEPT ![s] = [Fresh EXCEPT !.pte = table], ![old] = Empty]
    BY <1>7, Zenon
  <2>2. PICK row, mid : row = [Fresh EXCEPT !.pte = table] /\ mid = [space EXCEPT ![s] = row]
    BY Zenon
  <2>3. IsRow(row) /\ row.used
    BY <2>2, NewRows, EditedRow, Zenon
  <2>4. SpacesOk(mid) /\ RowsAre(mid, space, s, row)
    <3>1. Replaces(mid, space, s, row)
      BY <2>2, Zenon DEF Replaces
    <3> QED
      BY <1>2, <1>4, <2>3, <3>1, ReplacedRow, Zenon
  <2>5. /\ old \in Spaces /\ space[old].used /\ old # s
        /\ proc \in [Procs -> ProcRows] /\ current \in Procs /\ proc[current].status = "live"
    <3>1. /\ proc \in [Procs -> ProcRows] /\ current \in Procs /\ proc[current].status = "live"
          /\ old # NoSpace
      BY <1>2, <1>3 DEF OwnersOk
    <3>2. old \in Spaces /\ space[old].used
      BY <1>2, <1>3, <3>1, Zenon DEF OwnersOk, ProcRows
    <3> QED
      BY <1>4, <3>1, <3>2, Zenon
  <2>6. Replaces(space', mid, old, Empty)
    BY <2>1, <2>2, Zenon DEF Replaces
  <2>7. SpacesOk(space') /\ RowsAre(space', mid, old, Empty)
    BY <2>4, <2>5, <2>6, ReplacedRow, NewRows, Zenon
  <2>8. \A t \in Spaces : space'[t].used <=> t = s \/ (t # old /\ space[t].used)
    BY <2>3, <2>4, <2>5, <2>7, NewRows, Zenon DEF RowsAre
  <2>9. /\ proc' \in [Procs -> ProcRows]
        /\ proc'[current].space = s /\ proc'[current].status = "live"
        /\ \A p \in Procs : p # current => proc'[p] = proc[p]
    <3>1. PICK new : new = [proc[current] EXCEPT !.space = s]
      BY Zenon
    <3>2. new \in ProcRows /\ new.space = s /\ new.status = "live"
      BY <1>4, <2>5, <3>1, Zenon DEF ProcRows
    <3>3. proc' = [proc EXCEPT ![current] = new]
      BY <1>7, <3>1, Zenon
    <3> QED
      BY <2>5, <3>2, <3>3, Zenon
  <2>10. \A p \in Procs : p # current => proc[p].space # s /\ proc[p].space # old
    BY <1>2, <1>3, <1>4, <2>5, Slots DEF OwnersOk
  <2>11. \A p \in Procs : proc'[p].status = "free" <=> proc'[p].space = NoSpace
    BY <1>2, <1>4, <2>9, Slots DEF OwnersOk
  <2>12. \A p \in Procs : proc'[p].space # NoSpace => space'[proc'[p].space].used
    BY <1>2, <1>4, <2>8, <2>9, <2>10, SMTT(30) DEF OwnersOk, ProcRows
  <2>13. ASSUME NEW t \in Spaces, space'[t].used
         PROVE  \E p \in Procs : proc'[p].space = t
    <3>1. CASE t = s
      BY <2>5, <2>9, <3>1, Zenon
    <3>2. CASE t # s
      <4>1. PICK p \in Procs : proc[p].space = t
        BY <1>2, <2>8, <2>13, <3>2, Zenon DEF OwnersOk
      <4>2. p # current
        BY <1>3, <2>8, <2>13, <3>2, <4>1, Zenon
      <4> QED
        BY <2>9, <4>1, <4>2, Zenon
    <3> QED
      BY <3>1, <3>2, Zenon
  <2>14. \A p, q \in Procs : proc'[p].space = proc'[q].space /\ proc'[p].space # NoSpace => p = q
    BY <1>2, <2>9, <2>10, SMTT(30) DEF OwnersOk
  <2> QED
    BY <1>1, <1>4, <1>7, <2>5, <2>7, <2>9, <2>11, <2>12, <2>13, <2>14, Zenon DEF OwnersOk, OwnInv
<1> QED
  BY <1>5, <1>6, <1>7, Zenon

-----------------------------------------------------------------------------
(* The theorems.                                                           *)

(* The first process owns the only space in use. *)
LEMMA OwnInvInit == Init => OwnInv
<1> SUFFICES ASSUME Init PROVE OwnInv
  BY Zenon
<1>1. PICK table : space = [s \in Spaces |-> IF s = 1 THEN [Fresh EXCEPT !.pte = table] ELSE Empty]
  BY Zenon DEF Init
<1>2. /\ proc = [p \in Procs |-> IF p = 1 THEN NewProc("live", 1, 0)
                                 ELSE NewProc("free", NoSpace, 0)]
      /\ current = 1 /\ loaded = 1
  BY Zenon DEF Init
<1>3. PICK row : row = [Fresh EXCEPT !.pte = table]
  BY Zenon
<1>4. IsRow(row) /\ row.used
  BY <1>3, NewRows, EditedRow, Zenon
<1>5. space[1] = row /\ \A s \in Spaces : s # 1 => space[s] = Empty
  BY <1>1, <1>3, Slots, Zenon
<1>6. SpacesOk(space)
  <2>1. space = [s \in Spaces |-> space[s]]
    BY <1>1, Zenon
  <2>2. ASSUME NEW s \in Spaces
        PROVE  IsRow(space[s])
    BY <1>4, <1>5, NewRows, Zenon
  <2> QED
    BY <2>1, <2>2, Zenon DEF SpacesOk
<1>7. \A s \in Spaces : space[s].used <=> s = 1
  BY <1>4, <1>5, NewRows, Zenon
<1>8. /\ NewProc("live", 1, 0) \in ProcRows /\ NewProc("free", NoSpace, 0) \in ProcRows
      /\ NewProc("live", 1, 0).status = "live" /\ NewProc("live", 1, 0).space = 1
      /\ NewProc("free", NoSpace, 0).status = "free"
      /\ NewProc("free", NoSpace, 0).space = NoSpace
  BY Slots DEF NewProc, ProcRows
<1>9. /\ proc \in [Procs -> ProcRows] /\ proc[1].status = "live" /\ proc[1].space = 1
      /\ \A p \in Procs : p # 1 => proc[p].status = "free" /\ proc[p].space = NoSpace
  BY <1>2, <1>8, Slots, Zenon
<1>10. OwnersOk(space, proc, current, loaded)
  BY <1>2, <1>7, <1>9, Slots DEF OwnersOk
<1> QED
  BY <1>6, <1>10, Zenon DEF OwnInv

(* Every system call and every fault keeps spaces and owners together. *)
LEMMA OwnInvNext == OwnInv /\ [Next]_vars => OwnInv'
<1> SUFFICES ASSUME OwnInv, [Next]_vars PROVE OwnInv'
  BY Zenon
<1>1. CASE \E v \in VPages, x \in Data : UserWrite(v, x) \/ KernelWrite(v, x)
  <2>1. ASSUME NEW v \in VPages, NEW x \in Data, UserWrite(v, x)
        PROVE  OwnInv'
    BY <2>1, SameKeeps, Zenon DEF UserWrite
  <2> QED
    BY <1>1, <2>1, FaultKeeps, Zenon
<1>2. CASE \E v \in VPages, write \in BOOLEAN : PageFault(v, write)
  BY <1>2, FaultKeeps, Zenon
<1>3. CASE \E v \in VPages, n \in Lengths, flags \in Flags : MmapAt(v, n, flags)
  BY <1>3, MmapKeeps, Zenon DEF MmapAt, Syscall, InSyscall
<1>4. CASE \E n \in Lengths, flags \in Flags : MmapAnywhere(n, flags)
  BY <1>4, MmapKeeps, Zenon DEF MmapAnywhere, Syscall, InSyscall
<1>5. CASE \E v \in VPages, n \in Lengths : Munmap(v, n)
  BY <1>5, MunmapKeeps, Zenon
<1>6. CASE Fork
  BY <1>6, ForkKeeps, Zenon
<1>7. CASE \E image \in Images : Exec(image)
  BY <1>7, ExecKeeps, Zenon
<1>8. CASE \E p \in Procs : Exit(p) \/ Kill(p) \/ Reap(p) \/ Switch(p)
  BY <1>8, ExitKeeps, ReapKeeps, Zenon
<1>9. CASE UNCHANGED vars
  BY <1>9, SameKeeps, Zenon DEF vars
<1> QED
  BY <1>1, <1>2, <1>3, <1>4, <1>5, <1>6, <1>7, <1>8, <1>9, Zenon DEF Next

(* The address space that the CPU uses is the kernel's or that of the process on
   the CPU, and it has not been destroyed, for any number of processes and spaces:
   vmm_switch and every path of fork, exec, exit and wait keep it so. *)
THEOREM LoadedSound == Spec => []LoadedIsCurrents
<1>1. OwnInv => LoadedIsCurrents
  BY Zenon DEF OwnInv, OwnersOk, LoadedIsCurrents
<1> QED
  BY <1>1, OwnInvInit, OwnInvNext, PTL DEF Spec

(* Neither a failing fork or exec nor wait leaks an address space or frees it
   twice: the spaces in use and the process slots in use belong to each other one
   to one, for any number of both. *)
THEOREM OwnersSound == Spec => []SpacesAreOwned
<1>1. OwnInv => SpacesAreOwned
  <2> SUFFICES ASSUME OwnInv PROVE SpacesAreOwned
    BY Zenon
  <2>1. OwnersOk(space, proc, current, loaded)
    BY Zenon DEF OwnInv
  <2>2. \A p \in Procs : proc[p].status # "free" => proc[p].space \in Spaces /\ space[proc[p].space].used
    BY <2>1, Zenon DEF OwnersOk, ProcRows
  <2>3. Used = {proc[p].space : p \in {q \in Procs : proc[q].status # "free"}}
    <3>1. ASSUME NEW s \in Used
          PROVE  \E p \in Procs : proc[p].status # "free" /\ proc[p].space = s
      <4>1. s \in Spaces /\ space[s].used
        BY Zenon DEF Used
      <4> QED
        BY <2>1, <4>1, Slots DEF OwnersOk
    <3>2. ASSUME NEW p \in Procs, proc[p].status # "free"
          PROVE  proc[p].space \in Used
      BY <2>2, <3>2, Zenon DEF Used
    <3> QED
      BY <3>1, <3>2, Zenon
  <2>4. \A p, q \in Procs : p # q /\ proc[p].status # "free" => proc[p].space # proc[q].space
    BY <2>1, Zenon DEF OwnersOk
  <2> QED
    BY <2>3, <2>4, Zenon DEF SpacesAreOwned
<1> QED
  BY <1>1, OwnInvInit, OwnInvNext, PTL DEF Spec
=============================================================================
