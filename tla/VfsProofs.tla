----------------------------- MODULE VfsProofs -----------------------------
(***************************************************************************)
(* Proofs about Vfs: the descriptor tables stay with their processes, for  *)
(* any number of slots and descriptors, any disk and any failing sectors.  *)
(***************************************************************************)
EXTENDS Vfs, NaturalsInduction, WellFoundedInduction, TLAPS

-----------------------------------------------------------------------------
(* Tables.                                                                 *)

Fds == 0 .. LastFd
IsDesc(d) ==
  d.name \in BOOLEAN /\ d = [name |-> d.name, kind |-> d.kind, position |-> d.position, fat |-> d.fat]
IsTable(t) == t = [fd \in Fds |-> t[fd]] /\ \A fd \in Fds : IsDesc(t[fd])
Holds(t) == \E fd \in FileFds : t[fd].name

(* The descriptors for files are descriptors. *)
LEMMA FdsAre == FileFds \subseteq Fds
BY VfsAssumption DEF FileFds, Fds

(* One descriptor of a table is replaced. *)
LEMMA PutDesc ==
  ASSUME NEW t, IsTable(t), NEW fd, NEW d, fd \in Fds => IsDesc(d)
  PROVE  IsTable([t EXCEPT ![fd] = d])
<1>1. DOMAIN t = Fds
  BY Zenon DEF IsTable
<1>2. [t EXCEPT ![fd] = d] = [k \in Fds |-> IF k = fd THEN d ELSE t[k]]
  BY <1>1, Zenon
<1> QED
  BY <1>2, Zenon DEF IsTable

(* vfs_open leaves a table. *)
LEMMA OpenTable ==
  ASSUME NEW t, IsTable(t), NEW path, NEW bad
  PROVE  IsTable(vfs_open(t, path, bad).table)
<1>1. PICK fd, f : fd = Min(FreeFds(t)) /\ f = fat32_open(volume, disk, bad, path)
  BY Zenon
<1>2. IsTable(OpenFat(t, fd, f))
  <2>1. PICK d : d = [name |-> f # NoFile, kind |-> 2, position |-> 0,
                      fat |-> IF f # NoFile THEN f ELSE t[fd].fat]
    BY Zenon
  <2>2. IsDesc(d)
    BY <2>1, Zenon DEF IsDesc
  <2>3. OpenFat(t, fd, f) = [t EXCEPT ![fd] = d]
    BY <2>1, Zenon DEF OpenFat
  <2>4. IsTable([t EXCEPT ![fd] = d])
    BY <2>2, PutDesc, Zenon
  <2> QED
    BY <2>3, <2>4, Zenon
<1>3. IsTable([t EXCEPT ![fd].name = TRUE, ![fd].position = 0, ![fd].kind = 0])
  <2>1. PICK old, d : /\ old = t[fd]
                      /\ d = [[[old EXCEPT !.name = TRUE] EXCEPT !.position = 0] EXCEPT !.kind = 0]
    BY Zenon
  <2>2. fd \in Fds => IsDesc(d)
    <3>1. fd \in Fds => IsDesc(old)
      BY <2>1, Zenon DEF IsTable
    <3> QED
      BY <2>1, <3>1, Zenon DEF IsDesc
  <2>3. [t EXCEPT ![fd].name = TRUE, ![fd].position = 0, ![fd].kind = 0] = [t EXCEPT ![fd] = d]
    BY <2>1, Zenon DEF IsTable
  <2> QED
    BY <2>2, <2>3, PutDesc, Zenon
<1> QED
  BY <1>1, <1>2, <1>3, Zenon DEF vfs_open

(* vfs_close leaves a table, and opens nothing. *)
LEMMA CloseTable ==
  ASSUME NEW t, IsTable(t), NEW fd
  PROVE  /\ IsTable(vfs_close(t, fd))
         /\ Holds(vfs_close(t, fd)) => Holds(t)
<1>1. CASE fd \in FileFds /\ t[fd].name
  <2>1. PICK old, d : old = t[fd] /\ d = [[old EXCEPT !.name = FALSE] EXCEPT !.kind = 0]
    BY Zenon
  <2>2. IsDesc(d) /\ d.name = FALSE /\ fd \in Fds
    <3>1. IsDesc(old) /\ fd \in Fds
      BY <1>1, <2>1, FdsAre, Zenon DEF IsTable
    <3> QED
      BY <2>1, <3>1, Zenon DEF IsDesc
  <2>3. vfs_close(t, fd) = [t EXCEPT ![fd] = d]
    BY <1>1, <2>1, <2>2, Zenon DEF vfs_close, IsTable
  <2>4. IsTable(vfs_close(t, fd))
    <3>1. IsTable([t EXCEPT ![fd] = d])
      BY <2>2, PutDesc, Zenon
    <3> QED
      BY <2>3, <3>1, Zenon
  <2>5. \A k \in Fds : vfs_close(t, fd)[k] = IF k = fd THEN d ELSE t[k]
    BY <2>2, <2>3, Zenon DEF IsTable
  <2> QED
    BY <2>2, <2>4, <2>5, FdsAre, Zenon DEF Holds
<1>2. CASE ~(fd \in FileFds /\ t[fd].name)
  BY <1>2, Zenon DEF vfs_close
<1> QED
  BY <1>1, <1>2, Zenon

(* vfs_read leaves a table. *)
LEMMA ReadTable ==
  ASSUME NEW t, IsTable(t), NEW fd, NEW n, NEW bad
  PROVE  IsTable(vfs_read(t, fd, n, bad).table)
<1>1. ASSUME NEW to
      PROVE  IsTable([t EXCEPT ![fd].position = to])
  <2>1. PICK d : d = [t[fd] EXCEPT !.position = to]
    BY Zenon
  <2>2. fd \in Fds => IsDesc(d)
    BY <2>1 DEF IsDesc, IsTable
  <2> QED
    BY <2>1, <2>2, PutDesc, Zenon
<1>2. ASSUME NEW to
      PROVE  IsTable([t EXCEPT ![fd].fat.position = to])
  <2>1. PICK f, d : f = [t[fd].fat EXCEPT !.position = to] /\ d = [t[fd] EXCEPT !.fat = f]
    BY Zenon
  <2>2. fd \in Fds => IsDesc(d)
    BY <2>1 DEF IsDesc, IsTable
  <2>3. [t EXCEPT ![fd].fat.position = to] = [t EXCEPT ![fd] = d]
    BY <2>1, Zenon
  <2> QED
    BY <2>2, <2>3, PutDesc, Zenon
<1> QED
  BY <1>1, <1>2, Zenon DEF vfs_read

(* Loading a program through a descriptor leaves a table. *)
LEMMA LoadTable ==
  ASSUME NEW t, IsTable(t), NEW path, NEW bad, NEW oom
  PROVE  IsTable(LoadImage(t, path, bad, oom).table)
<1>1. PICK o : o = vfs_open(t, path, bad)
  BY Zenon
<1>2. PICK r : r = vfs_read(o.table, o.ret, ExecMax, bad)
  BY Zenon
<1>3. IsTable(o.table)
  BY <1>1, OpenTable, Zenon
<1>4. IsTable(r.table)
  BY <1>2, <1>3, ReadTable, Zenon
<1>5. IsTable(vfs_close(o.table, o.ret)) /\ IsTable(vfs_close(r.table, o.ret))
  BY <1>3, <1>4, CloseTable, Zenon
<1> QED
  BY <1>1, <1>2, <1>3, <1>5, Zenon DEF LoadImage

(* vfs_release_process *)
AreTables(fs) == fs = [s \in Slots |-> fs[s]] /\ \A s \in Slots : IsTable(fs[s])

Freed(fs, s, gs) == AreTables(gs) /\ ~Holds(gs[s]) /\ \A r \in Slots \ {s} : gs[r] = fs[r]

(* vfs_release_process closes what its process has open, and nothing of another's. *)
LEMMA Released ==
  ASSUME NEW fs, AreTables(fs), NEW s \in Slots, NEW gs, gs = Release(fs, s)
  PROVE  Freed(fs, s, gs)
<1>1. PICK t, u : /\ t = fs[s]
                  /\ u = [fd \in 0 .. LastFd |->
                            IF fd \in FileFds THEN [t[fd] EXCEPT !.name = FALSE, !.kind = 0, !.position = 0]
                            ELSE t[fd]]
  BY Zenon
<1>2. gs = [fs EXCEPT ![s] = u]
  BY <1>1, Zenon DEF Release
<1>3. gs = [r \in Slots |-> IF r = s THEN u ELSE fs[r]]
  BY <1>2, Zenon DEF AreTables
<1>4. \A fd \in Fds : IsDesc(t[fd])
  BY <1>1, Zenon DEF AreTables, IsTable
<1>5. ASSUME NEW fd \in Fds
      PROVE  IsDesc(u[fd]) /\ (fd \in FileFds => u[fd].name = FALSE)
  <2>1. CASE fd \in FileFds
    <3>1. PICK d : d = [[[t[fd] EXCEPT !.name = FALSE] EXCEPT !.kind = 0] EXCEPT !.position = 0]
      BY Zenon
    <3>2. u[fd] = d
      BY <1>1, <2>1, <3>1, Zenon DEF Fds
    <3> QED
      BY <1>4, <3>1, <3>2, Zenon DEF IsDesc
  <2>2. CASE fd \notin FileFds
    BY <1>1, <1>4, <2>2, Zenon DEF Fds
  <2> QED
    BY <2>1, <2>2, Zenon
<1>6. IsTable(u)
  BY <1>1, <1>5, Zenon DEF IsTable, Fds
<1>7. ~Holds(u)
  BY <1>5, FdsAre, Zenon DEF Holds
<1> QED
  BY <1>3, <1>6, <1>7, Zenon DEF AreTables, Freed

-----------------------------------------------------------------------------
(* The invariant.                                                          *)

(* vfs.c works for the process on the CPU, and a process that makes a call that opens
   something is alive. *)
TablesInv ==
  /\ AreTables(files)
  /\ state \in [Slots -> {"free", "live", "zombie"}]
  /\ cpu \in Slots /\ active = cpu /\ current \in {Idle, cpu}
  /\ current # Idle /\ cpu # Worker => state[cpu] = "live"
  /\ \A s \in Slots : Holds(files[s]) => state[s] = "live"

(* idle has no slot; the worker and the first process have. *)
LEMMA NotIdle == Idle \notin Slots /\ Worker \in Slots /\ Boot \in Slots /\ Boot # Idle
BY VfsAssumption DEF Idle, Worker, Boot

(* What PrivateTables asks of one slot. *)
KeepsPrivate(s) ==
  /\ files'[s] # files[s] =>
       \/ s = cpu
       \/ state[s] = "free"
       \/ state'[s] # "live" /\ ~Holds(files'[s])
  /\ state[s] = "free" /\ state'[s] = "live" =>
       /\ files'[s] = files[IF current = Idle THEN Worker ELSE cpu]
       /\ s # cpu => files'[cpu] = files[cpu]
Good == TablesInv' /\ \A s \in Slots : KeepsPrivate(s)

(* A call that leaves the processes alone and gives the caller table t. *)
LEMMA CallIsGood ==
  ASSUME TablesInv, cpu # Worker, NEW t, IsTable(t), Holds(t) => current # Idle \/ Holds(files[cpu]),
         files' = [files EXCEPT ![active] = t], UNCHANGED <<cpu, current, active, state>>
  PROVE  Good
<1>1. /\ files = [s \in Slots |-> files[s]] /\ \A s \in Slots : IsTable(files[s])
      /\ active = cpu /\ cpu \in Slots
  BY Zenon DEF TablesInv, AreTables
<1>2. files' = [s \in Slots |-> IF s = cpu THEN t ELSE files[s]]
  BY <1>1, Zenon
<1>3. AreTables(files')
  BY <1>1, <1>2, Zenon DEF AreTables
<1>4. ASSUME NEW s \in Slots, Holds(files'[s])
      PROVE  state'[s] = "live"
  BY <1>1, <1>2, <1>4, Zenon DEF TablesInv
<1>5. TablesInv'
  BY <1>3, <1>4, Zenon DEF TablesInv, AreTables, IsTable, IsDesc, Holds
<1>6. ASSUME NEW s \in Slots
      PROVE  KeepsPrivate(s)
  BY <1>1, <1>2, Zenon DEF KeepsPrivate
<1> QED
  BY <1>5, <1>6, Zenon DEF Good

(* Process r dies or is reaped and its files are released; then q runs, or nobody. *)
LEMMA ReleaseIsGood ==
  ASSUME TablesInv, NEW r \in Slots, NEW x \in {"zombie", "free"}, state[r] # "free",
         files' = Release(files, r), state' = [state EXCEPT ![r] = x],
         \/ UNCHANGED <<cpu, current, active>> /\ (r = cpu => current = Idle \/ cpu = Worker)
         \/ current' = Idle /\ UNCHANGED <<cpu, active>>
         \/ \E q \in Slots \ {r} : state[q] = "live" /\ cpu' = q /\ current' = q /\ active' = q
  PROVE  Good
<1>1. AreTables(files) /\ state \in [Slots -> {"free", "live", "zombie"}] /\ active = cpu /\ cpu \in Slots
  BY Zenon DEF TablesInv
<1>2. AreTables(files') /\ ~Holds(files'[r]) /\ \A s \in Slots \ {r} : files'[s] = files[s]
  <2>1. PICK fs, gs : fs = files /\ gs = Release(fs, r)
    BY Zenon
  <2>2. AreTables(fs)
    BY <1>1, <2>1, Zenon
  <2>3. Freed(fs, r, gs)
    BY <2>1, <2>2, Released, Zenon
  <2> QED
    BY <2>1, <2>3, Zenon DEF Freed
<1>3. /\ state' \in [Slots -> {"free", "live", "zombie"}] /\ state'[r] = x
      /\ \A s \in Slots \ {r} : state'[s] = state[s]
  BY <1>1, Zenon
<1>4. ASSUME NEW s \in Slots, Holds(files'[s])
      PROVE  state'[s] = "live"
  BY <1>2, <1>3, <1>4, Zenon DEF TablesInv
<1>5. /\ cpu' \in Slots /\ active' = cpu' /\ current' \in {Idle, cpu'}
      /\ current' # Idle /\ cpu' # Worker => state'[cpu'] = "live"
  BY <1>1, <1>3, NotIdle, Zenon DEF TablesInv
<1>6. TablesInv'
  BY <1>2, <1>3, <1>4, <1>5, Zenon DEF TablesInv, AreTables, IsTable, IsDesc, Holds
<1>7. ASSUME NEW s \in Slots
      PROVE  KeepsPrivate(s)
  BY <1>2, <1>3, Zenon DEF KeepsPrivate
<1> QED
  BY <1>6, <1>7, Zenon DEF Good

(* The free slot that process_fork takes first is a free slot: a set of numbers that is
   not empty has a least one, and Min is it. *)
LEMMA FirstSlot ==
  ASSUME NEW S \in SUBSET Nat, S # {}
  PROVE  Min(S) \in S
<1> DEFINE R == {ss \in Nat \X Nat : ss[1] < ss[2]}
<1>1. IsWellFoundedOn(R, Nat)
  BY NatLessThanWellFounded, Zenon DEF OpToRel
<1>2. ASSUME NEW x \in Nat, NEW y \in Nat, y < x
      PROVE  <<y, x>> \in R
  BY <1>2, Zenon
<1> HIDE DEF R
<1>3. PICK x \in S : \A y \in S : ~ (<<y, x>> \in R)
  BY <1>1, WFMin, Zenon
<1>4. ASSUME NEW y \in S
      PROVE  x <= y
  <2>1. x \in Nat /\ y \in Nat
    BY Zenon
  <2>2. ~ (y < x)
    BY <1>2, <1>3, <2>1, Zenon
  <2> QED
    BY <2>1, <2>2, SMTT(30)
<1> QED
  BY <1>4, Zenon DEF Min

(* process_fork; the child of a failed clone is released at once. *)
LEMMA ForkIsGood ==
  ASSUME TablesInv, cpu # Worker, fk
  PROVE  Good
<1>1. PICK c, from : c = Child /\ from = IF current = Idle THEN Worker ELSE current
  BY Zenon
<1>2. c \in Slots /\ state[c] = "free"
  <2>1. PICK S : S = {s \in Slots : state[s] = "free"}
    BY Zenon
  <2>2. S \in SUBSET Nat /\ S # {}
    BY <2>1, VfsAssumption, Zenon DEF fk
  <2>3. Min(S) \in S
    BY <2>2, FirstSlot, Zenon
  <2> QED
    BY <1>1, <2>1, <2>3, Zenon DEF Child
<1>3. /\ AreTables(files) /\ state \in [Slots -> {"free", "live", "zombie"}] /\ cpu \in Slots
      /\ current \in {Idle, cpu} /\ from \in Slots /\ active = cpu
      /\ from = IF current = Idle THEN Worker ELSE cpu
  BY <1>1, NotIdle, Zenon DEF TablesInv
<1>4. UNCHANGED <<cpu, current, active>>
  BY Zenon DEF fk, Stay
<1>5. PICK gs : gs = Inherit(from, c)
  BY Zenon
<1>6. AreTables(gs) /\ gs[c] = files[from] /\ \A s \in Slots \ {c} : gs[s] = files[s]
  <2>1. gs = [s \in Slots |-> IF s = c THEN files[from] ELSE files[s]]
    BY <1>2, <1>3, <1>5, Zenon DEF Inherit, AreTables
  <2> QED
    BY <1>2, <1>3, <2>1, Zenon DEF AreTables
<1>7. CASE files' = gs /\ state' = [state EXCEPT ![c] = "live"]
  <2>1. /\ state' \in [Slots -> {"free", "live", "zombie"}] /\ state'[c] = "live"
        /\ \A s \in Slots \ {c} : state'[s] = state[s]
    BY <1>2, <1>3, <1>7, Zenon
  <2>2. ASSUME NEW s \in Slots, Holds(files'[s])
        PROVE  state'[s] = "live"
    BY <1>6, <1>7, <2>1, <2>2, Zenon DEF TablesInv
  <2>3. current' # Idle /\ cpu' # Worker => state'[cpu'] = "live"
    BY <1>2, <1>3, <1>4, <2>1, Zenon DEF TablesInv
  <2>4. TablesInv'
    BY <1>3, <1>4, <1>6, <1>7, <2>1, <2>2, <2>3, SMTT(30) DEF TablesInv, AreTables, IsTable, IsDesc, Holds
  <2>5. ASSUME NEW s \in Slots
        PROVE  KeepsPrivate(s)
    BY <1>2, <1>3, <1>6, <1>7, <2>1, Zenon DEF KeepsPrivate
  <2> QED
    BY <2>4, <2>5, Zenon DEF Good
<1>8. CASE files' = Release(gs, c) /\ state' = [state EXCEPT ![c] = "zombie"]
  <2>1. /\ state' \in [Slots -> {"free", "live", "zombie"}] /\ state'[c] = "zombie"
        /\ \A s \in Slots \ {c} : state'[s] = state[s]
    BY <1>2, <1>3, <1>8, Zenon
  <2>2. AreTables(files') /\ ~Holds(files'[c]) /\ \A s \in Slots \ {c} : files'[s] = files[s]
    <3>1. PICK hs : hs = Release(gs, c)
      BY Zenon
    <3>2. AreTables(gs) /\ c \in Slots
      BY <1>2, <1>6, Zenon
    <3>3. Freed(gs, c, hs)
      BY <3>1, <3>2, Released, Zenon
    <3> QED
      BY <1>6, <1>8, <3>1, <3>3, Zenon DEF Freed
  <2>3. ASSUME NEW s \in Slots, Holds(files'[s])
        PROVE  state'[s] = "live"
    BY <2>1, <2>2, <2>3, Zenon DEF TablesInv
  <2>4. current' # Idle /\ cpu' # Worker => state'[cpu'] = "live"
    BY <1>2, <1>3, <1>4, <2>1, Zenon DEF TablesInv
  <2>5. TablesInv'
    BY <1>3, <1>4, <2>1, <2>2, <2>3, <2>4, Zenon DEF TablesInv, AreTables, IsTable, IsDesc, Holds
  <2>6. ASSUME NEW s \in Slots
        PROVE  KeepsPrivate(s)
    BY <1>2, <2>1, <2>2, Zenon DEF KeepsPrivate
  <2> QED
    BY <2>5, <2>6, Zenon DEF Good
<1> QED
  BY <1>1, <1>5, <1>7, <1>8, Zenon DEF fk

(* A switch, or none, changes no table, and vfs.c works for who runs afterwards. *)
LEMMA SwitchIsGood ==
  ASSUME TablesInv, UNCHANGED <<files, state>>,
         \/ \E s \in CanRun : s \in Slots /\ Activate(s)
         \/ NobodyReady \/ Stay
  PROVE  Good
<1>1. /\ cpu' \in Slots /\ active' = cpu' /\ current' \in {Idle, cpu'}
      /\ current' # Idle /\ cpu' # Worker => state'[cpu'] = "live"
  BY NotIdle, Zenon DEF TablesInv, CanRun, Activate, NobodyReady, Stay
<1>2. TablesInv'
  BY <1>1, Zenon DEF TablesInv, AreTables, IsTable, IsDesc, Holds
<1>3. ASSUME NEW s \in Slots
      PROVE  KeepsPrivate(s)
  BY Zenon DEF KeepsPrivate
<1> QED
  BY <1>2, <1>3, Zenon DEF Good

(* started is the set of slots with an entry in the ready list. *)
LEMMA ExitIsGood ==
  ASSUME TablesInv, started \subseteq Slots, NEW r \in Slots, state[r] # "free", Exited(r),
         \/ Stay /\ (r = cpu => current = Idle \/ cpu = Worker)
         \/ NobodyReady
         \/ \E q \in CanRun \ {r} : Activate(q)
  PROVE  Good
<1>1. files' = Release(files, r) /\ state' = [state EXCEPT ![r] = "zombie"]
  BY Zenon DEF Exited
<1>2. \/ UNCHANGED <<cpu, current, active>> /\ (r = cpu => current = Idle \/ cpu = Worker)
      \/ current' = Idle /\ UNCHANGED <<cpu, active>>
      \/ \E q \in Slots \ {r} : state[q] = "live" /\ cpu' = q /\ current' = q /\ active' = q
  BY Zenon DEF Stay, NobodyReady, CanRun, Activate
<1> QED
  BY <1>1, <1>2, ReleaseIsGood, Zenon

(* process_wait releases a zombie's table only. *)
LEMMA WaitIsGood ==
  ASSUME TablesInv, cpu # Worker, wt
  PROVE  Good
<1>1. PICK s \in Slots : /\ state[s] = "zombie" /\ files' = Release(files, s)
                         /\ state' = [state EXCEPT ![s] = "free"]
  BY Zenon DEF wt
<1>2. UNCHANGED <<cpu, current, active>> /\ (s = cpu => current = Idle \/ cpu = Worker)
  BY <1>1, Zenon DEF wt, Stay, TablesInv
<1> QED
  BY <1>1, <1>2, ReleaseIsGood, Zenon

(* open, close, read, write, exec and what leaves the tables alone. *)
LEMMA FileCallIsGood ==
  ASSUME TablesInv, cpu # Worker, op \/ cl \/ rd \/ wr \/ ee \/ other
  PROVE  Good
<1>1. /\ active = cpu /\ cpu \in Slots /\ AreTables(files) /\ IsTable(files[cpu])
  BY Zenon DEF TablesInv, AreTables
<1>2. CASE op
  <2>1. PICK path \in Paths, bad \in BadSets :
          files' = [files EXCEPT ![active] = vfs_open(files[active], path, bad).table]
    BY <1>2, Zenon DEF op
  <2>2. IsTable(vfs_open(files[active], path, bad).table)
    BY <1>1, OpenTable, Zenon
  <2>3. UNCHANGED <<cpu, current, active, state>> /\ current # Idle
    BY <1>2, Zenon DEF op, Stay
  <2> QED
    BY <2>1, <2>2, <2>3, CallIsGood, Zenon
<1>3. CASE cl
  <2>1. PICK fd \in 0 .. LastFd + 1 : files' = [files EXCEPT ![active] = vfs_close(files[active], fd)]
    BY <1>3, Zenon DEF cl
  <2>2. IsTable(vfs_close(files[active], fd)) /\ (Holds(vfs_close(files[active], fd)) => Holds(files[cpu]))
    BY <1>1, CloseTable, Zenon
  <2>3. UNCHANGED <<cpu, current, active, state>>
    BY <1>3, Zenon DEF cl, Stay
  <2> QED
    BY <2>1, <2>2, <2>3, CallIsGood, Zenon
<1>4. CASE rd
  <2>1. PICK fd \in RawFd .. LastFd, n \in Lengths, bad \in BadSets :
          files' = [files EXCEPT ![active] = vfs_read(files[active], fd, n, bad).table]
    BY <1>4, Zenon DEF rd
  <2>2. IsTable(vfs_read(files[active], fd, n, bad).table)
    BY <1>1, ReadTable, Zenon
  <2>3. UNCHANGED <<cpu, current, active, state>> /\ current # Idle
    BY <1>4, Zenon DEF rd, Stay
  <2> QED
    BY <2>1, <2>2, <2>3, CallIsGood, Zenon
<1>5. CASE wr
  <2>1. \E to : files' = [files EXCEPT ![active][RawFd].position = to]
    BY <1>5, Zenon DEF wr
  <2>2. PICK to : files' = [files EXCEPT ![active][RawFd].position = to]
    BY <2>1, Zenon
  <2>3. PICK t, old, d : t = files[active] /\ old = t[RawFd] /\ d = [old EXCEPT !.position = to]
    BY Zenon
  <2>4. RawFd \in Fds => IsDesc(d)
    <3>1. RawFd \in Fds => IsDesc(old)
      BY <1>1, <2>3, Zenon DEF IsTable
    <3> QED
      BY <2>3, <3>1, Zenon DEF IsDesc
  <2>5. IsTable(t)
    BY <1>1, <2>3, Zenon
  <2>6. PICK u : u = [t EXCEPT ![RawFd] = d]
    BY Zenon
  <2>7. IsTable(u)
    BY <2>4, <2>5, <2>6, PutDesc, Zenon
  <2>8. files' = [files EXCEPT ![active] = u]
    BY <2>2, <2>3, <2>6, Zenon
  <2>9. UNCHANGED <<cpu, current, active, state>> /\ current # Idle
    BY <1>5, Zenon DEF wr, Stay
  <2> QED
    BY <2>7, <2>8, <2>9, CallIsGood, Zenon
<1>6. CASE ee
  <2>1. PICK path \in Paths, bad \in BadSets, oom \in BOOLEAN :
          files' = [files EXCEPT ![active] = LoadImage(files[active], path, bad, oom).table]
    BY <1>6, Zenon DEF ee
  <2>2. IsTable(LoadImage(files[active], path, bad, oom).table)
    BY <1>1, LoadTable, Zenon
  <2>3. UNCHANGED <<cpu, current, active, state>> /\ current # Idle
    BY <1>6, Zenon DEF ee, Stay
  <2> QED
    BY <2>1, <2>2, <2>3, CallIsGood, Zenon
<1>7. CASE other
  <2>1. UNCHANGED <<files, state>> /\ Stay
    BY <1>7, Zenon DEF other
  <2> QED
    BY <2>1, SwitchIsGood, Zenon
<1> QED
  BY <1>2, <1>3, <1>4, <1>5, <1>6, <1>7, Zenon

(* The ready list holds slots. *)
VfsInv == TablesInv /\ started \subseteq Slots

(* Every step keeps the invariant and leaves the tables of other processes alone. *)
LEMMA StepIsGood ==
  ASSUME VfsInv, [Next]_vars
  PROVE  Good /\ VfsInv'
<1>1. TablesInv /\ started \subseteq Slots
  BY Zenon DEF VfsInv
<1>2. CASE Switch
  <2>1. UNCHANGED <<files, state, started>> /\ ((\E s \in CanRun : s \in Slots /\ Activate(s)) \/ NobodyReady)
    BY <1>1, <1>2, Zenon DEF Switch, CanRun
  <2> QED
    BY <1>1, <2>1, SwitchIsGood, Zenon DEF Good, VfsInv
<1>3. CASE WorkerExit
  <2>1. state[Worker] # "free" /\ Exited(Worker) /\ Stay /\ cpu = Worker
    BY <1>3, Zenon DEF WorkerExit
  <2>2. Good
    BY <1>1, <2>1, NotIdle, ExitIsGood, Zenon
  <2>3. started' = started
    BY <2>1, Zenon DEF Exited
  <2> QED
    BY <1>1, <2>2, <2>3, Zenon DEF Good, VfsInv
<1>4. CASE UNCHANGED vars
  <2>1. UNCHANGED <<files, state, started>> /\ Stay
    BY <1>4, Zenon DEF vars, procVars, Stay
  <2> QED
    BY <1>1, <2>1, SwitchIsGood, Zenon DEF Good, VfsInv
<1>5. ASSUME NEW u \in DOMAIN Number, Call(u)
      PROVE  Good /\ VfsInv'
  <2>1. cpu # Worker
    BY <1>5, Zenon DEF Call
  <2>2. CASE op \/ cl \/ rd \/ wr \/ ee \/ other
    <3>1. started' = started
      BY <2>2, Zenon DEF op, cl, rd, wr, ee, other
    <3> QED
      BY <1>1, <2>1, <2>2, <3>1, FileCallIsGood, Zenon DEF Good, VfsInv
  <2>3. CASE fk
    <3>1. started' = started
      BY <2>3, Zenon DEF fk
    <3> QED
      BY <1>1, <2>1, <2>3, <3>1, ForkIsGood, Zenon DEF Good, VfsInv
  <2>4. CASE wt
    <3>1. started' \subseteq started
      BY <2>4, Zenon DEF wt
    <3> QED
      BY <1>1, <2>1, <2>4, <3>1, WaitIsGood, Zenon DEF Good, VfsInv
  <2>5. CASE ex
    <3>1. /\ Exited(current) /\ current # Idle
          /\ (\E s \in CanRun \ {current} : Activate(s)) \/ NobodyReady
      BY <2>5, Zenon DEF ex
    <3>2. current \in Slots /\ state[current] # "free"
      BY <1>1, <2>1, <3>1, Zenon DEF TablesInv
    <3>3. Good
      BY <1>1, <3>1, <3>2, ExitIsGood, Zenon
    <3>4. started' = started
      BY <3>1, Zenon DEF Exited
    <3> QED
      BY <1>1, <3>3, <3>4, Zenon DEF Good, VfsInv
  <2>6. CASE kill_sys
    <3>1. PICK s \in Slots : /\ state[s] # "free" /\ Exited(s)
                             /\ IF s = current
                                THEN (\E q \in CanRun \ {s} : Activate(q)) \/ NobodyReady
                                ELSE Stay
      BY <2>6, Zenon DEF kill_sys
    <3>2. \/ Stay /\ (s = cpu => current = Idle \/ cpu = Worker)
          \/ NobodyReady
          \/ \E q \in CanRun \ {s} : Activate(q)
      BY <1>1, <3>1, Zenon DEF TablesInv
    <3>3. Good
      BY <1>1, <3>1, <3>2, ExitIsGood, Zenon
    <3>4. started' = started
      BY <3>1, Zenon DEF Exited
    <3> QED
      BY <1>1, <3>3, <3>4, Zenon DEF Good, VfsInv
  <2> QED
    BY <1>5, <2>2, <2>3, <2>4, <2>5, <2>6, Zenon DEF Call
<1> QED
  BY <1>2, <1>3, <1>4, <1>5, Zenon DEF Next

(* When kmain starts the first process nobody has a file open. *)
LEMMA VfsInvInit == Init => VfsInv
<1> SUFFICES ASSUME Init
             PROVE  VfsInv
  BY Zenon
<1>1. PICK bad \in BadSets, oom \in BOOLEAN :
        /\ files = [s \in Slots |-> IF s = Boot THEN LoadImage(BootTable, HelloElf, bad, oom).table
                                    ELSE BootTable]
        /\ \E there \in BOOLEAN : started = {Worker, Boot} \cup IF there THEN {Disk} ELSE {}
  BY Zenon DEF Init
<1>2. /\ started \subseteq Slots /\ Boot \in started /\ cpu = Boot /\ active = Boot /\ current = Boot
      /\ state = [s \in Slots |-> IF s \in started THEN "live" ELSE "free"]
  BY <1>1, VfsAssumption, Zenon DEF Init
<1>3. PICK t : t = BootTable
  BY Zenon
<1>4. IsTable(t) /\ ~Holds(t)
  <2>1. ASSUME NEW fd \in Fds
        PROVE  IsDesc(t[fd]) /\ (fd # RawFd => t[fd].name = FALSE)
    <3>1. PICK c : c = Closed
      BY Zenon
    <3>2. IsDesc(c) /\ c.name = FALSE
      BY <3>1, Zenon DEF Closed, IsDesc
    <3>3. t[fd] = c \/ (fd = RawFd /\ t[fd] = [[c EXCEPT !.name = TRUE] EXCEPT !.kind = 1])
      BY <1>3, <3>1, Zenon DEF BootTable, Fds
    <3> QED
      BY <3>2, <3>3, Zenon DEF IsDesc
  <2>2. t = [fd \in Fds |-> t[fd]]
    BY <1>3, Zenon DEF BootTable, Fds
  <2>3. RawFd \notin FileFds
    BY VfsAssumption DEF RawFd, FileFds
  <2> QED
    BY <2>1, <2>2, <2>3, FdsAre, Zenon DEF IsTable, Holds
<1>5. PICK u : u = LoadImage(BootTable, HelloElf, bad, oom).table
  BY Zenon
<1>6. IsTable(u)
  BY <1>3, <1>4, <1>5, LoadTable, Zenon
<1>7. AreTables(files) /\ \A s \in Slots \ {Boot} : ~Holds(files[s])
  <2>1. files = [s \in Slots |-> IF s = Boot THEN u ELSE t]
    BY <1>1, <1>3, <1>5, Zenon
  <2> QED
    BY <1>4, <1>6, <2>1, Zenon DEF AreTables
<1> QED
  BY <1>2, <1>7, NotIdle, Zenon DEF VfsInv, TablesInv

(* The invariant holds in every state. *)
LEMMA AlwaysVfs == Spec => []VfsInv
<1>1. VfsInv /\ [Next]_vars => VfsInv'
  BY StepIsGood, Zenon
<1> QED
  BY <1>1, VfsInvInit, PTL DEF Spec

(* A process that exited, was killed, was reaped or never got its address space has no
   file open: process_exit_with_status, process_wait and process_fork release what it
   had, and no call of vfs.c opens anything for it afterwards. *)
THEOREM DeadSound == Spec => []DeadHoldNothing
<1>1. VfsInv => DeadHoldNothing
  BY Zenon DEF VfsInv, TablesInv, Holds, DeadHoldNothing
<1> QED
  BY <1>1, AlwaysVfs, PTL

(* No process changes what another one has open: active_pid of vfs.c names the process
   that runs, at every call, however processes switch, die and take over slots. *)
THEOREM TablesSound == Spec => PrivateTables
<1>1. VfsInv /\ [Next]_vars =>
        [\A s \in Slots :
           /\ files'[s] # files[s] =>
                \/ s = cpu
                \/ state[s] = "free"
                \/ state'[s] # "live" /\ \A fd \in FileFds : ~files'[s][fd].name
           /\ state[s] = "free" /\ state'[s] = "live" =>
                /\ files'[s] = files[IF current = Idle THEN Worker ELSE cpu]
                /\ s # cpu => files'[cpu] = files[cpu]]_vars
  BY StepIsGood, Zenon DEF Good, KeepsPrivate, Holds
<1> QED
  BY <1>1, AlwaysVfs, PTL DEF Spec, PrivateTables
=============================================================================
