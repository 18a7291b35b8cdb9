------------------------------- MODULE Storage -------------------------------
(***************************************************************************)
(* The journal (fs/journal.c) over SectorIo, from boot to power failure:   *)
(* kmain registers the virtio disk, opens and replays the journal and only *)
(* then registers the ATA disk; fat32_write_sector then writes through the *)
(* journal when it is ready and directly otherwise.                        *)
(*                                                                         *)
(* A record is a header of 20 bytes and 512 bytes of data in a sector of   *)
(* 512 bytes, so the last 20 bytes of the data are not stored.  A sector's *)
(* value therefore has a body and a tail; a record on disk keeps the body; *)
(* journal_replay finds in place of the tail whatever its stack held.  The *)
(* checksum is taken to tell all records apart.                            *)
(***************************************************************************)
EXTENDS SectorIo

CONSTANTS
  SlotCount,  \* journal slots; they are sectors 0 .. SlotCount - 1
  Values,     \* what clients write
  MaxOps,     \* bound: calls of clients
  MaxCrashes  \* bound: power failures

Slots == 0 .. SlotCount - 1
Targets == Lbas \ Slots

VARIABLES
  hw,       \* the disks that are plugged in
  ready,    \* the journal is open
  sequence, \* of the next record
  step,     \* what the kernel is doing
  job,      \* slot, target, body and tail of the record being handled
  may,      \* history: may[l], the values sector l may hold
  left,     \* history: a committed record was left behind
  ops, crashes

vars == <<ioVars, hw, ready, sequence, step, job, may, left, ops, crashes>>

Whole(x) == [kind |-> "data", body |-> x, tail |-> x]
Checksum(body, tail, target, seq) == <<body, tail, target, seq>>
Record(committed, seq, target, body, tail) ==
  [kind |-> "record", committed |-> committed, sequence |-> seq,
   target |-> target, body |-> body, sum |-> Checksum(body, tail, target, seq)]
NoJob == [slot |-> 0, sequence |-> 0, target |-> 0, body |-> 0, tail |-> 0]

journal_is_ready == ready

(* kmain up to journal_replay: only a virtio disk is registered by then. *)
Boot(h) ==
  /\ device' = IF "virtio" \in h THEN "virtio" ELSE "none"
  /\ ready' = (device' # "none" /\ SlotCount # 0)
  /\ io' = Idle /\ vq' = VqReset /\ ata' = AtaReset /\ fetched' = Nothing
  /\ sequence' = 1
  /\ step' = IF ready' THEN "replay" ELSE "probe"
  /\ job' = NoJob

Init ==
  /\ hw \in SUBSET {"virtio", "ata"}
  /\ device = IF "virtio" \in hw THEN "virtio" ELSE "none"
  /\ ready = (device # "none" /\ SlotCount # 0)
  /\ disk = [l \in Lbas |-> Whole(0)]
  /\ io = Idle /\ vq = VqReset /\ ata = AtaReset /\ fetched = Nothing
  /\ sequence = 1
  /\ step = IF ready THEN "replay" ELSE "probe"
  /\ job = NoJob
  /\ may = [l \in Targets |-> {0}]
  /\ timeouts = 0 /\ left = FALSE
  /\ ops = 0 /\ crashes = 0

-----------------------------------------------------------------------------
(* The kernel's next sector call, once the last one has returned. *)
Call(op, lba, data, s) ==
  /\ io' = Request(op, lba, data)
  /\ step' = s
  /\ UNCHANGED <<device, disk, vq, ata, fetched, timeouts, hw, ready>>
Finish(s) ==
  /\ io' = Idle
  /\ step' = s
  /\ UNCHANGED <<device, disk, vq, ata, fetched, timeouts, hw, ready, sequence,
                 ops, crashes>>

(* journal_replay, slot by slot. *)
ReplayRead ==
  /\ step = "replay" /\ io.state = "idle"
  /\ Call("read", job.slot, Blank, "replay")
  /\ UNCHANGED <<sequence, job, may, left, ops, crashes>>
NextSlot ==
  /\ job' = [NoJob EXCEPT !.slot = job.slot + 1]
  /\ Finish(IF job.slot + 1 = SlotCount THEN "probe" ELSE "replay")
  /\ UNCHANGED may
Committed(r) == r.kind = "record" /\ r.committed
(* Mutant: the checksum is not compared. *)
ValidUnchecked(r, tail) == Committed(r)
Valid(r, tail) ==
  Committed(r) /\ r.sum = Checksum(r.body, tail, r.target, r.sequence)

(* tail is what the uninitialised end of the record happens to hold. *)
ReplayFound(tail) ==
  /\ step = "replay" /\ io.state = "done"
  /\ IF io.ok /\ Valid(io.data, tail)
     THEN /\ job' = [slot |-> job.slot, sequence |-> io.data.sequence,
                     target |-> io.data.target, body |-> io.data.body,
                     tail |-> tail]
          /\ Call("write", io.data.target,
                  [kind |-> "data", body |-> io.data.body, tail |-> tail], "apply")
          /\ UNCHANGED <<sequence, may, left, ops, crashes>>
     ELSE /\ NextSlot
          /\ left' = (left \/ ~io.ok \/ Committed(io.data))
ReplayApplied ==
  /\ step = "apply" /\ io.state = "done"
  /\ IF io.ok
     THEN /\ Call("write", job.slot,
                  Record(FALSE, job.sequence, job.target, job.body, job.tail),
                  "uncommit")
          /\ UNCHANGED <<sequence, job, may, left, ops, crashes>>
     ELSE NextSlot /\ left' = TRUE
ReplayCleared ==
  /\ step = "uncommit" /\ io.state = "done"
  /\ NextSlot
  /\ left' = (left \/ ~io.ok)

(* ata_init: a drive that identifies itself is registered, and becomes the *)
(* default device if there is none.                                        *)
AtaInit ==
  /\ step = "probe"
  /\ step' = "idle"
  /\ \/ device' = IF device = "none" /\ "ata" \in hw THEN "ata" ELSE device
     \/ UNCHANGED device
  /\ UNCHANGED <<disk, io, vq, ata, fetched, timeouts, hw, ready, sequence, job,
                 may, left, ops, crashes>>

-----------------------------------------------------------------------------
(* fat32_write_sector, and journal_write when the journal is ready. *)
Write(l, x) ==
  /\ step = "idle" /\ timeouts < MaxTimeouts /\ ops < MaxOps
  /\ ops' = ops + 1
  /\ may' = [may EXCEPT ![l] = @ \cup {x}]
  /\ job' = [slot |-> sequence % SlotCount, sequence |-> sequence, target |-> l,
             body |-> x, tail |-> x]
  /\ IF journal_is_ready
     THEN /\ sequence' = sequence + 1
          /\ Call("write", sequence % SlotCount,
                  Record(TRUE, sequence, l, x, x), "record")
     ELSE /\ Call("write", l, Whole(x), "direct")
          /\ UNCHANGED sequence
  /\ UNCHANGED <<left, crashes>>
(* Mutant: the record is cleared without the target being written. *)
RecordWrittenOnly ==
  /\ step = "record" /\ io.state = "done"
  /\ IF io.ok
     THEN /\ Call("write", job.slot,
                  Record(FALSE, job.sequence, job.target, job.body, job.tail),
                  "clear")
          /\ UNCHANGED <<sequence, job, may, left, ops, crashes>>
     ELSE Finish("idle") /\ UNCHANGED <<job, may, left>>
RecordWritten ==
  /\ step = "record" /\ io.state = "done"
  /\ IF io.ok
     THEN /\ Call("write", job.target, Whole(job.body), "target")
          /\ UNCHANGED <<sequence, job, may, left, ops, crashes>>
     ELSE Finish("idle") /\ UNCHANGED <<job, may, left>>
(* Mutant: the record stays committed. *)
TargetWrittenLast ==
  /\ step = "target" /\ io.state = "done"
  /\ Finish("idle")
  /\ left' = (left \/ ~io.ok)
  /\ UNCHANGED <<job, may>>
TargetWritten ==
  /\ step = "target" /\ io.state = "done"
  /\ IF io.ok
     THEN /\ Call("write", job.slot,
                  Record(FALSE, job.sequence, job.target, job.body, job.tail),
                  "clear")
          /\ UNCHANGED <<sequence, job, may, left, ops, crashes>>
     ELSE Finish("idle") /\ left' = TRUE /\ UNCHANGED <<job, may>>
(* The write is acknowledged: from now on the sector holds the new value. *)
Acknowledge ==
  /\ may' = IF io.ok THEN [may EXCEPT ![job.target] = {job.body}] ELSE may
  /\ Finish("idle")
  /\ UNCHANGED job
RecordCleared ==
  /\ step = "clear" /\ io.state = "done"
  /\ Acknowledge
  /\ left' = (left \/ ~io.ok)
DirectWritten ==
  /\ step = "direct" /\ io.state = "done"
  /\ Acknowledge
  /\ UNCHANGED left

(* fat32_read_file, one sector. *)
Read(l) ==
  /\ step = "idle" /\ timeouts < MaxTimeouts /\ ops < MaxOps
  /\ ops' = ops + 1
  /\ Call("read", l, Blank, "read")
  /\ UNCHANGED <<sequence, job, may, left, crashes>>
ReadDone ==
  /\ step = "read" /\ io.state = "done"
  /\ Finish("idle")
  /\ UNCHANGED <<job, may, left>>

(* Power fails and comes back. *)
Crash ==
  /\ crashes < MaxCrashes /\ timeouts = 0
  /\ crashes' = crashes + 1
  /\ Boot(hw)
  /\ UNCHANGED <<disk, timeouts, hw, may, left, ops>>

Io ==
  /\ Driver \/ Device
  /\ UNCHANGED <<hw, ready, sequence, step, job, may, left, ops, crashes>>
Kernel ==
  \/ ReplayRead \/ ReplayApplied \/ ReplayCleared \/ AtaInit
  \/ \E tail \in Values \cup {0} : ReplayFound(tail)
  \/ RecordWritten \/ TargetWritten \/ RecordCleared \/ DirectWritten \/ ReadDone
Client == \E l \in Targets : Read(l) \/ \E x \in Values : Write(l, x)
Next == Io \/ Kernel \/ Client \/ Crash
Spec == Init /\ [][Next]_vars

(* The kernel is alone on the CPU with interrupts off and its polling      *)
(* loops are bounded, so it goes on; nothing is asked of the device.       *)
FairSpec ==
  Spec /\ WF_vars(Kernel)
       /\ WF_vars(Driver /\ UNCHANGED <<hw, ready, sequence, step, job, may,
                                        left, ops, crashes>>)

-----------------------------------------------------------------------------
Sectors ==
  [kind : {"data"}, body : Values \cup {0}, tail : Values \cup {0}] \cup
  [kind : {"record"}, committed : BOOLEAN, sequence : 1 .. MaxOps,
   target : Lbas, body : Values \cup {0},
   sum : (Values \cup {0}) \X (Values \cup {0}) \X Lbas \X (1 .. MaxOps)]

(* The statics of the drivers and of the journal keep their types, and a   *)
(* journal that is open has a device to write to.                          *)
TypeOK ==
  /\ device \in hw \cup {"none"}
  /\ disk \in [Lbas -> Sectors]
  /\ io.lba \in Lbas /\ io.data \in Sectors
  /\ io.state \in {"idle", "new", "polling", "flushing", "done"}
  /\ vq.avail \in 0 .. IdxMod - 1 /\ vq.used \in 0 .. IdxMod - 1
  /\ vq.last \in 0 .. IdxMod - 1
  /\ ata.status \in {"ready", "busy", "drq", "err"}
  /\ sequence \in 1 .. MaxOps + 1
  /\ ready => device = "virtio"
  /\ \A l \in Targets : may[l] \subseteq Values \cup {0}

(* Until a call times out, a sector call that returns 0 did what it says:  *)
(* a read returns what the sector holds, a write is on the disk, through   *)
(* the shared request buffer of virtio and the shared registers of ATA.    *)
AnsweredTruly ==
  timeouts = 0 /\ io.state = "done" /\ io.ok => io.data = disk[io.lba]

(* No target sector ever holds a mix of two writes: a record whose tail is *)
(* lost fails its checksum and is not applied by journal_replay, whatever  *)
(* the crash left behind (calls that time out excepted).                   *)
SectorsWhole ==
  timeouts = 0 => \A l \in Targets : \E x \in Values \cup {0} : disk[l] = Whole(x)

(* Unless a committed record was left behind in the log (its clearing      *)
(* failed, or replay passed it over), a sector holds the last acknowledged *)
(* write or one that was not acknowledged after it: across crashes nothing *)
(* older comes back.                                                       *)
AckedSurvives ==
  timeouts = 0 /\ ~left =>
    \A l \in Targets : \E x \in may[l] : disk[l] = Whole(x)

(* Replaying in slot order instead of sequence order is sound only because *)
(* at most one record is ever committed, and none once a write is over or  *)
(* replay is done (journal_write clears its record last).                  *)
AtMostOneCommitted ==
  timeouts = 0 /\ ~left =>
    LET pending == {s \in Slots : Committed(disk[s])}
    IN  /\ \A s, u \in pending : s = u
        /\ step \in {"probe", "idle", "read"} => pending = {}

(* Boot, replay included, and every call of a client end, whatever the     *)
(* device does or does not do: every wait of the drivers is bounded.       *)
CallsReturn == (step # "idle") ~> (step = "idle")
=============================================================================
