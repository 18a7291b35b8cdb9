------------------------------ MODULE SectorIo ------------------------------
(***************************************************************************)
(* One sector read or written through the block layer (drivers/block.c),   *)
(* by the virtio driver (drivers/virtio/virtio_blk.c) or by ATA PIO        *)
(* (drivers/ata/ata.c), with the device as a second process.               *)
(*                                                                         *)
(* A call is synchronous: the driver fills in a request, polls, and gives  *)
(* up after a number of polls.  The device takes its time, so an answer    *)
(* may come after the driver gave up.  virtio has one request, data and    *)
(* status buffer for all calls; ATA has one set of registers.  The call in *)
(* progress is io; the devices are external and do what the drivers rely   *)
(* on.                                                                     *)
(***************************************************************************)
EXTENDS Integers, Sequences

CONSTANTS
  Lbas,        \* sector numbers
  Blank,       \* what a buffer holds that was cleared
  IdxMod,      \* ring indices wrap here (2^16)
  MaxTimeouts  \* bound: timeouts after which nothing new is started

VARIABLES
  device,   \* devices[0] of the block layer: "virtio", "ata" or "none"
  disk,     \* disk[lba]: what the sector holds
  io,       \* the call: state (idle, new, polling, flushing, done), op,
            \* lba, data, ok
  vq,       \* virtio memory: type, sector, data, status, writable, and the
            \* indices avail, used and last (last_used)
  ata,      \* ATA registers: status (ready, busy, drq, err), cmd, lba, and
            \* the drive's buffer
  fetched,  \* the request the virtio device is working on, or none
  timeouts  \* history: calls that timed out, up to MaxTimeouts

ioVars == <<device, disk, io, vq, ata, fetched, timeouts>>

Idle == [state |-> "idle", op |-> "read", lba |-> 0, data |-> Blank, ok |-> FALSE]
Nothing == [type |-> "none", sector |-> 0, writable |-> FALSE]
VqReset == [type |-> "none", sector |-> 0, data |-> Blank, status |-> "none",
            writable |-> TRUE, avail |-> 0, used |-> 0, last |-> 0]
AtaReset == [status |-> "ready", cmd |-> "none", lba |-> 0, buffer |-> Blank]

(* block_read_sector and block_write_sector: the call goes to the default  *)
(* device, or fails at once.                                               *)
Request(op, lba, data) ==
  [state |-> IF device = "none" THEN "done" ELSE "new",
   op |-> op, lba |-> lba, data |-> data, ok |-> FALSE]
Return(ok, data) == [io EXCEPT !.state = "done", !.ok = ok, !.data = data]

-----------------------------------------------------------------------------
(* virtio_blk_read_sector and virtio_blk_write_sector up to the doorbell. *)
VirtioSubmit ==
  /\ device = "virtio" /\ io.state = "new"
  /\ vq' = [vq EXCEPT !.type = io.op, !.sector = io.lba, !.status = "none",
                      !.data = IF io.op = "write" THEN io.data ELSE Blank,
                      !.writable = (io.op = "read"),
                      !.avail = (@ + 1) % IdxMod]
  /\ io' = [io EXCEPT !.state = "polling"]
  /\ UNCHANGED <<device, disk, ata, fetched, timeouts>>

(* Mutant: the status byte is not looked at. *)
VirtioAnsweredBlindly ==
  /\ device = "virtio" /\ io.state = "polling"
  /\ vq.used # vq.last
  /\ vq' = [vq EXCEPT !.last = vq.used, !.writable = TRUE]
  /\ io' = Return(TRUE, IF io.op = "read" THEN vq.data ELSE io.data)
  /\ UNCHANGED <<device, disk, ata, fetched, timeouts>>
(* The used index moved: whatever finished is taken for this request. *)
VirtioAnswered ==
  /\ device = "virtio" /\ io.state = "polling"
  /\ vq.used # vq.last
  /\ vq' = [vq EXCEPT !.last = vq.used, !.writable = TRUE]
  /\ io' = Return(vq.status = "ok", IF io.op = "read" THEN vq.data ELSE io.data)
  /\ UNCHANGED <<device, disk, ata, fetched, timeouts>>

(* Mutant: the driver waits for ever. *)
VirtioNoTimeout == FALSE
(* VIRTIO_POLL_LIMIT polls without an answer: the request stays queued. *)
VirtioTimeout ==
  /\ device = "virtio" /\ io.state = "polling"
  /\ vq.used = vq.last
  /\ timeouts' = IF timeouts < MaxTimeouts THEN timeouts + 1 ELSE timeouts
  /\ vq' = [vq EXCEPT !.writable = TRUE]
  /\ io' = Return(FALSE, io.data)
  /\ UNCHANGED <<device, disk, ata, fetched>>

(* The device reads the descriptors and the request header ... *)
VirtioFetch ==
  /\ device = "virtio" /\ fetched = Nothing
  /\ vq.avail # vq.used
  /\ fetched' = [type |-> vq.type, sector |-> vq.sector, writable |-> vq.writable]
  /\ UNCHANGED <<device, disk, io, vq, ata, timeouts>>

(* ... and later moves the data and publishes the answer, or fails; it     *)
(* does fail when the direction of the data descriptor is wrong.           *)
VirtioComplete ==
  /\ device = "virtio" /\ fetched # Nothing
  /\ fetched' = Nothing
  /\ \/ /\ fetched.type = "read" /\ fetched.writable
        /\ vq' = [vq EXCEPT !.data = disk[fetched.sector], !.status = "ok",
                            !.used = (@ + 1) % IdxMod]
        /\ UNCHANGED disk
     \/ /\ fetched.type = "write" /\ ~fetched.writable
        /\ disk' = [disk EXCEPT ![fetched.sector] = vq.data]
        /\ vq' = [vq EXCEPT !.status = "ok", !.used = (@ + 1) % IdxMod]
     \/ /\ vq' = [vq EXCEPT !.status = "error", !.used = (@ + 1) % IdxMod]
        /\ UNCHANGED disk
  /\ UNCHANGED <<device, io, ata, timeouts>>

-----------------------------------------------------------------------------
(* ata_select and the command byte.  A busy drive ignores its registers;   *)
(* the driver does not look.                                               *)
AtaCommand(cmd, lba) ==
  IF ata.status = "busy" THEN ata
  ELSE [ata EXCEPT !.status = "busy", !.cmd = cmd, !.lba = lba]
AtaSubmit ==
  /\ device = "ata" /\ io.state = "new"
  /\ ata' = AtaCommand(io.op, io.lba)
  /\ io' = [io EXCEPT !.state = "polling"]
  /\ UNCHANGED <<device, disk, vq, fetched, timeouts>>

(* ata_wait(DRQ) succeeded: 256 words in, or 256 words out and a cache     *)
(* flush, which keeps the drive busy until the sector is stored.  A drive  *)
(* that waits for the other direction drops the words.                     *)
AtaTransfer ==
  /\ device = "ata" /\ io.state = "polling"
  /\ ata.status = "drq"
  /\ IF io.op = "read"
     THEN /\ io' = Return(TRUE, IF ata.cmd = "read" THEN disk[ata.lba] ELSE Blank)
          /\ ata' = [ata EXCEPT !.status = "ready"]
     ELSE /\ io' = [io EXCEPT !.state = "flushing"]
          /\ ata' = [ata EXCEPT !.status = "busy", !.buffer = io.data,
                       !.cmd = IF @ = "write" THEN "store" ELSE "flush"]
  /\ UNCHANGED <<device, disk, vq, fetched, timeouts>>

(* ata_wait ends: the status shows an error, or after a write, ready. *)
AtaAnswered ==
  /\ device = "ata"
  /\ \/ io.state \in {"polling", "flushing"} /\ ata.status = "err"
     \/ io.state = "flushing" /\ ata.status \in {"ready", "drq"}
  /\ io' = Return(ata.status # "err", io.data)
  /\ UNCHANGED <<device, disk, vq, ata, fetched, timeouts>>

AtaTimeout ==
  /\ device = "ata" /\ io.state \in {"polling", "flushing"}
  /\ \/ ata.status = "busy"
     \/ ata.status = "ready" /\ io.state = "polling"
  /\ timeouts' = IF timeouts < MaxTimeouts THEN timeouts + 1 ELSE timeouts
  /\ io' = Return(FALSE, io.data)
  /\ UNCHANGED <<device, disk, vq, ata, fetched>>

(* The drive finishes what it is busy with. *)
AtaDone ==
  /\ device = "ata" /\ ata.status = "busy"
  /\ \/ /\ ata.cmd \in {"read", "write"}
        /\ ata' = [ata EXCEPT !.status = "drq"]
        /\ UNCHANGED disk
     \/ /\ ata.cmd = "store"
        /\ disk' = [disk EXCEPT ![ata.lba] = ata.buffer]
        /\ ata' = [ata EXCEPT !.status = "ready"]
     \/ /\ ata.cmd = "flush"
        /\ ata' = [ata EXCEPT !.status = "ready"]
        /\ UNCHANGED disk
     \/ /\ ata' = [ata EXCEPT !.status = "err"]
        /\ UNCHANGED disk
  /\ UNCHANGED <<device, io, vq, fetched, timeouts>>

Driver == VirtioSubmit \/ VirtioAnswered \/ VirtioTimeout
          \/ AtaSubmit \/ AtaTransfer \/ AtaAnswered \/ AtaTimeout
Device == VirtioFetch \/ VirtioComplete \/ AtaDone
=============================================================================
