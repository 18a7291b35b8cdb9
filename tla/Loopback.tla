------------------------------ MODULE Loopback ------------------------------
(***************************************************************************)
(* The loopback ring of net/net.c and the system calls on the kernel's     *)
(* eight sockets.  The sockets belong to no process: a call may use any    *)
(* of them.  Sequence and acknowledgement numbers, which nothing reads,    *)
(* are left out.  net_loopback_received has no caller in the kernel; it is *)
(* here as the other end of the ring.                                      *)
(***************************************************************************)
EXTENDS Integers, Sequences

CONSTANTS
  QueueSize,   \* NET_QUEUE_SIZE
  PacketSize,  \* NET_PACKET_SIZE
  Sockets,     \* indices of kernel_sockets, from 0
  Ports,       \* port numbers programs use, 0 included
  PacketLens,  \* bound: lengths programs send
  MaxPackets   \* bound: packets that are queued in a behaviour

ASSUME LoopbackAssumption == QueueSize \in Nat \ {0}

VARIABLES
  ready, sockets,
  queue_len, queue_head, queue_tail, queue_count,
  sent,      \* history: the lengths of the packets that were queued
  received   \* history: how many were taken out

queueVars == <<queue_len, queue_head, queue_tail, queue_count, sent, received>>
netVars == <<ready, sockets, queueVars>>

Unused == [used |-> FALSE, state |-> "closed", local_port |-> 0, remote_port |-> 0]

NetBss ==
  /\ ready = FALSE /\ sockets = [i \in Sockets |-> Unused]
  /\ queue_len = [i \in 0 .. QueueSize - 1 |-> 0]
  /\ queue_head = 0 /\ queue_tail = 0 /\ queue_count = 0
  /\ sent = <<>> /\ received = 0

net_init ==
  /\ ready' = TRUE
  /\ queue_head' = 0 /\ queue_tail' = 0 /\ queue_count' = 0
  /\ UNCHANGED <<sockets, queue_len, sent, received>>

(* The guards of a send; the mutant does not look at the count. *)
CanQueueAlways(length) == ready /\ length > 0 /\ length <= PacketSize
CanQueue(length) ==
  ready /\ length > 0 /\ length <= PacketSize /\ queue_count < QueueSize

net_loopback_send(length) ==
  /\ CanQueue(length)
  /\ queue_len' = [queue_len EXCEPT ![queue_tail] = length]
  /\ queue_tail' = (queue_tail + 1) % QueueSize
  /\ queue_count' = queue_count + 1
  /\ sent' = Append(sent, length)
  /\ UNCHANGED <<queue_head, received>>

net_loopback_received ==
  /\ queue_count > 0
  /\ queue_head' = (queue_head + 1) % QueueSize
  /\ queue_count' = queue_count - 1
  /\ received' = received + 1
  /\ UNCHANGED <<ready, sockets, queue_len, queue_tail, sent>>

(* The calls that succeed; the others change nothing. *)
socket_sys(port) ==
  \E i \in Sockets :
    /\ ready /\ port # 0
    /\ ~sockets[i].used /\ \A j \in 0 .. i - 1 : sockets[j].used
    /\ sockets' = [sockets EXCEPT ![i] = [Unused EXCEPT !.used = TRUE, !.local_port = port]]
    /\ UNCHANGED <<ready, queueVars>>
connect_sys(i, port) ==
  /\ sockets[i].used /\ port # 0 /\ sockets[i].state = "closed"
  /\ sockets' = [sockets EXCEPT ![i].remote_port = port, ![i].state = "established"]
  /\ UNCHANGED <<ready, queueVars>>
send_sys(i, length) ==
  /\ sockets[i].used /\ sockets[i].state = "established"
  /\ Len(sent) < MaxPackets
  /\ net_loopback_send(length)
  /\ UNCHANGED <<ready, sockets>>
close_socket_sys(i) ==
  /\ sockets[i].used
  /\ sockets' = [sockets EXCEPT ![i].state = "closed", ![i].used = FALSE]
  /\ UNCHANGED <<ready, queueVars>>

NetNext ==
  \/ \E p \in Ports : socket_sys(p)
  \/ \E i \in Sockets : \/ \E p \in Ports : connect_sys(i, p)
                        \/ \E n \in PacketLens : send_sys(i, n)
                        \/ close_socket_sys(i)
  \/ net_loopback_received

-----------------------------------------------------------------------------
(* The ring holds the packets that were accepted and not yet taken out, in *)
(* the order in which net_socket_send accepted them, whichever sockets     *)
(* were opened and closed in between: none is overwritten, lost or given   *)
(* out twice when the indices wrap around.                                 *)
PacketsInOrder ==
  /\ queue_count = Len(sent) - received
  /\ \A k \in 1 .. queue_count :
       queue_len[(queue_head + k - 1) % QueueSize] = sent[received + k]
=============================================================================
