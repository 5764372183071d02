----------------------------- MODULE DeviceData -----------------------------
(***************************************************************************)
(* data_channel() of the device bridge: UDP datagrams of the sender go     *)
(* into the framed TCP stream of the tunnel, or into one of two buffers:   *)
(* udp_buffer while there is no connection, pending_queue while the        *)
(* connection's send buffer is full.                                       *)
(*                                                                         *)
(* One round of its loop: select, errlist, accept and flush, read UDP      *)
(* until empty, retry, health check; `readable` is a snapshot taken by     *)
(* select and used by the later phases.                                    *)
(***************************************************************************)
EXTENDS AdbTunnel

CONSTANTS
  MAX_BUFFERED_PKTS,  (* 5000                                              *)
  UdpCap,             (* datagrams the kernel queues for udp_sock          *)
  ErrlistReports      (* does select() put a dead connection in errlist?   *)

ASSUME DeviceDataAssumption ==
  /\ MAX_BUFFERED_PKTS \in Nat \ {0}
  /\ UdpCap \in Nat \ {0}
  /\ ErrlistReports \in BOOLEAN

VARIABLES
  sent,           (* packets the sender has emitted: 1 .. sent             *)
  udp_rcv,        (* kernel queue of udp_sock                              *)
  tcp_conn,       (* a connection number, or None                          *)
  udp_buffer,
  pending_queue,
  phase,          (* where the loop is                                     *)
  server_ready,   (* tcp_server in readable                                *)
  conn_ready,     (* the connection that was in readable, or None          *)
  fate,           (* history: what the bridge did last with each packet    *)
  taken           (* history: packets read over the present connection     *)

device == <<sent, udp_rcv, tcp_conn, udp_buffer, pending_queue, phase,
            server_ready, conn_ready, fate, taken>>

Fates == {"unsent", "arrived", "overrun", "buffered", "deferred", "handed",
          "trimmed"}

DeviceInit ==
  /\ sent = 0
  /\ udp_rcv = <<>>
  /\ tcp_conn = None
  /\ udp_buffer = <<>>
  /\ pending_queue = <<>>
  /\ phase = "select"
  /\ server_ready = FALSE
  /\ conn_ready = None
  /\ fate = [p \in Packets |-> "unsent"]
  /\ taken = {}

-----------------------------------------------------------------------------
(* The sender's sendto(): a full socket buffer drops the datagram. *)
SenderEmits ==
  /\ sent < MaxPkts
  /\ sent' = sent + 1
  /\ IF Len(udp_rcv) < UdpCap
     THEN /\ udp_rcv' = Append(udp_rcv, sent + 1)
          /\ fate' = [fate EXCEPT ![sent + 1] = "arrived"]
     ELSE /\ fate' = [fate EXCEPT ![sent + 1] = "overrun"]
          /\ UNCHANGED udp_rcv
  /\ UNCHANGED <<tunnel, tcp_conn, udp_buffer, pending_queue, phase,
                 server_ready, conn_ready, taken>>

(* select() with its timeout of 1 s: a connection whose peer is gone is    *)
(* readable, and where the OS also puts it in errlist (Linux keeps that    *)
(* for urgent data) it is dropped at once.                                 *)
Select ==
  /\ phase = "select"
  /\ phase' = "accept"
  /\ server_ready' = (backlog # <<>>)
  /\ conn_ready' = IF Live(tcp_conn) THEN None ELSE tcp_conn
  /\ \/ UNCHANGED <<tcp_conn, pending_queue>>
     \/ /\ ErrlistReports
        /\ tcp_conn # None /\ ~Live(tcp_conn)
        /\ tcp_conn' = None
        /\ pending_queue' = <<>>
  /\ UNCHANGED <<tunnel, sent, udp_rcv, udp_buffer, fate, taken>>

NoConnection ==
  /\ phase = "accept"
  /\ ~server_ready
  /\ phase' = "udp"
  /\ UNCHANGED <<tunnel, sent, udp_rcv, tcp_conn, udp_buffer, pending_queue,
                 server_ready, conn_ready, fate, taken>>

(* Fault: what was sent over the old connection is sent again. *)
AcceptResends ==
  /\ phase = "accept"
  /\ server_ready
  /\ phase' = "flush"
  /\ tcp_conn' = Head(backlog)
  /\ backlog' = Tail(backlog)
  /\ udp_buffer' = SetToSeq(taken) \o udp_buffer
  /\ taken' = {}
  /\ UNCHANGED <<conns, open, bytes, sent, udp_rcv, pending_queue,
                 server_ready, conn_ready, fate>>

(* accept() replaces whatever connection there was. *)
Accept ==
  /\ phase = "accept"
  /\ server_ready
  /\ phase' = "flush"
  /\ tcp_conn' = Head(backlog)
  /\ backlog' = Tail(backlog)
  /\ taken' = {}
  /\ UNCHANGED <<conns, open, bytes, sent, udp_rcv, udp_buffer, pending_queue,
                 server_ready, conn_ready, fate>>

(* `for buf_pkt in udp_buffer: sendall`: one packet of the flush. *)
FlushOne ==
  /\ phase = "flush"
  /\ udp_buffer # <<>>
  /\ SendsWhole(tcp_conn, Head(udp_buffer))
  /\ udp_buffer' = Tail(udp_buffer)
  /\ fate' = [fate EXCEPT ![Head(udp_buffer)] = "handed"]
  /\ UNCHANGED <<conns, open, backlog, sent, udp_rcv, tcp_conn, pending_queue,
                 phase, server_ready, conn_ready, taken>>

(* The flush is over, or an exception breaks it off; either way both       *)
(* buffers are cleared.                                                    *)
FlushEnds ==
  /\ phase = "flush"
  /\ \/ udp_buffer = <<>> /\ UNCHANGED bytes
     \/ /\ udp_buffer # <<>>
        /\ \/ SendBlocks(tcp_conn, Head(udp_buffer))
           \/ SendFails(tcp_conn)
  /\ phase' = "udp"
  /\ udp_buffer' = <<>>
  /\ pending_queue' = <<>>
  /\ UNCHANGED <<conns, open, backlog, sent, udp_rcv, tcp_conn, server_ready,
                 conn_ready, fate, taken>>

-----------------------------------------------------------------------------
(* Fault: one packet too many is kept. *)
BoundedLate(seq) ==
  IF Len(seq) > MAX_BUFFERED_PKTS + 1
  THEN SubSeq(seq, Len(seq) - MAX_BUFFERED_PKTS + 1, Len(seq))
  ELSE seq

(* x.append(data), then x = x[-MAX_BUFFERED_PKTS:] if it grew too long. *)
Bounded(seq) ==
  IF Len(seq) > MAX_BUFFERED_PKTS
  THEN SubSeq(seq, Len(seq) - MAX_BUFFERED_PKTS + 1, Len(seq))
  ELSE seq

(* The new fates when p joins seq and the oldest may be trimmed. *)
FateAfter(seq, p, what) ==
  [q \in Packets |->
     IF q = p THEN what
     ELSE IF q \in ToSet(seq) \ ToSet(Bounded(Append(seq, p))) THEN "trimmed"
     ELSE fate[q]]

Park(p) ==
  /\ udp_buffer' = Bounded(Append(udp_buffer, p))
  /\ fate' = FateAfter(udp_buffer, p, "buffered")

(* Fault: a packet that finds the send buffer full is dropped. *)
DeferDrops(p) == UNCHANGED <<pending_queue, fate>>

Defer(p) ==
  /\ pending_queue' = Bounded(Append(pending_queue, p))
  /\ fate' = FateAfter(pending_queue, p, "deferred")

(* recvfrom() raises BlockingIOError: no more datagrams. *)
UdpEmpty ==
  /\ phase = "udp"
  /\ udp_rcv = <<>>
  /\ phase' = "retry"
  /\ UNCHANGED <<tunnel, sent, udp_rcv, tcp_conn, udp_buffer, pending_queue,
                 server_ready, conn_ready, fate, taken>>

(* One datagram, with a connection: sent, deferred, or the end of the      *)
(* connection.                                                             *)
ReadConnected ==
  /\ phase = "udp"
  /\ udp_rcv # <<>>
  /\ tcp_conn # None
  /\ udp_rcv' = Tail(udp_rcv)
  /\ taken' = taken \cup {Head(udp_rcv)}
  /\ LET data == Head(udp_rcv) IN
       \/ /\ SendsWhole(tcp_conn, data)
          /\ fate' = [fate EXCEPT ![data] = "handed"]
          /\ UNCHANGED <<tcp_conn, udp_buffer, pending_queue>>
       \/ /\ SendBlocks(tcp_conn, data)
          /\ Defer(data)
          /\ UNCHANGED <<tcp_conn, udp_buffer>>
       \/ /\ SendFails(tcp_conn)
          /\ tcp_conn' = None
          /\ pending_queue' = <<>>
          /\ Park(data)
  /\ UNCHANGED <<conns, open, backlog, sent, phase, server_ready, conn_ready>>

(* One datagram, without a connection. *)
ReadUnconnected ==
  /\ phase = "udp"
  /\ udp_rcv # <<>>
  /\ tcp_conn = None
  /\ udp_rcv' = Tail(udp_rcv)
  /\ Park(Head(udp_rcv))
  /\ UNCHANGED <<tunnel, sent, tcp_conn, pending_queue, phase, server_ready,
                 conn_ready, taken>>

(* Fault: a retried packet stays in the queue. *)
RetryKeeps ==
  /\ phase = "retry"
  /\ tcp_conn # None
  /\ pending_queue # <<>>
  /\ SendsWhole(tcp_conn, Head(pending_queue))
  /\ fate' = [fate EXCEPT ![Head(pending_queue)] = "handed"]
  /\ UNCHANGED <<conns, open, backlog, sent, udp_rcv, tcp_conn, udp_buffer,
                 pending_queue, phase, server_ready, conn_ready, taken>>

(* Fault: the retry is tied to the other buffer. *)
RetryWrongList ==
  /\ phase = "retry"
  /\ tcp_conn # None
  /\ pending_queue # <<>> /\ udp_buffer # <<>>
  /\ SendsWhole(tcp_conn, Head(pending_queue))
  /\ pending_queue' = Tail(pending_queue)
  /\ fate' = [fate EXCEPT ![Head(pending_queue)] = "handed"]
  /\ UNCHANGED <<conns, open, backlog, sent, udp_rcv, tcp_conn, udp_buffer,
                 phase, server_ready, conn_ready, taken>>

(* `for data in list(pending_queue)`: one packet leaves the queue ...      *)
RetryOne ==
  /\ phase = "retry"
  /\ tcp_conn # None
  /\ pending_queue # <<>>
  /\ SendsWhole(tcp_conn, Head(pending_queue))
  /\ pending_queue' = Tail(pending_queue)
  /\ fate' = [fate EXCEPT ![Head(pending_queue)] = "handed"]
  /\ UNCHANGED <<conns, open, backlog, sent, udp_rcv, tcp_conn, udp_buffer,
                 phase, server_ready, conn_ready, taken>>

(* ... until there is none, the buffer is full again or the send fails.    *)
RetryEnds ==
  /\ phase = "retry"
  /\ \/ /\ tcp_conn = None \/ pending_queue = <<>>
        /\ UNCHANGED bytes
     \/ /\ tcp_conn # None /\ pending_queue # <<>>
        /\ \/ SendBlocks(tcp_conn, Head(pending_queue))
           \/ SendFails(tcp_conn)
  /\ phase' = "health"
  /\ UNCHANGED <<conns, open, backlog, sent, udp_rcv, tcp_conn, udp_buffer,
                 pending_queue, server_ready, conn_ready, fate, taken>>

(* The connection that select() reported readable is read: it is closed. *)
HealthCheck ==
  /\ phase = "health"
  /\ phase' = "select"
  /\ tcp_conn' = IF tcp_conn = conn_ready THEN None ELSE tcp_conn
  /\ UNCHANGED <<tunnel, sent, udp_rcv, udp_buffer, pending_queue,
                 server_ready, conn_ready, fate, taken>>

data_channel ==
  \/ Select \/ NoConnection \/ Accept \/ FlushOne \/ FlushEnds
  \/ UdpEmpty \/ ReadConnected \/ ReadUnconnected
  \/ RetryOne \/ RetryEnds \/ HealthCheck

(* The types, and MAX_BUFFERED_PKTS kept on every path that appends. *)
DeviceTypeOK ==
  /\ sent \in 0 .. MaxPkts
  /\ udp_rcv \in Seq(Packets) /\ Len(udp_rcv) <= UdpCap
  /\ tcp_conn \in Conns \cup {None}
  /\ udp_buffer \in Seq(Packets) /\ Len(udp_buffer) <= MAX_BUFFERED_PKTS
  /\ pending_queue \in Seq(Packets) /\ Len(pending_queue) <= MAX_BUFFERED_PKTS
  /\ phase \in {"select", "accept", "flush", "udp", "retry", "health"}
  /\ server_ready \in BOOLEAN
  /\ conn_ready \in Conns \cup {None}
  /\ fate \in [Packets -> Fates]
  /\ taken \subseteq Packets
=============================================================================
