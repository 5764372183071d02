------------------------------ MODULE HostData ------------------------------
(***************************************************************************)
(* data_channel() of the host bridge: it connects to the tunnel, reads the *)
(* stream by its length headers, and sends each packet to the receiver.    *)
(***************************************************************************)
EXTENDS AdbTunnel

VARIABLES
  linked,     (* tcp is connected                                          *)
  hdr,        (* the unit read as header of the next packet, or <<>>       *)
  delivered,  (* how often each packet was sent to ffmpeg_receiver         *)
  garbage     (* history: what is no packet was sent to it over the        *)
              (* present connection                                        *)

host == <<linked, hdr, delivered, garbage>>

HostInit ==
  /\ linked = FALSE
  /\ hdr = <<>>
  /\ delivered = [p \in Packets |-> 0]
  /\ garbage = FALSE

(* Fault: a header read before the break is kept for the new connection. *)
ConnectKeepsHeader ==
  /\ ~linked
  /\ conns < MaxConns
  /\ conns' = conns + 1
  /\ open' = TRUE
  /\ backlog' = Append(backlog, conns + 1)
  /\ wire' = <<>> /\ torn' = FALSE
  /\ linked' = TRUE
  /\ garbage' = FALSE
  /\ UNCHANGED <<hdr, delivered>>

Connect ==
  /\ ~linked
  /\ conns < MaxConns
  /\ conns' = conns + 1
  /\ open' = TRUE
  /\ backlog' = Append(backlog, conns + 1)
  /\ wire' = <<>> /\ torn' = FALSE
  /\ linked' = TRUE
  /\ hdr' = <<>>
  /\ garbage' = FALSE
  /\ UNCHANGED delivered

ReadUnit ==
  /\ linked
  /\ wire # <<>>
  /\ wire' = Tail(wire)
  /\ UNCHANGED <<conns, open, backlog, torn, linked>>

(* hdr = recv_exact(tcp, 4).  Payload bytes read as a length are either    *)
(* out of range, and the next four bytes are tried, or in range.           *)
ReadHeader ==
  /\ hdr = <<>>
  /\ ReadUnit
  /\ \/ hdr' = <<Head(wire)>>
     \/ Head(wire).part = "body" /\ UNCHANGED hdr
  /\ UNCHANGED <<delivered, garbage>>

(* pkt = recv_exact(tcp, pkt_len), then sendto(). *)
ReadBody ==
  /\ hdr # <<>>
  /\ ReadUnit
  /\ IF \E p \in Packets : hdr \o <<Head(wire)>> = Frame(p)
     THEN /\ delivered' = [delivered EXCEPT ![Head(wire).pkt] = @ + 1]
          /\ UNCHANGED garbage
     ELSE /\ garbage' = TRUE
          /\ UNCHANGED delivered
  /\ hdr' = <<>>

(* Fault: the end of the stream is not seen inside a packet. *)
StreamEndsBetween ==
  /\ linked /\ hdr = <<>>
  /\ ~open /\ wire = <<>>
  /\ linked' = FALSE
  /\ UNCHANGED <<tunnel, hdr, delivered, garbage>>

(* recv_exact() returns None: end of the stream ... *)
StreamEnds ==
  /\ linked
  /\ ~open /\ wire = <<>>
  /\ linked' = FALSE
  /\ UNCHANGED <<tunnel, hdr, delivered, garbage>>

(* ... or 30 s without a byte, and the host closes the connection. *)
ReadTimesOut ==
  /\ linked
  /\ open /\ wire = <<>>
  /\ conns < MaxConns
  /\ open' = FALSE
  /\ linked' = FALSE
  /\ UNCHANGED <<conns, backlog, bytes, hdr, delivered, garbage>>

HostTypeOK ==
  /\ linked \in BOOLEAN
  /\ hdr \in Seq(Units) /\ Len(hdr) <= 1
  /\ delivered \in [Packets -> Nat]
  /\ garbage \in BOOLEAN
=============================================================================
