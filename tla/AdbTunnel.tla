----------------------------- MODULE AdbTunnel -----------------------------
(***************************************************************************)
(* The TCP connection that `adb forward` makes between the host bridge and *)
(* the device bridge (external code): a byte stream of bounded capacity.   *)
(*                                                                         *)
(* A framed packet is two units on the stream, its length header and its   *)
(* body, so a send() that runs out of room can stop in between.  The host  *)
(* has at most one connection, the newest; the device may still hold an    *)
(* older, dead one.                                                        *)
(***************************************************************************)
EXTENDS Integers, Sequences, SequencesExt

CONSTANTS
  MaxPkts,     (* bound: packets the sender emits                          *)
  MaxConns,    (* bound: connections; the last one is not broken           *)
  TcpCap       (* room of a connection, in units                           *)

ASSUME TunnelAssumption ==
  /\ MaxPkts \in Nat
  /\ MaxConns \in Nat \ {0}
  /\ TcpCap \in Nat \ {0, 1}

VARIABLES
  conns,    (* connections made so far: the newest is number `conns`       *)
  open,     (* the newest connection is intact                             *)
  backlog,  (* connections that tcp_server has not accepted yet            *)
  wire,     (* units the device sent on the newest one, unread by the host *)
  torn      (* history: a send on the newest one stopped inside a frame    *)

bytes  == <<wire, torn>>
tunnel == <<conns, open, backlog, bytes>>

Packets == 1 .. MaxPkts
Conns   == 1 .. MaxConns
None    == 0

Units == [pkt : Packets, part : {"len", "body"}]

(* struct.pack('>I', len(data)) + data *)
Frame(p) == <<[pkt |-> p, part |-> "len"], [pkt |-> p, part |-> "body"]>>

TunnelInit == conns = 0 /\ open = FALSE /\ backlog = <<>> /\ wire = <<>> /\ torn = FALSE

Live(c) == c = conns /\ open

Room == TcpCap - Len(wire)

(* The three outcomes of the loop `while total_sent < len(frame)` (and of  *)
(* sendall): all sent; BlockingIOError, which may come when a part of the  *)
(* frame was taken already; or a broken connection.  A socket              *)
(* whose peer is gone may still accept bytes for a while.                  *)
SendsWhole(c, p) ==
  /\ UNCHANGED torn
  /\ IF Live(c) THEN Room >= Len(Frame(p)) /\ wire' = wire \o Frame(p)
                ELSE UNCHANGED wire

SendBlocks(c, p) ==
  IF Live(c) THEN /\ Room < Len(Frame(p))
                  /\ \E k \in 0 .. Room :
                       /\ wire' = wire \o SubSeq(Frame(p), 1, k)
                       /\ torn' = (torn \/ k > 0)
             ELSE UNCHANGED bytes

SendFails(c) == ~Live(c) /\ UNCHANGED bytes

(* The tunnel goes down; what was in transit may be lost. *)
Break ==
  /\ open
  /\ conns < MaxConns
  /\ open' = FALSE
  /\ \E k \in 0 .. Len(wire) : wire' = SubSeq(wire, 1, k)
  /\ UNCHANGED <<conns, backlog, torn>>

TunnelTypeOK ==
  /\ conns \in 0 .. MaxConns
  /\ open \in BOOLEAN
  /\ backlog \in Seq(Conns)
  /\ wire \in Seq(Units) /\ Len(wire) <= TcpCap
  /\ torn \in BOOLEAN
=============================================================================
