---------------------------- MODULE PacketRelay ----------------------------
(***************************************************************************)
(* What a relay of packets may do with each of them, whatever buffers and  *)
(* connections it is made of: take it in once, then either deliver it or   *)
(* lose it, and never bring it back.                                       *)
(***************************************************************************)
CONSTANT Packets
VARIABLE state

RelayInit == state = [p \in Packets |-> "outside"]

(* Several packets may be lost in one step (a buffer cleared, a stream     *)
(* cut), but only one is taken in or delivered.                            *)
Move(p, from, to) == state[p] = from /\ state' = [state EXCEPT ![p] = to]

LoseSome ==
  \E gone \in SUBSET {p \in Packets : state[p] = "held"} :
    /\ gone # {}
    /\ state' = [p \in Packets |-> IF p \in gone THEN "lost" ELSE state[p]]

RelayNext ==
  \/ \E p \in Packets : \/ Move(p, "outside", "held")
                        \/ Move(p, "outside", "lost")
                        \/ Move(p, "held", "delivered")
  \/ LoseSome

RelaySpec == RelayInit /\ [][RelayNext]_state
=============================================================================
