------------------------------ MODULE Packetizer ------------------------------
(***************************************************************************)
(* packetizer.c: a value leaves the node in packets that carry a FIRST and *)
(* a LAST flag; a packet that arrives is taken apart again.  A packetizer  *)
(* is what is left to send and whether a packet has been made yet.  Room   *)
(* for a packet is never zero: an ATT MTU is at least 23.                  *)
(***************************************************************************)
EXTENDS Naturals, Sequences

(* start_buffer over a copy of the value; start_callback over a fill function
   that walks through such a copy *)
NewPacketizer(value) == [left |-> value, is_first |-> TRUE]

(* At most room units; LAST as soon as nothing is left. *)
Get(p, room) ==
    LET n == IF room >= Len(p.left) THEN Len(p.left) ELSE room
    IN  [packet |-> [first |-> p.is_first,
                     last  |-> n = Len(p.left),
                     data  |-> SubSeq(p.left, 1, n)],
         next   |-> [left |-> SubSeq(p.left, n + 1, Len(p.left)), is_first |-> FALSE]]

(* What a receiver keeps of a value once it has decoded pkt, old being what it
   had: FIRST starts afresh, and a packet in the middle of a value of which it
   has nothing is of no use. *)
Decode(old, pkt, NoValue) ==
    CASE pkt.first                      -> pkt.data
      [] ~pkt.first /\ old = NoValue    -> NoValue
      [] ~pkt.first /\ old # NoValue    -> old \o pkt.data
================================================================================
