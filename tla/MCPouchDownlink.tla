---------------------------- MODULE MCPouchDownlink ----------------------------
(* Pouches of a few small blocks for model checking PouchDownlink. *)
EXTENDS PouchDownlink

Part(p, k, n) == [i \in 1..n |-> [pouch |-> p, part |-> k, off |-> i, size |-> n]]

Sequential(n) == [initiator |-> "server", type |-> "sequential", num |-> n, alg |-> "gcm"]
Random(n, a)  == [initiator |-> "server", type |-> "random", num |-> n, alg |-> a]
Device        == [initiator |-> "device", type |-> "random", num |-> 1, alg |-> "gcm"]

Pouch(s, p, wire) == [sess |-> s, pid |-> p, wire |-> wire]

(* Blocks of one, two and three units; a pouch sent again, which its sequence number
   forbids once a block of it was decrypted; pouches the node cannot take: a block
   that is too big, a session whose algorithm changed, a session of the device; and
   then one that it can take. *)
Resent ==
    << Pouch(Sequential(1), 1, Part(1, 0, 2) \o Part(1, 1, 1) \o Part(1, 2, 2)),
       Pouch(Sequential(1), 1, Part(2, 0, 2) \o Part(2, 1, 1)),
       Pouch(Random(1, "gcm"), 1, Part(3, 0, 2) \o Part(3, 1, 1) \o Part(3, 2, 4)),
       Pouch(Random(1, "chacha20"), 1, Part(4, 0, 2)),
       Pouch(Device, 1, Part(5, 0, 2)),
       Pouch(Random(1, "gcm"), 2, Part(6, 0, 2) \o Part(6, 1, 3)) >>

(* Two pouches of two blocks *)
Plain ==
    << Pouch(Sequential(1), 1, Part(1, 0, 2) \o Part(1, 1, 1) \o Part(1, 2, 2)),
       Pouch(Sequential(2), 1, Part(2, 0, 2) \o Part(2, 1, 2) \o Part(2, 2, 1)) >>
================================================================================
