------------------------------- MODULE MCBleGatt -------------------------------
(* Certificates and values of a few units for model checking BleGatt. *)
EXTENDS BleGatt

(* Two certificates the node accepts, and one for every way to be refused *)
Mixed == [c \in ServerCerts |-> IF c \in {"a", "b"} THEN "good" ELSE c]
================================================================================
