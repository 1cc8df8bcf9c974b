----------------------------- MODULE UplinkService -----------------------------
(***************************************************************************)
(* What the uplink promises its users, without its threads, queues, flags  *)
(* and buffers: blocks that are submitted wait in line; a session delivers *)
(* from the front of the line; it ends once a close was asked for, or when *)
(* the transport gives up.  PouchUplink is checked to implement this       *)
(* specification, and ExampleNode is built on it.                          *)
(***************************************************************************)
EXTENDS Naturals, Sequences

CONSTANTS
    Cooperative,  \* the transport does not run while process_blocks does
    MayFail,      \* memory or keys may fail, so that blocks are lost
    MayAbort      \* the transport may finish before it was told NO_MORE_DATA

VARIABLES
    session,    \* "none", "starting", "open" or "ending"
    closing,    \* pouch_uplink_close was called since the last session finished
    number,     \* sessions finished
    pending,    \* blocks submitted and neither delivered nor lost, oldest first
    delivered   \* blocks the transport has pulled, each with its session

vars == <<session, closing, number, pending, delivered>>

Init ==
    /\ session = "none" /\ closing = FALSE /\ number = 0
    /\ pending = <<>> /\ delivered = <<>>

(* uplink_enqueue *)
Submit(b) ==
    /\ pending' = Append(pending, b)
    /\ UNCHANGED <<session, closing, number, delivered>>

(* pouch_uplink_close; a second one changes nothing *)
Close ==
    /\ ~closing
    /\ closing' = TRUE
    /\ UNCHANGED <<session, number, pending, delivered>>

(* pouch_uplink_start: SESSION_ACTIVE is set, then the session is prepared *)
Start ==
    /\ session = "none"
    /\ session' = "starting"
    /\ UNCHANGED <<closing, number, pending, delivered>>

Opened ==
    /\ session = "starting"
    /\ session' = "open"
    /\ UNCHANGED <<closing, number, pending, delivered>>

StartFailed ==
    /\ MayFail /\ session = "starting"
    /\ session' = "none"
    /\ UNCHANGED <<closing, number, pending, delivered>>

(* pouch_uplink_fill copies the last byte of the oldest block *)
Deliver ==
    /\ session = "open" /\ pending # <<>>
    /\ delivered' = Append(delivered, [id |-> number, blk |-> Head(pending)])
    /\ pending' = Tail(pending)
    /\ UNCHANGED <<session, closing, number>>

(* process_blocks cannot encrypt a block: something fails, the session has no key
   yet, or the transport has finished it since process_blocks found it active. *)
Lose ==
    /\ session = "starting" \/ MayFail \/ (session = "none" /\ ~Cooperative)
    /\ \E i \in DOMAIN pending :
           pending' = SubSeq(pending, 1, i - 1) \o SubSeq(pending, i + 1, Len(pending))
    /\ UNCHANGED <<session, closing, number, delivered>>

(* pouch_uplink_fill says NO_MORE_DATA, which takes a close: one of this session,
   or of the last if process_blocks was so late to close the pouch that the
   transport had finished it. *)
Drained ==
    /\ session = "open" /\ (closing \/ ~Cooperative)
    /\ session' = "ending"
    /\ UNCHANGED <<closing, number, pending, delivered>>

(* pouch_uplink_finish in the middle of a session: what was encrypted is gone *)
Abort ==
    /\ MayAbort /\ session = "open"
    /\ session' = "ending"
    /\ \E k \in 0..Len(pending) : pending' = SubSeq(pending, k + 1, Len(pending))
    /\ UNCHANGED <<closing, number, delivered>>

(* The end of pouch_uplink_finish; it forgets that a close was asked for. *)
Finished ==
    /\ session = "ending"
    /\ session' = "none"
    /\ closing' = FALSE
    /\ number' = number + 1
    /\ UNCHANGED <<pending, delivered>>

Next ==
    \/ Len(pending') > 0 /\ Submit(pending'[Len(pending')])
    \/ Close \/ Start \/ Opened \/ StartFailed \/ Deliver \/ Lose
    \/ Drained \/ Abort \/ Finished

Spec == Init /\ [][Next]_vars
================================================================================
