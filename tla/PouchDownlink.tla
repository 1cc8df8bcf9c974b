----------------------------- MODULE PouchDownlink -----------------------------
(***************************************************************************)
(* The downlink of a Pouch node: the transport pushes the bytes of a pouch *)
(* in packets, pouch_downlink_push cuts them into a header and blocks,     *)
(* decrypt_blocks (system work queue) decrypts the blocks, consume_blocks  *)
(* (Pouch work queue) hands them to the application's handlers.            *)
(* The session that decrypts them is saead/downlink.c's.                   *)
(*                                                                         *)
(* Bytes are counted in units.  The first unit of a block is its size field *)
(* and the byte after it: from then on its size is known.  Units are       *)
(* labelled with the pouch and the part (0: header, 1, 2, ...: blocks)     *)
(* they belong to, their place in that part and its size.                  *)
(*                                                                         *)
(* The transport (Bluetooth's receive thread) and the system work queue are *)
(* cooperative threads; the Pouch work queue is preemptible.               *)
(***************************************************************************)
EXTENDS Integers, Sequences

LOCAL INSTANCE SequencesExt

CONSTANTS
    Pouches,      \* what the server sends: a sequence of [sess, pid, wire]
    NoBuf,        \* the NULL buffer pointer
    NoKey,        \* PSA_KEY_ID_NULL
    HeaderUnits,  \* units of a pouch header
    Capacity,     \* MAX_CIPHERTEXT_BLOCK_SIZE
    MaxPush,      \* bound: units in a packet of the transport
    MayFail,      \* memory or key derivation may fail
    MayAbort,     \* the transport may start a pouch before it pushed all of the last one
    UplinkEnds    \* the uplink may end the crypto sessions in between

Units    == [pouch : 1..Len(Pouches), part : Nat, off : Nat \ {0}, size : Nat \ {0}]
Sessions == [initiator : {"device", "server"}, type : {"random", "sequential"},
             num : Nat, alg : {"gcm", "chacha20"}]

ASSUME DownlinkAssumption ==
    /\ Pouches \in Seq([sess : Sessions, pid : Nat, wire : Seq(Units)])
    /\ HeaderUnits \in Nat \ {0} /\ Capacity \in Nat /\ HeaderUnits <= Capacity
    /\ MaxPush \in Nat
    /\ MayFail \in BOOLEAN /\ MayAbort \in BOOLEAN
    /\ UplinkEnds \in BOOLEAN
    /\ NoBuf \notin Seq(Units) /\ NoKey \notin Sessions

VARIABLES
    pouch_buf,     \* downlink.c: bytes of the header or block being assembled
    pouch_header,  \* the header of the pouch has been parsed
    decrypt_q, decrypt_work,   \* decrypt.queue, decrypt.work is pending
    consume_q, consume_work,   \* consume.buf_queue, consume.work is pending
    downlink,      \* struct session of saead/downlink.c
    server,        \* the last sequence number and pouch ID of the server
    bufs,          \* buffers allocated and not yet freed
    \* control
    tpc, packet,   \* transport: where in pouch_downlink_push, bytes left of the packet
    sending, rest, \* the pouch it is pushing, the units it has not pushed
    dpc, dbuf,     \* decrypt_blocks and its block
    cpc, cbuf,     \* consume_blocks and its block
    \* history
    delivered,     \* blocks handed to the handlers
    dropped        \* some block or packet was discarded

pushVars      == <<pouch_buf, pouch_header, tpc, packet, sending, rest>>
decryptVars   == <<dpc, dbuf>>
consumeVars   == <<cpc, cbuf, delivered>>
sessionVars   == <<downlink, server>>
vars == <<pushVars, decryptVars, consumeVars, sessionVars, decrypt_q, decrypt_work,
          consume_q, consume_work, bufs, dropped>>

-----------------------------------------------------------------------------
(* A cooperative thread runs until it blocks; the key agreement of a new session
   waits for the crypto driver. *)
TransportBlocks == {"idle", "crypto"}

TransportRuns == dpc = "idle"
DecryptRuns   == tpc \in TransportBlocks
ConsumeRuns   == dpc = "idle" /\ tpc \in TransportBlocks

TransportAt(l) == tpc = l /\ TransportRuns

Take(q, n) == SubSeq(q, 1, n)
Drop(q, n) == SubSeq(q, n + 1, Len(q))
Least(a, b) == IF a <= b THEN a ELSE b

(* The first unit of an assembled block says how long the block is. *)
BlockSize(b) == b[1].size

(* How many buffers a pointer holds, and the bytes in them *)
One(b)   == IF b = NoBuf THEN 0 ELSE 1
Bytes(b) == IF b = NoBuf THEN <<>> ELSE b

-----------------------------------------------------------------------------
(* Transport *)

(* The rest of the packet is thrown away. *)
push_return ==
    /\ packet' = <<>>
    /\ tpc' = "idle"
    /\ dropped' = TRUE

(* pouch_downlink_start and the first packet.  The last buffer is not freed. *)
pouch_downlink_start(n) ==
    /\ TransportAt("idle") /\ sending < Len(Pouches) /\ (rest = <<>> \/ MayAbort)
    /\ LET wire == Pouches[sending + 1].wire
       IN  n <= Len(wire) /\ packet' = Take(wire, n) /\ rest' = Drop(wire, n)
    /\ sending' = sending + 1
    /\ pouch_header' = FALSE
    /\ \/ pouch_buf' = <<>> /\ bufs' = bufs + 1
       \/ MayFail /\ pouch_buf' = NoBuf /\ UNCHANGED bufs
    /\ tpc' = "push"
    /\ dropped' = (dropped \/ rest # <<>> \/ pouch_buf \notin {NoBuf, <<>>})
    /\ UNCHANGED <<decryptVars, consumeVars, sessionVars, decrypt_q, decrypt_work,
                   consume_q, consume_work>>

(* A further packet of the same pouch. *)
pouch_downlink_push(n) ==
    /\ TransportAt("idle") /\ n <= Len(rest)
    /\ packet' = Take(rest, n)
    /\ rest' = Drop(rest, n)
    /\ tpc' = "push"
    /\ UNCHANGED <<pouch_buf, pouch_header, sending, decryptVars, consumeVars, sessionVars,
                   decrypt_q, decrypt_work, consume_q, consume_work, bufs, dropped>>

(* while (buf_len) *)
push_end ==
    /\ TransportAt("push") /\ packet = <<>>
    /\ tpc' = "idle"
    /\ UNCHANGED <<pouch_buf, pouch_header, packet, sending, rest, decryptVars, consumeVars,
                   sessionVars, decrypt_q, decrypt_work, consume_q, consume_work, bufs,
                   dropped>>

(* No buffer, or no space in it. *)
push_no_space ==
    /\ TransportAt("push") /\ packet # <<>>
    /\ pouch_buf # NoBuf => Len(pouch_buf) >= Capacity
    /\ push_return
    /\ UNCHANGED <<pouch_buf, pouch_header, sending, rest, decryptVars, consumeVars,
                   sessionVars, decrypt_q, decrypt_work, consume_q, consume_work, bufs>>

(* Mutant: the packet is copied whatever space is left. *)
push_write_all ==
    /\ TransportAt("push") /\ packet # <<>> /\ pouch_buf # NoBuf /\ Len(pouch_buf) < Capacity
    /\ pouch_buf' = pouch_buf \o packet
    /\ packet' = <<>>
    /\ tpc' = IF pouch_header THEN "block" ELSE "header"
    /\ UNCHANGED <<pouch_header, sending, rest, decryptVars, consumeVars, sessionVars,
                   decrypt_q, decrypt_work, consume_q, consume_work, bufs, dropped>>

push_write ==
    /\ TransportAt("push") /\ packet # <<>> /\ pouch_buf # NoBuf /\ Len(pouch_buf) < Capacity
    /\ LET n == Least(Len(packet), Capacity - Len(pouch_buf))
       IN  pouch_buf' = pouch_buf \o Take(packet, n) /\ packet' = Drop(packet, n)
    /\ tpc' = IF pouch_header THEN "block" ELSE "header"
    /\ UNCHANGED <<pouch_header, sending, rest, decryptVars, consumeVars, sessionVars,
                   decrypt_q, decrypt_work, consume_q, consume_work, bufs, dropped>>

-----------------------------------------------------------------------------
(* Transport: the header.  A header that is not complete, or that is refused, is
   tried again when the next packet has been appended to it. *)

HeaderSession == Pouches[sending].sess

SameId(s, t) == s.initiator = t.initiator /\ s.type = t.type /\ s.num = t.num

(* is_valid_downlink *)
is_valid_downlink(s) ==
    "valid" \in downlink.flags =>
        /\ SameId(downlink.id, s) => downlink.id.alg = s.alg
        /\ (s.initiator = "server" /\ s.type = "sequential") => s.num > server.seqnum

(* The session of a device is random, so the server can never name it as its own. *)
saead_uplink_session_matches(s) == FALSE

push_header_incomplete ==
    /\ TransportAt("header") /\ Len(pouch_buf) < HeaderUnits
    /\ packet' = <<>>
    /\ tpc' = "idle"
    /\ UNCHANGED <<pouch_buf, pouch_header, sending, rest, decryptVars, consumeVars,
                   sessionVars, decrypt_q, decrypt_work, consume_q, consume_work, bufs,
                   dropped>>

push_header_refused ==
    /\ TransportAt("header") /\ Len(pouch_buf) >= HeaderUnits
    /\ \/ ~is_valid_downlink(HeaderSession)
       \/ HeaderSession.initiator = "device" /\ ~saead_uplink_session_matches(HeaderSession)
    /\ push_return
    /\ UNCHANGED <<pouch_buf, pouch_header, sending, rest, decryptVars, consumeVars,
                   sessionVars, decrypt_q, decrypt_work, consume_q, consume_work, bufs>>

(* The session's key is being derived. *)
push_header ==
    /\ TransportAt("header") /\ Len(pouch_buf) >= HeaderUnits
    /\ is_valid_downlink(HeaderSession) /\ HeaderSession.initiator = "server"
    /\ tpc' = "crypto"
    /\ UNCHANGED <<pouch_buf, pouch_header, packet, sending, rest, decryptVars, consumeVars,
                   sessionVars, decrypt_q, decrypt_work, consume_q, consume_work, bufs,
                   dropped>>

push_header_no_key ==
    /\ MayFail /\ TransportAt("crypto")
    /\ push_return
    /\ UNCHANGED <<pouch_buf, pouch_header, sending, rest, decryptVars, consumeVars,
                   sessionVars, decrypt_q, decrypt_work, consume_q, consume_work, bufs>>

(* saead_downlink_session_start replaces the session; saead_downlink_pouch_start
   never sees the flag "has_pouch" of the old one.  The header is trimmed. *)
downlink_session_start ==
    /\ TransportAt("crypto")
    /\ downlink' = [flags |-> {"active"}, id |-> HeaderSession, key |-> HeaderSession,
                    pid |-> Pouches[sending].pid, idx |-> 0]
    /\ pouch_header' = TRUE
    /\ pouch_buf' = Drop(pouch_buf, HeaderUnits)
    /\ tpc' = "block"
    /\ UNCHANGED <<packet, sending, rest, server, decryptVars, consumeVars, decrypt_q,
                   decrypt_work, consume_q, consume_work, bufs, dropped>>

-----------------------------------------------------------------------------
(* Transport: the next block *)

push_block_incomplete ==
    /\ TransportAt("block")
    /\ \/ pouch_buf = <<>>
       \/ pouch_buf # <<>> /\ BlockSize(pouch_buf) <= Capacity
          /\ Len(pouch_buf) < BlockSize(pouch_buf)
    /\ tpc' = "push"
    /\ UNCHANGED <<pouch_buf, pouch_header, packet, sending, rest, decryptVars, consumeVars,
                   sessionVars, decrypt_q, decrypt_work, consume_q, consume_work, bufs,
                   dropped>>

push_block_too_big ==
    /\ TransportAt("block") /\ pouch_buf # <<>> /\ BlockSize(pouch_buf) > Capacity
    /\ push_return
    /\ UNCHANGED <<pouch_buf, pouch_header, sending, rest, decryptVars, consumeVars,
                   sessionVars, decrypt_q, decrypt_work, consume_q, consume_work, bufs>>

(* Mutant: a block is taken for complete only when a byte follows it. *)
push_block_late ==
    /\ TransportAt("block") /\ pouch_buf # <<>> /\ BlockSize(pouch_buf) <= Capacity
    /\ \/ /\ Len(pouch_buf) = BlockSize(pouch_buf)
          /\ tpc' = "push"
          /\ UNCHANGED <<pouch_buf, decrypt_q, bufs>>
       \/ /\ Len(pouch_buf) > BlockSize(pouch_buf)
          /\ pouch_buf' = Drop(pouch_buf, BlockSize(pouch_buf))
          /\ decrypt_q' = Append(decrypt_q, Take(pouch_buf, BlockSize(pouch_buf)))
          /\ bufs' = bufs + 1
          /\ tpc' = "submit"
    /\ UNCHANGED <<pouch_header, packet, sending, rest, decryptVars, consumeVars, sessionVars,
                   decrypt_work, consume_q, consume_work, dropped>>

(* Mutant: what follows the block in the packet is not kept. *)
push_block_forgets ==
    /\ TransportAt("block") /\ pouch_buf # <<>> /\ BlockSize(pouch_buf) <= Capacity
    /\ Len(pouch_buf) >= BlockSize(pouch_buf)
    /\ pouch_buf' = <<>>
    /\ decrypt_q' = Append(decrypt_q, Take(pouch_buf, BlockSize(pouch_buf)))
    /\ bufs' = bufs + 1
    /\ tpc' = "submit"
    /\ UNCHANGED <<pouch_header, packet, sending, rest, decryptVars, consumeVars, sessionVars,
                   decrypt_work, consume_q, consume_work, dropped>>

(* The complete block is queued; what follows it moves to a new buffer, or stays
   with the block when there is no memory for one. *)
push_block ==
    /\ TransportAt("block") /\ pouch_buf # <<>> /\ BlockSize(pouch_buf) <= Capacity
    /\ Len(pouch_buf) >= BlockSize(pouch_buf)
    /\ \/ /\ pouch_buf' = Drop(pouch_buf, BlockSize(pouch_buf))
          /\ decrypt_q' = Append(decrypt_q, Take(pouch_buf, BlockSize(pouch_buf)))
          /\ bufs' = bufs + 1
       \/ /\ MayFail
          /\ pouch_buf' = NoBuf
          /\ decrypt_q' = Append(decrypt_q, pouch_buf)
          /\ UNCHANGED bufs
    /\ tpc' = "submit"
    /\ UNCHANGED <<pouch_header, packet, sending, rest, decryptVars, consumeVars, sessionVars,
                   decrypt_work, consume_q, consume_work, dropped>>

push_submit ==
    /\ TransportAt("submit")
    /\ decrypt_work' = TRUE
    /\ tpc' = "push"
    /\ UNCHANGED <<pouch_buf, pouch_header, packet, sending, rest, decryptVars, consumeVars,
                   sessionVars, decrypt_q, consume_q, consume_work, bufs, dropped>>

(* The uplink ends: crypto_session_end takes the downlink's session along. *)
crypto_session_end ==
    /\ UplinkEnds /\ TransportAt("idle") /\ "active" \in downlink.flags
    /\ downlink' = [downlink EXCEPT !.flags = @ \ {"active"}, !.key = NoKey]
    /\ UNCHANGED <<pushVars, server, decryptVars, consumeVars, decrypt_q, decrypt_work,
                   consume_q, consume_work, bufs, dropped>>

-----------------------------------------------------------------------------
(* System work queue: decrypt_blocks, one block per run *)

DecryptAt(l) == dpc = l /\ DecryptRuns

(* With an empty queue the block is NULL.  Decrypting it is undefined: the model
   stops there. *)
decrypt_begin ==
    /\ DecryptAt("idle") /\ decrypt_work
    /\ decrypt_work' = FALSE
    /\ IF decrypt_q = <<>> THEN dbuf' = NoBuf /\ UNCHANGED decrypt_q
         ELSE dbuf' = Head(decrypt_q) /\ decrypt_q' = Tail(decrypt_q)
    /\ dpc' = "decrypt"
    /\ UNCHANGED <<pushVars, consumeVars, sessionVars, consume_q, consume_work, bufs, dropped>>

(* The block is whole and has nothing after it, and key, pouch ID, block index and
   the tag of the block before it are the ones it was encrypted with. *)
Decryptable(b) ==
    LET p == Pouches[b[1].pouch]
    IN  /\ Len(b) = BlockSize(b) /\ \A i \in DOMAIN b : b[i] = [b[1] EXCEPT !.off = i]
        /\ downlink.key = p.sess /\ downlink.pid = p.pid /\ downlink.idx = b[1].part - 1

(* session_decrypt_block and saead_downlink_block_decrypt *)
decrypt_block ==
    /\ DecryptAt("decrypt") /\ dbuf # NoBuf /\ Decryptable(dbuf)
    /\ downlink' = [downlink EXCEPT !.flags = @ \union {"valid", "has_pouch"}, !.idx = @ + 1]
    /\ server' = [pid |-> downlink.pid,
                  seqnum |-> IF downlink.id.initiator = "server"
                                /\ downlink.id.type = "sequential"
                               THEN downlink.id.num ELSE server.seqnum]
    /\ dpc' = "put"
    /\ UNCHANGED <<pushVars, dbuf, consumeVars, decrypt_q, decrypt_work, consume_q,
                   consume_work, bufs, dropped>>

(* Mutant: a block that cannot be decrypted is not freed. *)
decrypt_fail_leaks ==
    /\ DecryptAt("decrypt") /\ dbuf # NoBuf /\ (~Decryptable(dbuf) \/ MayFail)
    /\ dbuf' = NoBuf
    /\ dropped' = TRUE
    /\ dpc' = "idle"
    /\ UNCHANGED <<pushVars, consumeVars, sessionVars, decrypt_q, decrypt_work, consume_q,
                   consume_work, bufs>>

(* Returns without looking at the rest of the queue. *)
decrypt_fail ==
    /\ DecryptAt("decrypt") /\ dbuf # NoBuf /\ (~Decryptable(dbuf) \/ MayFail)
    /\ dbuf' = NoBuf
    /\ bufs' = bufs - 1
    /\ dropped' = TRUE
    /\ dpc' = "idle"
    /\ UNCHANGED <<pushVars, consumeVars, sessionVars, decrypt_q, decrypt_work, consume_q,
                   consume_work>>

(* Mutants: the block is put at the head of the queue; the work is always, or
   never, submitted again. *)
decrypt_put_first ==
    /\ DecryptAt("put")
    /\ consume_q' = <<dbuf>> \o consume_q
    /\ consume_work' = TRUE
    /\ dbuf' = NoBuf
    /\ dpc' = "again"
    /\ UNCHANGED <<pushVars, consumeVars, sessionVars, decrypt_q, decrypt_work, bufs, dropped>>

decrypt_always_again ==
    /\ DecryptAt("again")
    /\ decrypt_work' = TRUE
    /\ dpc' = "idle"
    /\ UNCHANGED <<pushVars, dbuf, consumeVars, sessionVars, decrypt_q, consume_q,
                   consume_work, bufs, dropped>>

decrypt_never_again ==
    /\ DecryptAt("again")
    /\ dpc' = "idle"
    /\ UNCHANGED <<pushVars, dbuf, consumeVars, sessionVars, decrypt_q, decrypt_work,
                   consume_q, consume_work, bufs, dropped>>

decrypt_put ==
    /\ DecryptAt("put")
    /\ consume_q' = Append(consume_q, dbuf)
    /\ consume_work' = TRUE
    /\ dbuf' = NoBuf
    /\ dpc' = "again"
    /\ UNCHANGED <<pushVars, consumeVars, sessionVars, decrypt_q, decrypt_work, bufs, dropped>>

decrypt_again ==
    /\ DecryptAt("again")
    /\ decrypt_work' = (decrypt_work \/ decrypt_q # <<>>)
    /\ dpc' = "idle"
    /\ UNCHANGED <<pushVars, dbuf, consumeVars, sessionVars, decrypt_q, consume_q,
                   consume_work, bufs, dropped>>

-----------------------------------------------------------------------------
(* Pouch work queue: consume_blocks, one block per run *)

ConsumeAt(l) == cpc = l /\ ConsumeRuns

consume_begin ==
    /\ ConsumeAt("idle") /\ consume_work
    /\ consume_work' = FALSE
    /\ IF consume_q = <<>> THEN UNCHANGED <<cbuf, consume_q, cpc>>
         ELSE cbuf' = Head(consume_q) /\ consume_q' = Tail(consume_q) /\ cpc' = "deliver"
    /\ UNCHANGED <<pushVars, decryptVars, delivered, sessionVars, decrypt_q, decrypt_work,
                   bufs, dropped>>

(* pouch_downlink_block_push calls the handlers; the block is freed. *)
consume_deliver ==
    /\ ConsumeAt("deliver")
    /\ delivered' = Append(delivered, cbuf)
    /\ cbuf' = NoBuf
    /\ bufs' = bufs - 1
    /\ cpc' = "again"
    /\ UNCHANGED <<pushVars, decryptVars, sessionVars, decrypt_q, decrypt_work, consume_q,
                   consume_work, dropped>>

consume_again ==
    /\ ConsumeAt("again")
    /\ consume_work' = (consume_work \/ consume_q # <<>>)
    /\ cpc' = "idle"
    /\ UNCHANGED <<pushVars, decryptVars, cbuf, delivered, sessionVars, decrypt_q,
                   decrypt_work, consume_q, bufs, dropped>>

-----------------------------------------------------------------------------
NoSession ==
    [flags |-> {}, id |-> NoKey, key |-> NoKey, pid |-> 0, idx |-> 0]

(* downlink_init and the static initialisers *)
Init ==
    /\ pouch_buf = NoBuf /\ pouch_header = FALSE
    /\ decrypt_q = <<>> /\ decrypt_work = FALSE
    /\ consume_q = <<>> /\ consume_work = FALSE
    /\ downlink = NoSession /\ server = [pid |-> 0, seqnum |-> 0]
    /\ bufs = 0
    /\ tpc = "idle" /\ packet = <<>> /\ sending = 0 /\ rest = <<>>
    /\ dpc = "idle" /\ dbuf = NoBuf /\ cpc = "idle" /\ cbuf = NoBuf
    /\ delivered = <<>> /\ dropped = FALSE

(* What happens inside of one call of the transport *)
push_loop ==
    \/ push_end \/ push_no_space \/ push_write
    \/ push_header_incomplete \/ push_header_refused \/ push_header \/ push_header_no_key
    \/ downlink_session_start
    \/ push_block_incomplete \/ push_block_too_big \/ push_block \/ push_submit

decrypt_blocks ==
    decrypt_begin \/ decrypt_block \/ decrypt_fail \/ decrypt_put \/ decrypt_again

consume_blocks == consume_begin \/ consume_deliver \/ consume_again

Next ==
    \/ \E n \in 1..MaxPush : pouch_downlink_start(n) \/ pouch_downlink_push(n)
    \/ push_loop
    \/ crypto_session_end
    \/ decrypt_blocks
    \/ consume_blocks

Spec == Init /\ [][Next]_vars

(* The work queues get the CPU again and again, and a call of the transport ends. *)
Fairness ==
    WF_vars(push_loop) /\ WF_vars(decrypt_blocks) /\ WF_vars(consume_blocks)

FairSpec == Spec /\ Fairness

-----------------------------------------------------------------------------
(* Properties *)

Blocks == Seq(Units) \ {<<>>}

PushTypes ==
    /\ pouch_buf \in Seq(Units) \union {NoBuf}
    /\ pouch_buf # NoBuf => Len(pouch_buf) <= Capacity
    /\ pouch_header \in BOOLEAN
    /\ packet \in Seq(Units) /\ rest \in Seq(Units) /\ sending \in 0..Len(Pouches)
    /\ tpc \in {"idle", "push", "header", "crypto", "block", "submit"}

DecryptTypes ==
    /\ decrypt_q \in Seq(Blocks) /\ decrypt_work \in BOOLEAN
    /\ dpc \in {"idle", "decrypt", "put", "again"} /\ dbuf \in Blocks \union {NoBuf}

ConsumeTypes ==
    /\ consume_q \in Seq(Blocks) /\ consume_work \in BOOLEAN
    /\ cpc \in {"idle", "deliver", "again"} /\ cbuf \in Blocks \union {NoBuf}
    /\ delivered \in Seq(Blocks)

SessionTypes ==
    /\ downlink \in [flags : SUBSET {"active", "valid", "has_pouch"},
                     id : Sessions \union {NoKey}, key : Sessions \union {NoKey},
                     pid : Nat, idx : Nat]
    /\ server \in [pid : Nat, seqnum : Nat]

(* The assembly buffer never holds more than it was allocated for, and no buffer
   is freed that was not allocated (pouch_downlink_push, buf_free). *)
TypeOK ==
    /\ PushTypes /\ DecryptTypes /\ ConsumeTypes /\ SessionTypes
    /\ bufs \in Nat /\ dropped \in BOOLEAN

(* The blocks of pouches 1..n, without the headers *)
Bodies(n) == FlattenSeq([p \in 1..n |-> Drop(Pouches[p].wire, HeaderUnits)])

(* What left the transport's buffer, in the order in which it did *)
Pushed ==
    FlattenSeq(delivered) \o Bytes(cbuf) \o FlattenSeq(consume_q) \o Bytes(dbuf)
        \o FlattenSeq(decrypt_q)

(* As long as nothing is discarded, no byte is lost, repeated or moved on its way
   from the packets through the assembly buffer and both queues to the handlers,
   however the packets cut the blocks (pouch_downlink_push, decrypt_blocks,
   consume_blocks). *)
BytesInOrder ==
    (~dropped /\ sending > 0) =>
        LET assembling == Bytes(pouch_buf) \o packet \o rest
        IN  IF pouch_header THEN Pushed \o assembling = Bodies(sending)
              ELSE Pushed = Bodies(sending - 1) /\ assembling = Pouches[sending].wire

(* Whatever is discarded, a handler sees a block only as the first of a pouch or
   directly after the block before it: the block index and the chained tag of
   saead_downlink_block_decrypt let no block of another pouch or out of turn
   pass.  A pouch that is sent again has the same blocks. *)
NoGaps ==
    \A i \in DOMAIN delivered :
        LET b == delivered[i][1]
        IN  \/ b.part = 1
            \/ /\ i > 1
               /\ LET a == delivered[i - 1][1]
                  IN  /\ b.part = a.part + 1
                      /\ Pouches[b.pouch].sess = Pouches[a.pouch].sess
                      /\ Pouches[b.pouch].pid = Pouches[a.pouch].pid

(* Once the header is parsed, a packet is never refused for lack of space: when
   the buffer is full the block in it is complete and has been taken out, unless
   its size field is beyond what the node supports (the check at the top of
   pouch_downlink_push). *)
SpaceLeft ==
    (tpc = "push" /\ pouch_header /\ pouch_buf \notin {NoBuf, <<>>}
        /\ BlockSize(pouch_buf) <= Capacity) => Len(pouch_buf) < Capacity

(* decrypt_blocks passes what buf_queue_get returns on without a look: its work
   must never run with an empty queue. *)
NullNeverDecrypted == ~(dpc = "decrypt" /\ dbuf = NoBuf)

(* Every buffer of a block is freed once, by a decryption that fails or after its
   delivery, and none that is still in use.  Besides the blocks there is the
   assembly buffer: pouch_downlink_finish does not free it and pouch_downlink_start
   overwrites the pointer to it, so one may be left behind by each pouch, and no
   more than one. *)
Queued == Len(decrypt_q) + One(dbuf) + Len(consume_q) + One(cbuf)
OneBufferPerPouch == bufs \in (Queued + One(pouch_buf))..(Queued + sending)

(* A queued block gets to the handlers unless something was discarded: every
   submission that finds its work pending already is made up for by the work's
   own check of its queue (decrypt_blocks, consume_blocks). *)
BlocksReachHandlers ==
    (decrypt_q # <<>> \/ consume_q # <<>>)
        ~> (dropped \/ (decrypt_q = <<>> /\ consume_q = <<>>))

-----------------------------------------------------------------------------
(* Properties the code does not have *)

Quiet == tpc = "idle" /\ rest = <<>> /\ dpc = "idle" /\ ~decrypt_work
             /\ cpc = "idle" /\ ~consume_work

(* When a pouch has been pushed in full and the work queues are done, the handlers
   have all of its blocks (the test of test_lorem).  They have not: the loop of
   pouch_downlink_push ends with the packet and takes out one block a time, so
   what is complete after the last block it took out waits for another packet. *)
AllDelivered ==
    (Quiet /\ ~dropped) => FlattenSeq(delivered) = Bodies(sending)
================================================================================
