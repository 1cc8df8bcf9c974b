------------------------------ MODULE PouchUplink ------------------------------
(***************************************************************************)
(* The uplink of a Pouch node: the application writes entries (entry.c)    *)
(* and streams (stream.c) into blocks, process_blocks (uplink.c) encrypts  *)
(* the blocks on the system work queue, and the transport starts a         *)
(* session, pulls the encrypted bytes out and finishes it (uplink.c).      *)
(*                                                                         *)
(* Three kinds of actors take steps: the application's threads (pc), the   *)
(* system work queue (wpc) and the transport's thread (tpc); a fourth, the *)
(* Pouch work queue, hands events to the application.  A step is what one  *)
(* atomic operation, one queue operation or one kernel call of the C code  *)
(* does, with what no other actor can see or disturb around it.            *)
(*                                                                         *)
(* Payloads are item numbers: every entry_write, and every piece of a      *)
(* stream_write, carries the next number.  Whether an item still fits in a *)
(* block is a free choice, which stands for every combination of lengths   *)
(* and of CONFIG_POUCH_BLOCK_SIZE.                                         *)
(***************************************************************************)
EXTENDS Integers, Sequences, FiniteSets

LOCAL INSTANCE SequencesExt

CONSTANTS
    Threads,      \* application threads that call the uplink API
    NoThread,     \* owner of a free mutex
    NoBuf,        \* the NULL buffer pointer
    StreamMask,   \* BLOCK_ID_MASK: a stream ID is a counter modulo StreamMask + 1
    StreamsMax,   \* POUCH_STREAMS_MAX
    EventDepth,   \* CONFIG_POUCH_EVENT_QUEUE_DEPTH
    BufUnits,     \* how many pieces a buffer can be pulled in by the transport
    Cooperative,  \* the transport and the work queue are cooperative threads of one CPU
    MayFail,      \* memory, entropy or key derivation may fail
    MayAbort,     \* the transport may finish before it was told NO_MORE_DATA
    MaxWrite,     \* bound: items of one stream_write
    MaxItems,     \* bound: items written in a behaviour
    MaxSessions,  \* bound: sessions the transport tries to start
    MaxStreamId   \* bound: value of the stream ID counter

ASSUME ConstantsAssumption ==
    /\ NoThread \notin Threads
    /\ StreamMask \in Nat \ {0} /\ StreamsMax \in Nat /\ EventDepth \in Nat
    /\ BufUnits \in Nat \ {0} /\ MaxWrite \in Nat /\ MaxItems \in Nat
    /\ MaxSessions \in Nat /\ MaxStreamId \in Nat
    /\ Cooperative \in BOOLEAN /\ MayFail \in BOOLEAN /\ MayAbort \in BOOLEAN
    \* pouch_uplink_finish empties its queue in one step: process_blocks is not in its
    \* loop then, unless it may run in the middle of a call and the pouch is open
    /\ MayAbort => Cooperative

VARIABLES
    \* struct pouch_uplink
    flags,        \* subset of "active", "closing", "closed"
    header,       \* header of the session, until the first block takes it along
    id,           \* number of sessions finished; streams remember it
    processing,   \* processing.queue: finished plaintext blocks
    work,         \* processing.work is pending on the system work queue
    transport,    \* transport.queue: buffers ready for the transport
    reader,       \* transport.reader: the buffer being pulled and its unread units
    \* the uplink's crypto session, struct session of saead/uplink.c
    crypto,
    \* entry.c
    block,        \* entry block under construction
    mut,          \* owner of the mutex around it
    \* stream.c
    stream_id,    \* next stream ID, before masking
    stream,       \* the open stream of every thread
    \* buf.c, pouch.c
    bufs,         \* buffers allocated and not yet freed
    event_q,      \* events emitted and not yet dispatched
    \* control
    pc, todo,     \* threads: where in a call, items still to write
    wpc, wbuf,    \* work queue: where in process_blocks, its encrypted block
    tpc, starts,  \* transport: where in its protocol, sessions it tried to start
    \* history
    items,        \* number of the last item
    pouch,        \* buffers pulled completely since the session started
    sent,         \* blocks pulled completely, with the id they were pulled under
    lost          \* items of blocks that process_blocks could not encrypt

entryVars     == <<block, mut>>
streamVars    == <<stream_id, stream>>
appVars       == <<entryVars, streamVars, pc, todo, items>>
workerVars    == <<wpc, wbuf, lost>>
outVars       == <<transport, reader, pouch, sent>>
transportVars == <<tpc, starts, id, event_q>>

(* What no step of a kind of actor changes. *)
otherThanApp       == <<header, crypto, workerVars, outVars, transportVars>>
otherThanWorker    == <<appVars, reader, pouch, sent, transportVars>>
otherThanTransport == <<processing, appVars, workerVars>>

vars == <<flags, header, processing, work, crypto, bufs, appVars, workerVars,
          outVars, transportVars>>

-----------------------------------------------------------------------------
(* Blocks and buffers *)

(* write_block_header: an entry block has ID 0 and is first and last at once.
   uid and sess are history: the unmasked ID and the session of a stream. *)
EntryBlock(data) ==
    [sid |-> 0, uid |-> 0, sess |-> 0, first |-> TRUE, last |-> TRUE, data |-> data]

(* block_alloc_stream *)
StreamBlock(s, first) ==
    [sid |-> s.sid, uid |-> s.uid, sess |-> s.sess, first |-> first, last |-> FALSE,
     data |-> <<>>]

(* block_finish_stream *)
FinishStream(b, last) == [b EXCEPT !.last = last]

(* pouch_uplink_entry_write copies an entry to the end of the block, and
   pouch_stream_write a piece of the data to the end of the stream's block. *)
AddEntry(b, entry) == [b EXCEPT !.data = @ \o entry]
AddPiece(s, piece) == [s EXCEPT !.buf = AddEntry(@, <<piece>>), !.bytes = @ + 1]

Header(k)     == [type |-> "header", key |-> k, idx |-> 0, blk |-> NoBuf]
Encrypted(b)  == [type |-> "block", key |-> crypto.key, idx |-> crypto.idx, blk |-> b]

(* How many buffers a pointer holds *)
One(b) == IF b = NoBuf THEN 0 ELSE 1

session_is_active == "active" \in flags
pouch_is_open     == "closed" \notin flags
pouch_is_closing  == "closing" \in flags

(* pouch_stream_is_valid *)
stream_is_valid(t) == stream[t] # NoBuf /\ stream[t].sess = id

NewStream(uid) ==
    LET s == [uid |-> uid, sid |-> uid % (StreamMask + 1), sess |-> id]
    IN  [uid |-> s.uid, sid |-> s.sid, sess |-> s.sess, bytes |-> 0,
         buf |-> StreamBlock(s, TRUE)]

open_streams == {t \in Threads : stream[t] # NoBuf}

(* new_stream_id skips the values whose masked ID is 0 *)
new_stream_uid == IF stream_id % (StreamMask + 1) = 0 THEN stream_id + 1 ELSE stream_id

(* k_msgq_put with K_NO_WAIT drops the event when the queue is full *)
pouch_event_emit(e) ==
    event_q' = IF Len(event_q) < EventDepth THEN Append(event_q, e) ELSE event_q

(* session_end: the key is destroyed only if the session was active *)
crypto_session_end ==
    crypto' = IF crypto.active THEN [crypto EXCEPT !.active = FALSE, !.key = 0]
                               ELSE crypto

-----------------------------------------------------------------------------
(* Scheduling.  A cooperative thread runs until it blocks: the transport
   blocks between its calls and while crypto_session_start waits for entropy. *)

TransportBlocks == {"none", "crypto", "open", "ended"}

AppRuns       == Cooperative => (wpc = "idle" /\ tpc \in TransportBlocks)
WorkerRuns    == Cooperative => tpc \in TransportBlocks
TransportRuns == Cooperative => wpc = "idle"

At(t, l)   == pc[t] = l /\ AppRuns
Goto(t, l) == pc' = [pc EXCEPT ![t] = l]
unlock     == mut' = NoThread

-----------------------------------------------------------------------------
(* Application: pouch_uplink_entry_write.  The lock's timeout changes nothing. *)

entry_lock(t) ==
    /\ At(t, "idle") /\ mut = NoThread /\ items < MaxItems
    /\ mut' = t
    /\ items' = items + 1
    /\ todo' = [todo EXCEPT ![t] = <<items + 1>>]
    /\ Goto(t, "entry")
    /\ UNCHANGED <<block, streamVars, flags, processing, work, bufs, otherThanApp>>

(* The end of a write that has (or just got) a fresh block, or found no memory:
   the entry is written, is too large even for an empty block, or has no block. *)
write_new_block(t) ==
    \/ /\ block' \in {EntryBlock(todo[t]), EntryBlock(<<>>)}
       /\ bufs' = bufs + 1
    \/ /\ MayFail
       /\ block' = NoBuf
       /\ UNCHANGED bufs

entry_write_done(t) ==
    /\ unlock
    /\ todo' = [todo EXCEPT ![t] = <<>>]
    /\ Goto(t, "idle")
    /\ UNCHANGED <<streamVars, items, flags, otherThanApp>>

(* First attempt: into a new block, or into the open one. *)
entry_write(t) ==
    /\ At(t, "entry")
    /\ \/ block = NoBuf /\ write_new_block(t)
       \/ /\ block # NoBuf
          /\ block' = AddEntry(block, todo[t])
          /\ UNCHANGED bufs
    /\ entry_write_done(t)
    /\ UNCHANGED <<processing, work>>

(* The open block is full: uplink_enqueue appends it ... *)
entry_block_full(t) ==
    /\ At(t, "entry") /\ block # NoBuf
    /\ processing' = Append(processing, block)
    /\ Goto(t, "entry_submit")
    /\ UNCHANGED <<entryVars, streamVars, todo, items, flags, work, bufs, otherThanApp>>

(* ... and submits the work; the entry is retried with a new block. *)
entry_write_retry(t) ==
    /\ At(t, "entry_submit")
    /\ work' = TRUE
    /\ write_new_block(t)
    /\ entry_write_done(t)
    /\ UNCHANGED processing

-----------------------------------------------------------------------------
(* Application: pouch_uplink_close.  A second close returns -EALREADY. *)

close_begin(t) ==
    /\ At(t, "idle") /\ ~pouch_is_closing
    /\ flags' = flags \union {"closing"}
    /\ Goto(t, "close")
    /\ UNCHANGED <<entryVars, streamVars, todo, items, processing, work, bufs,
                   otherThanApp>>

close_lock(t) ==
    /\ At(t, "close") /\ mut = NoThread
    /\ mut' = t
    /\ Goto(t, "close_block")
    /\ UNCHANGED <<block, streamVars, todo, items, flags, processing, work, bufs,
                   otherThanApp>>

(* entry_block_close times out: the work is submitted all the same. *)
close_lock_timeout(t) ==
    /\ At(t, "close") /\ mut # NoThread
    /\ Goto(t, "close_submit")
    /\ UNCHANGED <<entryVars, streamVars, todo, items, flags, processing, work, bufs,
                   otherThanApp>>

(* Mutant: "block = NULL" is forgotten after the block was enqueued. *)
close_keeps_block(t) ==
    /\ At(t, "close_block_submit")
    /\ work' = TRUE
    /\ unlock
    /\ Goto(t, "close_submit")
    /\ UNCHANGED <<block, streamVars, todo, items, flags, processing, bufs, otherThanApp>>

(* The size of an allocated block includes its header, so it is never 0. *)
close_block(t) ==
    /\ At(t, "close_block")
    /\ IF block # NoBuf
         THEN /\ processing' = Append(processing, block)
              /\ Goto(t, "close_block_submit")
              /\ UNCHANGED mut
         ELSE /\ unlock
              /\ Goto(t, "close_submit")
              /\ UNCHANGED processing
    /\ UNCHANGED <<block, streamVars, todo, items, flags, work, bufs, otherThanApp>>

(* Mutant: pouch_uplink_close leaves it to entry_block_close to submit the work. *)
close_without_submit(t) ==
    /\ At(t, "close_submit")
    /\ Goto(t, "idle")
    /\ UNCHANGED <<entryVars, streamVars, todo, items, flags, processing, work, bufs,
                   otherThanApp>>

close_block_submit(t) ==
    /\ At(t, "close_block_submit")
    /\ work' = TRUE
    /\ block' = NoBuf
    /\ unlock
    /\ Goto(t, "close_submit")
    /\ UNCHANGED <<streamVars, todo, items, flags, processing, bufs, otherThanApp>>

close_submit(t) ==
    /\ At(t, "close_submit")
    /\ work' = TRUE
    /\ Goto(t, "idle")
    /\ UNCHANGED <<entryVars, streamVars, todo, items, flags, processing, bufs,
                   otherThanApp>>

-----------------------------------------------------------------------------
(* Application: streams.  A thread uses its own stream ("not thread-safe"). *)

stream_open(t) ==
    /\ At(t, "idle") /\ stream[t] = NoBuf /\ new_stream_uid <= MaxStreamId
    /\ Cardinality(open_streams) < StreamsMax
    /\ stream_id' = new_stream_uid + 1
    /\ \/ /\ stream' = [stream EXCEPT ![t] = NewStream(new_stream_uid)]
          /\ bufs' = bufs + 1
       \/ MayFail /\ UNCHANGED <<stream, bufs>>
    /\ UNCHANGED <<entryVars, pc, todo, items, flags, processing, work, otherThanApp>>

(* The validity check at the top of pouch_stream_write; an invalid stream takes nothing. *)
stream_write_begin(t, n) ==
    /\ At(t, "idle") /\ stream_is_valid(t) /\ items + n <= MaxItems
    /\ items' = items + n
    /\ todo' = [todo EXCEPT ![t] = [i \in 1..n |-> items + i]]
    /\ Goto(t, "stream")
    /\ UNCHANGED <<entryVars, streamVars, flags, processing, work, bufs, otherThanApp>>

(* One round of the copy loop with space left. *)
stream_write(t) ==
    /\ At(t, "stream")
    /\ stream' = [stream EXCEPT ![t] = AddPiece(@, Head(todo[t]))]
    /\ todo' = [todo EXCEPT ![t] = Tail(@)]
    /\ Goto(t, IF Len(todo[t]) = 1 THEN "idle" ELSE "stream")
    /\ UNCHANGED <<entryVars, stream_id, items, flags, processing, work, bufs,
                   otherThanApp>>

(* A new block has space: the path in the first one has at most 255 bytes, of the
   512 of CONFIG_POUCH_BLOCK_SIZE. *)
block_may_be_full(b) == b.data # <<>>

(* The block is full: without memory for another the write ends short ... *)
stream_write_short(t) ==
    /\ MayFail /\ At(t, "stream") /\ block_may_be_full(stream[t].buf)
    /\ todo' = [todo EXCEPT ![t] = <<>>]
    /\ Goto(t, "idle")
    /\ UNCHANGED <<entryVars, streamVars, items, flags, processing, work, bufs,
                   otherThanApp>>

(* ... with it, the full block is enqueued ... *)
stream_block_full(t) ==
    /\ At(t, "stream") /\ block_may_be_full(stream[t].buf)
    /\ processing' = Append(processing, FinishStream(stream[t].buf, FALSE))
    /\ bufs' = bufs + 1
    /\ Goto(t, "stream_submit")
    /\ UNCHANGED <<entryVars, streamVars, todo, items, flags, work, otherThanApp>>

(* Mutant: every block of a stream is allocated as its first. *)
stream_submit_first(t) ==
    /\ At(t, "stream_submit")
    /\ work' = TRUE
    /\ stream' = [stream EXCEPT ![t].buf = StreamBlock(stream[t], TRUE)]
    /\ Goto(t, "stream")
    /\ UNCHANGED <<entryVars, stream_id, todo, items, flags, processing, bufs,
                   otherThanApp>>

(* ... and replaced by the new one. *)
stream_submit(t) ==
    /\ At(t, "stream_submit")
    /\ work' = TRUE
    /\ stream' = [stream EXCEPT ![t].buf = StreamBlock(stream[t], FALSE)]
    /\ Goto(t, "stream")
    /\ UNCHANGED <<entryVars, stream_id, todo, items, flags, processing, bufs,
                   otherThanApp>>

(* pouch_stream_close: decide whether the last block goes out or is freed. *)
stream_close(t) ==
    /\ At(t, "idle") /\ stream[t] # NoBuf
    /\ IF stream_is_valid(t) /\ stream[t].bytes > 0
         THEN /\ Goto(t, "stream_close")
              /\ UNCHANGED <<stream, bufs>>
         ELSE /\ stream' = [stream EXCEPT ![t] = NoBuf]
              /\ bufs' = bufs - 1
              /\ UNCHANGED pc
    /\ UNCHANGED <<entryVars, stream_id, todo, items, flags, processing, work,
                   otherThanApp>>

stream_close_enqueue(t) ==
    /\ At(t, "stream_close")
    /\ processing' = Append(processing, FinishStream(stream[t].buf, TRUE))
    /\ Goto(t, "stream_close_submit")
    /\ UNCHANGED <<entryVars, streamVars, todo, items, flags, work, bufs, otherThanApp>>

stream_close_submit(t) ==
    /\ At(t, "stream_close_submit")
    /\ work' = TRUE
    /\ stream' = [stream EXCEPT ![t] = NoBuf]
    /\ Goto(t, "idle")
    /\ UNCHANGED <<entryVars, stream_id, todo, items, flags, processing, bufs,
                   otherThanApp>>

-----------------------------------------------------------------------------
(* System work queue: process_blocks *)

WorkerAt(l) == wpc = l /\ WorkerRuns

(* The work queue takes the work item; it can be submitted again from now on. *)
work_start ==
    /\ WorkerAt("idle") /\ work
    /\ work' = FALSE
    /\ wpc' = "loop"
    /\ UNCHANGED <<wbuf, lost, flags, header, processing, crypto, bufs, transport,
                   otherThanWorker>>

(* The condition of the loop is three reads, one after the other: the session is
   active, *)
process_loop ==
    /\ WorkerAt("loop")
    /\ wpc' = IF session_is_active THEN "loop_open" ELSE "exit"
    /\ UNCHANGED <<wbuf, lost, flags, header, processing, work, crypto, bufs, transport,
                   otherThanWorker>>

(* the pouch is open, *)
process_loop_open ==
    /\ WorkerAt("loop_open")
    /\ wpc' = IF pouch_is_open THEN "loop_queue" ELSE "exit"
    /\ UNCHANGED <<wbuf, lost, flags, header, processing, work, crypto, bufs, transport,
                   otherThanWorker>>

(* and there is a block. *)
process_loop_queue ==
    /\ WorkerAt("loop_queue")
    /\ wpc' = IF processing # <<>> THEN "take" ELSE "exit"
    /\ UNCHANGED <<wbuf, lost, flags, header, processing, work, crypto, bufs, transport,
                   otherThanWorker>>

(* buf_queue_get and a crypto_encrypt_block that succeeds: the plaintext block
   is freed, the encrypted one allocated. *)
process_encrypt ==
    /\ WorkerAt("take")
    /\ crypto.active /\ crypto.key # 0
    /\ wbuf' = Encrypted(Head(processing))
    /\ crypto' = [crypto EXCEPT !.idx = @ + 1]
    /\ processing' = Tail(processing)
    /\ wpc' = "header"
    /\ UNCHANGED <<lost, flags, header, work, bufs, transport, otherThanWorker>>

(* crypto_encrypt_block returns NULL: the block is freed, the loop goes on. *)
process_encrypt_fail ==
    /\ WorkerAt("take")
    /\ ~crypto.active \/ crypto.key = 0 \/ MayFail
    /\ lost' = lost \union {Head(processing).data[i] : i \in DOMAIN Head(processing).data}
    /\ processing' = Tail(processing)
    /\ bufs' = bufs - 1
    /\ wpc' = "loop"
    /\ UNCHANGED <<wbuf, flags, header, work, crypto, transport, otherThanWorker>>

(* Mutant: the header is not taken away from the session. *)
process_header_kept ==
    /\ WorkerAt("header_null")
    /\ wpc' = "put"
    /\ UNCHANGED <<wbuf, lost, flags, header, processing, work, crypto, bufs, transport,
                   otherThanWorker>>

(* The first block of a pouch takes the header along. *)
process_header ==
    /\ WorkerAt("header")
    /\ IF header # NoBuf
         THEN transport' = Append(transport, header) /\ wpc' = "header_null"
         ELSE wpc' = "put" /\ UNCHANGED transport
    /\ UNCHANGED <<wbuf, lost, flags, header, processing, work, crypto, bufs,
                   otherThanWorker>>

process_header_null ==
    /\ WorkerAt("header_null")
    /\ header' = NoBuf
    /\ wpc' = "put"
    /\ UNCHANGED <<wbuf, lost, flags, processing, work, crypto, bufs, transport,
                   otherThanWorker>>

process_put ==
    /\ WorkerAt("put")
    /\ transport' = Append(transport, wbuf)
    /\ wbuf' = NoBuf
    /\ wpc' = "loop"
    /\ UNCHANGED <<lost, flags, header, processing, work, crypto, bufs, otherThanWorker>>

(* After the loop POUCH_CLOSING is looked at ... *)
process_exit ==
    /\ WorkerAt("exit")
    /\ wpc' = IF pouch_is_closing THEN "close" ELSE "idle"
    /\ UNCHANGED <<wbuf, lost, flags, header, processing, work, crypto, bufs, transport,
                   otherThanWorker>>

(* ... and then POUCH_CLOSED set. *)
process_close ==
    /\ WorkerAt("close")
    /\ flags' = flags \union {"closed"}
    /\ wpc' = "idle"
    /\ UNCHANGED <<wbuf, lost, header, processing, work, crypto, bufs, transport,
                   otherThanWorker>>

-----------------------------------------------------------------------------
(* Transport: pouch_uplink_start *)

TransportAt(l) == tpc = l /\ TransportRuns

start_begin ==
    /\ TransportAt("none") /\ ~session_is_active /\ starts < MaxSessions
    /\ flags' = flags \union {"active"}
    /\ starts' = starts + 1
    /\ tpc' = "start"
    /\ UNCHANGED <<id, event_q, header, work, crypto, bufs, outVars, otherThanTransport>>

(* saead_uplink_session_start forgets the old session, then waits for entropy. *)
start_session ==
    /\ TransportAt("start")
    /\ crypto' = [crypto EXCEPT !.active = FALSE]
    /\ tpc' = "crypto"
    /\ UNCHANGED <<starts, id, event_q, flags, header, work, bufs, outVars,
                   otherThanTransport>>

(* crypto_session_start: a session with a new random ID has a key of its own.
   saead_uplink_session_start does not look at the key it was given, so a failed
   key derivation still starts a session (key 0). *)
start_crypto ==
    /\ TransportAt("crypto")
    /\ \E k \in {starts} \union (IF MayFail THEN {0} ELSE {}) :
           crypto' = [crypto EXCEPT !.active = TRUE, !.key = k]
    /\ pouch' = <<>>
    /\ tpc' = "pouch"
    /\ UNCHANGED <<starts, id, event_q, flags, header, work, bufs, transport, reader,
                   sent, otherThanTransport>>

start_crypto_fail ==
    /\ MayFail /\ TransportAt("crypto")
    /\ flags' = flags \ {"active"}
    /\ tpc' = "none"
    /\ UNCHANGED <<starts, id, event_q, header, work, crypto, bufs, outVars,
                   otherThanTransport>>

(* crypto_pouch_start: the blocks of the pouch are numbered from 0.  It cannot
   fail, as the crypto session is active. *)
start_pouch ==
    /\ TransportAt("pouch")
    /\ crypto' = [crypto EXCEPT !.idx = 0]
    /\ tpc' = "header"
    /\ UNCHANGED <<starts, id, event_q, flags, header, work, bufs, outVars,
                   otherThanTransport>>

start_header ==
    /\ TransportAt("header")
    /\ header' = Header(crypto.key)
    /\ bufs' = bufs + 1
    /\ tpc' = "started"
    /\ UNCHANGED <<starts, id, event_q, flags, work, crypto, outVars,
                   otherThanTransport>>

(* Mutant: blocks that were enqueued before the session are not processed. *)
start_without_submit ==
    /\ TransportAt("started")
    /\ pouch_event_emit("session_start")
    /\ tpc' = "open"
    /\ UNCHANGED <<starts, id, flags, header, work, crypto, bufs, outVars,
                   otherThanTransport>>

(* The crypto session stays active when there is no header. *)
start_header_fail ==
    /\ MayFail /\ TransportAt("header")
    /\ header' = NoBuf
    /\ flags' = flags \ {"active"}
    /\ tpc' = "none"
    /\ UNCHANGED <<starts, id, event_q, work, crypto, bufs, outVars, otherThanTransport>>

start_done ==
    /\ TransportAt("started")
    /\ pouch_event_emit("session_start")
    /\ work' = (work \/ processing # <<>>)
    /\ tpc' = "open"
    /\ UNCHANGED <<starts, id, flags, header, crypto, bufs, outVars, otherThanTransport>>

-----------------------------------------------------------------------------
(* Transport: pouch_uplink_fill *)

fill_begin ==
    /\ TransportAt("open") /\ session_is_active
    /\ tpc' = "fill"
    /\ UNCHANGED <<starts, id, event_q, flags, header, work, crypto, bufs, outVars,
                   otherThanTransport>>

(* Nothing is being read: take the next buffer, or leave the loop without one. *)
fill_next ==
    /\ TransportAt("fill") /\ reader = NoBuf
    /\ IF transport # <<>>
         THEN /\ reader' = [buf |-> Head(transport), left |-> BufUnits]
              /\ transport' = Tail(transport)
              /\ UNCHANGED tpc
         ELSE /\ tpc' = "check_open"
              /\ UNCHANGED <<reader, transport>>
    /\ UNCHANGED <<pouch, sent, starts, id, event_q, flags, header, work, crypto, bufs,
                   otherThanTransport>>

(* Mutant: a buffer copied to its end stays with the reader. *)
fill_copy_all(n) ==
    /\ TransportAt("fill") /\ reader # NoBuf /\ n <= reader.left
    /\ reader' = [reader EXCEPT !.left = @ - n]
    /\ tpc' = "check_open"
    /\ UNCHANGED <<transport, pouch, sent, starts, id, event_q, flags, header, work,
                   crypto, bufs, otherThanTransport>>

(* The destination is full before the end of the buffer. *)
fill_copy_part(n) ==
    /\ TransportAt("fill") /\ reader # NoBuf /\ n < reader.left
    /\ reader' = [reader EXCEPT !.left = @ - n]
    /\ tpc' = "check_open"
    /\ UNCHANGED <<transport, pouch, sent, starts, id, event_q, flags, header, work,
                   crypto, bufs, otherThanTransport>>

(* The rest of the buffer is copied; the destination may or may not be full. *)
fill_copy_rest ==
    /\ TransportAt("fill") /\ reader # NoBuf
    /\ reader' = NoBuf
    /\ bufs' = bufs - 1
    /\ pouch' = Append(pouch, reader.buf)
    /\ sent' = IF reader.buf.type = "block"
                 THEN Append(sent, [id |-> id, blk |-> reader.buf.blk]) ELSE sent
    /\ tpc' \in {"fill", "check_open"}
    /\ UNCHANGED <<transport, starts, id, event_q, flags, header, work, crypto,
                   otherThanTransport>>

(* Mutant: the rest of the buffer being read is forgotten. *)
fill_check_queue ==
    /\ TransportAt("check_empty")
    /\ tpc' = IF transport # <<>> THEN "open" ELSE "end"
    /\ UNCHANGED <<starts, id, event_q, flags, header, work, crypto, bufs, outVars,
                   otherThanTransport>>

(* Mutant: POUCH_CLOSING is taken for POUCH_CLOSED. *)
fill_check_closing ==
    /\ TransportAt("check_open")
    /\ tpc' = IF pouch_is_closing THEN "check_empty" ELSE "open"
    /\ UNCHANGED <<starts, id, event_q, flags, header, work, crypto, bufs, outVars,
                   otherThanTransport>>

(* An open pouch has MORE_DATA; a closed one only if a buffer is left. *)
fill_check_open ==
    /\ TransportAt("check_open")
    /\ tpc' = IF pouch_is_open THEN "open" ELSE "check_empty"
    /\ UNCHANGED <<starts, id, event_q, flags, header, work, crypto, bufs, outVars,
                   otherThanTransport>>

fill_check_empty ==
    /\ TransportAt("check_empty")
    /\ tpc' = IF reader # NoBuf \/ transport # <<>> THEN "open" ELSE "end"
    /\ UNCHANGED <<starts, id, event_q, flags, header, work, crypto, bufs, outVars,
                   otherThanTransport>>

end_session ==
    /\ crypto_session_end
    /\ flags' = flags \ {"active"}
    /\ pouch_event_emit("session_end")

(* NO_MORE_DATA *)
fill_end ==
    /\ TransportAt("end")
    /\ end_session
    /\ tpc' = "ended"
    /\ UNCHANGED <<starts, id, header, work, bufs, outVars, otherThanTransport>>

-----------------------------------------------------------------------------
(* Transport: pouch_uplink_finish *)

(* Mutants: the buffer being read is dropped and not freed; the header is kept. *)
finish_leaks_reader ==
    /\ TransportAt("ended") \/ (MayAbort /\ TransportAt("open"))
    /\ transport' = <<>>
    /\ reader' = NoBuf
    /\ header' = NoBuf
    /\ bufs' = bufs - Len(transport) - One(header)
    /\ tpc' = "finish_id"
    /\ UNCHANGED <<pouch, sent, starts, id, event_q, flags, work, crypto,
                   otherThanTransport>>

finish_keeps_header ==
    /\ TransportAt("ended") \/ (MayAbort /\ TransportAt("open"))
    /\ transport' = <<>>
    /\ reader' = NoBuf
    /\ bufs' = bufs - Len(transport) - One(reader)
    /\ tpc' = "finish_id"
    /\ UNCHANGED <<header, pouch, sent, starts, id, event_q, flags, work, crypto,
                   otherThanTransport>>

finish_flush ==
    /\ TransportAt("ended") \/ (MayAbort /\ TransportAt("open"))
    /\ transport' = <<>>
    /\ reader' = NoBuf
    /\ header' = NoBuf
    /\ bufs' = bufs - Len(transport) - One(reader) - One(header)
    /\ tpc' = "finish_id"
    /\ UNCHANGED <<pouch, sent, starts, id, event_q, flags, work, crypto,
                   otherThanTransport>>

finish_id ==
    /\ TransportAt("finish_id")
    /\ id' = id + 1
    /\ tpc' = "finish_clear"
    /\ UNCHANGED <<starts, event_q, flags, header, work, crypto, bufs, outVars,
                   otherThanTransport>>

(* Mutant: SESSION_ACTIVE is cleared and the other flags are kept. *)
finish_keeps_closing ==
    /\ TransportAt("finish_clear")
    /\ flags' = flags \ {"active"}
    /\ tpc' = IF session_is_active THEN "finish_end" ELSE "none"
    /\ UNCHANGED <<starts, id, event_q, header, work, crypto, bufs, outVars,
                   otherThanTransport>>

finish_clear ==
    /\ TransportAt("finish_clear")
    /\ flags' = {}
    /\ tpc' = IF session_is_active THEN "finish_end" ELSE "none"
    /\ UNCHANGED <<starts, id, event_q, header, work, crypto, bufs, outVars,
                   otherThanTransport>>

(* The transport did not pull all the data: the session ends here instead. *)
finish_end ==
    /\ TransportAt("finish_end")
    /\ end_session
    /\ tpc' = "none"
    /\ UNCHANGED <<starts, id, header, work, bufs, outVars, otherThanTransport>>

-----------------------------------------------------------------------------
(* Pouch work queue: dispatch_events hands the next event to the handlers.  What
   a handler of the application does is a call of one of the Threads. *)
dispatch_events ==
    /\ AppRuns /\ event_q # <<>>
    /\ event_q' = Tail(event_q)
    /\ UNCHANGED <<flags, header, processing, work, crypto, bufs, appVars, workerVars,
                   outVars, tpc, starts, id>>

-----------------------------------------------------------------------------
(* uplink_init, and the static initialisers of entry.c and stream.c *)
Init ==
    /\ flags = {} /\ header = NoBuf /\ id = 0
    /\ processing = <<>> /\ work = FALSE /\ transport = <<>> /\ reader = NoBuf
    /\ crypto = [active |-> FALSE, key |-> 0, idx |-> 0]
    /\ block = NoBuf /\ mut = NoThread
    /\ stream_id = 1 /\ stream = [t \in Threads |-> NoBuf]
    /\ bufs = 0 /\ event_q = <<>>
    /\ pc = [t \in Threads |-> "idle"] /\ todo = [t \in Threads |-> <<>>]
    /\ wpc = "idle" /\ wbuf = NoBuf
    /\ tpc = "none" /\ starts = 0
    /\ items = 0 /\ pouch = <<>> /\ sent = <<>> /\ lost = {}

EntryWrite(t) ==
    entry_write(t) \/ entry_block_full(t) \/ entry_write_retry(t)

Close(t) ==
    \/ close_lock_timeout(t) \/ close_block(t)
    \/ close_block_submit(t) \/ close_submit(t)

StreamWrite(t) ==
    stream_write(t) \/ stream_write_short(t) \/ stream_block_full(t) \/ stream_submit(t)

StreamClose(t) == stream_close_enqueue(t) \/ stream_close_submit(t)

(* Steps of a thread inside a call, and the calls it may choose to make. *)
InCall(t) == EntryWrite(t) \/ Close(t) \/ close_lock(t) \/ StreamWrite(t) \/ StreamClose(t)

Call(t) ==
    \/ entry_lock(t) \/ close_begin(t) \/ stream_open(t) \/ stream_close(t)
    \/ \E n \in 1..MaxWrite : stream_write_begin(t, n)

process_blocks ==
    \/ work_start \/ process_loop \/ process_loop_open \/ process_loop_queue
    \/ process_encrypt \/ process_encrypt_fail
    \/ process_header \/ process_header_null \/ process_put
    \/ process_exit \/ process_close

pouch_uplink_start ==
    \/ start_begin \/ start_session \/ start_crypto \/ start_crypto_fail \/ start_pouch
    \/ start_header \/ start_header_fail \/ start_done

pouch_uplink_fill ==
    \/ fill_begin \/ fill_next \/ (\E n \in 1..(BufUnits - 1) : fill_copy_part(n))
    \/ fill_copy_rest \/ fill_check_open \/ fill_check_empty \/ fill_end

pouch_uplink_finish == finish_flush \/ finish_id \/ finish_clear \/ finish_end

Next ==
    \/ \E t \in Threads : InCall(t) \/ Call(t)
    \/ process_blocks
    \/ pouch_uplink_start \/ pouch_uplink_fill \/ pouch_uplink_finish
    \/ dispatch_events

Spec == Init /\ [][Next]_vars

(* The work queue and a thread inside a call get the CPU again and again: the
   transport thread waits for the gateway between two calls.  The gateway keeps
   pulling until it is told NO_MORE_DATA, and the transport then finishes. *)
TransportGoesOn ==
    \/ start_session \/ start_crypto \/ start_crypto_fail \/ start_pouch
    \/ start_header \/ start_header_fail \/ start_done
    \/ pouch_uplink_fill \/ pouch_uplink_finish

Fairness ==
    /\ SF_vars(process_blocks)
    /\ \A t \in Threads : SF_vars(InCall(t))
    /\ WF_vars(TransportGoesOn)

FairSpec == Spec /\ Fairness

-----------------------------------------------------------------------------
(* Types *)

Blocks ==
    [sid : Nat, uid : Nat, sess : Nat, first : BOOLEAN, last : BOOLEAN, data : Seq(Nat)]

Buffers ==
    [type : {"header"}, key : Nat, idx : Nat, blk : {NoBuf}]
    \union [type : {"block"}, key : Nat, idx : Nat, blk : Blocks]

Streams == [uid : Nat, sid : Nat, sess : Nat, bytes : Nat, buf : Blocks]

Readers == [buf : Buffers, left : 1..BufUnits]

ASSUME NoBufAssumption == NoBuf \notin Blocks \union Buffers \union Streams \union Readers

Labels ==
    {"idle", "entry", "entry_submit", "close", "close_block", "close_block_submit",
     "close_submit", "stream", "stream_submit", "stream_close", "stream_close_submit"}

WorkerLabels ==
    {"idle", "loop", "loop_open", "loop_queue", "take", "header", "header_null", "put",
     "exit", "close"}

TransportLabels ==
    TransportBlocks \union
    {"start", "pouch", "header", "started", "fill", "check_open", "check_empty", "end",
     "finish_id", "finish_clear", "finish_end"}

SharedTypes ==
    /\ flags \in SUBSET {"active", "closing", "closed"}
    /\ processing \in Seq(Blocks)
    /\ work \in BOOLEAN
    /\ bufs \in Int

EntryTypes == block \in Blocks \union {NoBuf} /\ mut \in Threads \union {NoThread}

StreamTypes == stream_id \in Nat /\ stream \in [Threads -> Streams \union {NoBuf}]

CallTypes ==
    pc \in [Threads -> Labels] /\ todo \in [Threads -> Seq(Nat)] /\ items \in Nat

WorkerTypes ==
    wpc \in WorkerLabels /\ wbuf \in Buffers \union {NoBuf} /\ lost \in SUBSET Nat

OutTypes ==
    /\ header \in Buffers \union {NoBuf}
    /\ transport \in Seq(Buffers)
    /\ reader \in Readers \union {NoBuf}
    /\ pouch \in Seq(Buffers)
    /\ sent \in Seq([id : Nat, blk : Blocks])

TransportTypes ==
    /\ crypto \in [active : BOOLEAN, key : Nat, idx : Nat]
    /\ event_q \in Seq({"session_start", "session_end"})
    /\ tpc \in TransportLabels /\ starts \in Nat /\ id \in Nat

(* Type invariant: every variable of the uplink keeps the shape that struct
   pouch_uplink, struct session, entry.c and stream.c give it. *)
TypeOK ==
    /\ SharedTypes /\ EntryTypes /\ StreamTypes /\ CallTypes
    /\ WorkerTypes /\ OutTypes /\ TransportTypes

-----------------------------------------------------------------------------
(* Safety *)

(* The gateway can decode every pouch it pulls (pouch_uplink_fill): it starts
   with the header of its session, and the blocks after it are encrypted in that
   same session, with the block indices 0, 1, 2, ... in that order.  A block of
   another session, or one that overtakes another or the header, breaks the chain
   of nonces and authentication tags. *)
PouchWellFormed ==
    \A i \in 1..Len(pouch) :
        /\ pouch[i].key = pouch[1].key
        /\ IF i = 1 THEN pouch[i].type = "header"
                    ELSE pouch[i].type = "block" /\ pouch[i].idx = i - 2

(* The blocks that a buffer and a queue of buffers hold. *)
Carried(b)  == IF b.type = "block" THEN <<b.blk>> ELSE <<>>
BlocksOf(q) == FlattenSeq([i \in 1..Len(q) |-> Carried(q[i])])

(* Every block handed over by uplink_enqueue that is neither lost nor pulled, and
   every one that is not lost, oldest first. *)
Encrypting == (IF wbuf = NoBuf THEN <<>> ELSE Carried(wbuf)) \o processing
Pulling    == (IF reader = NoBuf THEN <<>> ELSE Carried(reader.buf)) \o BlocksOf(transport)
Waiting    == Pulling \o Encrypting
Pipeline   == [i \in 1..Len(sent) |-> sent[i].blk] \o Waiting

(* What an application writes is sent at most once and in order: the items of
   one source (the entries, or one stream) only grow along a block and from each
   block to the next, through both queues and onto the wire.  Entries come from
   several threads, blocks change hands under a mutex, a queue and a work item. *)
InOrderOnce ==
    \A p, q \in DOMAIN Pipeline :
        (p <= q /\ Pipeline[p].uid = Pipeline[q].uid) =>
            \A i \in DOMAIN Pipeline[p].data, j \in DOMAIN Pipeline[q].data :
                (p < q \/ i < j) => Pipeline[p].data[i] < Pipeline[q].data[j]

(* The blocks of a stream are framed: none before the one marked first, none
   after the one marked last (stream_write, stream_close), even if some between
   them were lost. *)
StreamFraming ==
    \A p, q \in DOMAIN Pipeline :
        (p < q /\ Pipeline[p].uid = Pipeline[q].uid /\ Pipeline[p].uid # 0) =>
            ~Pipeline[p].last /\ ~Pipeline[q].first

Given(t, labels) == pc[t] \in labels

(* Every buffer has exactly one owner and none leaks (buf_active_count): the
   count is the number of buffers reachable from the entry block, the streams,
   the queues, the reader, the header and the work queue's local variable.  A
   block or header that was just handed over is its queue's, not its writer's. *)
BuffersOwnedOnce ==
    bufs = (IF \E t \in Threads : Given(t, {"entry_submit", "close_block_submit"})
              THEN 0 ELSE One(block))
           + Cardinality({t \in open_streams : ~Given(t, {"stream_close_submit"})})
           + Len(processing) + One(wbuf) + Len(transport) + One(reader)
           + (IF wpc = "header_null" THEN 0 ELSE One(header))

(* pouch_uplink_finish leaves nothing of a session behind: between sessions no
   header, no buffer being read and no encrypted block waits for the transport. *)
NothingLeftOver ==
    tpc = "none" => transport = <<>> /\ reader = NoBuf /\ header = NoBuf

(* pouch_uplink_fill says NO_MORE_DATA only when the transport has pulled the
   header and every block that was encrypted in the session. *)
DrainedAtEnd ==
    tpc \in {"end", "ended"} =>
        Len(pouch) = (IF crypto.idx = 0 THEN 0 ELSE crypto.idx + 1)

(* The end of a pouch is found out from a flag, the reader and the queue, one after
   the other, while process_blocks encrypts and queues.  Whatever comes in between,
   pouch_uplink_fill says NO_MORE_DATA only when no buffer of the pouch is in the
   work queue's hands, waits in the queue or is being read. *)
NothingInFlight ==
    tpc \in {"end", "ended"} => transport = <<>> /\ reader = NoBuf /\ wbuf = NoBuf

-----------------------------------------------------------------------------
(* What the uplink promises *)

(* Where pouch_uplink_start, _fill and _finish stand in a session. *)
ServiceSession ==
    CASE tpc \in {"none", "finish_end"} -> "none"
      [] tpc \in {"start", "crypto", "pouch", "header", "started"} -> "starting"
      [] tpc \in {"open", "fill", "check_open", "check_empty", "end"} -> "open"
      [] tpc \in {"ended", "finish_id", "finish_clear"} -> "ending"

(* The sessions that are finished for the service *)
ServiceNumber == IF tpc = "finish_clear" THEN id - 1 ELSE id

Service == INSTANCE UplinkService WITH
    session   <- ServiceSession,
    closing   <- pouch_is_closing,
    number    <- ServiceNumber,
    pending   <- Waiting,
    delivered <- sent

(* The flags, queues, buffers and threads of uplink.c implement one line of blocks
   with sessions on top: a block is only ever delivered from the front of the line
   and in an open session, a session ends only after a close or by an abort, the
   finish of a session forgets the close, and blocks are lost only when something
   fails, when the transport gives up, or while a session starts.  If the transport
   can preempt process_blocks (not Cooperative), what process_blocks has found out
   may be of a session that is over: a block is then lost between two sessions, or
   the next session ends unasked.  In an open session nothing is lost even so. *)
ImplementsService == Service!Spec

-----------------------------------------------------------------------------
(* Liveness *)

(* A pouch that is being closed ends: pouch_uplink_close leads to NO_MORE_DATA
   and the end of the session, whoever else writes or submits work meanwhile. *)
CloseEndsSession == (tpc = "open" /\ pouch_is_closing) ~> (tpc = "none")

(* No wake-up is lost: blocks that wait in an open pouch of a running session
   are processed, whether they were enqueued before the session (pouch_uplink_start
   submits the work) or while process_blocks was leaving its loop. *)
NoLostWakeup ==
    (tpc = "open" /\ pouch_is_open /\ processing # <<>>)
        ~> (processing = <<>> \/ ~pouch_is_open \/ tpc = "none")

-----------------------------------------------------------------------------
(* What the repository says of the uplink and the code does not do *)

(* tests/pouch/uplink/src/uplink.c, test_submit_before_session: an entry that was
   submitted before the session starts is pulled in that session.  Stated for
   memory and keys that never fail: process_blocks loses no block. *)
NothingLost == lost = {}

(* tests/pouch/uplink/src/uplink.c, test_stream_fail_to_close_stream: what is left
   of a stream when its pouch ends "should not be sent", so no stream is continued
   in a later pouch. *)
StreamInOnePouch ==
    \A i, j \in DOMAIN sent :
        (sent[i].blk.uid # 0 /\ sent[i].blk.uid = sent[j].blk.uid) => sent[i].id = sent[j].id
================================================================================
