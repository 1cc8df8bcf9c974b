--------------------------- MODULE PouchUplinkService --------------------------
(***************************************************************************)
(* Who owns the buffers of the uplink, and what it promises, for every     *)
(* value of PouchUplink's constants: any threads, cooperative or           *)
(* preemptive, with or without failures and aborts.  Every buffer has one  *)
(* owner and none leaks; and the flags, queues, buffers and threads are    *)
(* one line of blocks with sessions on top, which is UplinkService.        *)
(***************************************************************************)
EXTENDS PouchUplinkProofs, SequenceFacts, FiniteSetTheorems

LOCAL INSTANCE SequencesExt

-----------------------------------------------------------------------------
(* The inductive invariant *)

(* A thread that handed the entry block over has not yet cleared the pointer. *)
Handing == {"entry_submit", "close_block_submit"}
Locked  == {"entry", "close_block"} \union Handing

(* Who is in the critical section of entry.c owns the mutex. *)
MutexState ==
    \A t \in Threads :
        /\ pc[t] \in Locked => mut = t
        /\ pc[t] \in Handing => block # NoBuf

(* A closed pouch keeps process_blocks out of its loop, so pouch_uplink_finish
   never meets a header that is in the queue and still in the session. *)
HeaderState ==
    /\ "closed" \in flags => wpc \in {"idle", "loop", "loop_open", "exit", "close"}
    /\ tpc \in {"check_empty", "end", "ended"} => "closed" \in flags
    /\ wpc = "header_null" => header # NoBuf
    /\ tpc \in {"none", "start", "crypto", "pouch", "header", "finish_end"} \union Finishing
           => header = NoBuf

(* Buffers of the application's threads: the entry block and the streams *)
EntryOwned   == IF \E t \in Threads : pc[t] \in Handing THEN 0 ELSE One(block)
OwnStreams   == {t \in open_streams : pc[t] # "stream_close_submit"}
StreamsOwned == Cardinality(OwnStreams)

(* Buffers of the session: process_blocks, the transport and the header *)
HeaderOwned  == IF wpc = "header_null" THEN 0 ELSE One(header)
SessionOwned == One(wbuf) + Len(transport) + One(reader) + HeaderOwned

Balance == bufs = EntryOwned + StreamsOwned + Len(processing) + SessionOwned

StreamsFinite == IsFiniteSet(open_streams)

OwnInv == MutexState /\ HeaderState /\ StreamsFinite /\ Balance

-----------------------------------------------------------------------------
(* The terms of the balance *)

LEMMA OneType == \A b : One(b) \in Nat /\ (One(b) = IF b = NoBuf THEN 0 ELSE 1)
  BY DEF One

TermTypes ==
    /\ EntryOwned \in Nat /\ StreamsOwned \in Nat /\ Len(processing) \in Nat
    /\ One(wbuf) \in Nat /\ Len(transport) \in Nat /\ One(reader) \in Nat
    /\ HeaderOwned \in Nat /\ SessionOwned \in Nat /\ bufs \in Int
    /\ IsFiniteSet(OwnStreams)

LEMMA BalanceTypes == TypeInv /\ StreamsFinite => TermTypes
<1> SUFFICES ASSUME TypeInv, StreamsFinite PROVE TermTypes
  OBVIOUS
<1>1. IsFiniteSet(OwnStreams)
  BY FS_Subset DEF OwnStreams, StreamsFinite
<1>2. StreamsOwned \in Nat
  BY <1>1, FS_CardinalityType DEF StreamsOwned
<1>3. Len(processing) \in Nat /\ Len(transport) \in Nat /\ bufs \in Int
  BY LenProperties DEF TypeInv, TypeOK, SharedTypes, OutTypes
<1>4. EntryOwned \in Nat /\ HeaderOwned \in Nat
  BY OneType DEF EntryOwned, HeaderOwned
<1>5. SessionOwned \in Nat
  BY <1>3, <1>4, OneType DEF SessionOwned
<1> QED
  BY <1>1, <1>2, <1>3, <1>4, <1>5, OneType DEF TermTypes

LEMMA BalanceTypesNext == TypeInv' /\ StreamsFinite' => TermTypes'
  BY BalanceTypes, PTL

LEMMA BalanceIsOwnership ==
    ASSUME TypeInv, OwnInv
    PROVE  BuffersOwnedOnce
<1>1. (\E t \in Threads : Given(t, Handing)) <=> (\E t \in Threads : pc[t] \in Handing)
  BY DEF Given
<1>2. {t \in open_streams : ~Given(t, {"stream_close_submit"})} = OwnStreams
  BY DEF Given, OwnStreams
<1>3. BuffersOwnedOnce <=>
          bufs = EntryOwned + StreamsOwned + Len(processing) + One(wbuf) + Len(transport)
                 + One(reader) + HeaderOwned
  BY <1>1, <1>2, Zenon DEF BuffersOwnedOnce, EntryOwned, StreamsOwned, HeaderOwned, Handing
<1> QED
  BY <1>3, BalanceTypes, SMTT(30) DEF OwnInv, Balance, SessionOwned, TermTypes

(* Nobody else is in the critical section of entry.c. *)
LEMMA MutexAlone ==
    ASSUME MutexState, NEW t \in Threads, pc[t] \in Locked \/ mut = NoThread
    PROVE  \A u \in Threads : u # t => pc[u] \notin Locked
  BY ConstantsAssumption DEF MutexState

(* A step inside of it, into it or out of it *)
LEMMA MutexInside ==
    ASSUME MutexState, TypeInv, NEW t \in Threads, pc[t] \in Locked \/ mut = NoThread,
           NEW l, pc' = [pc EXCEPT ![t] = l],
           l \in Locked => mut' = t, l \in Handing => block' # NoBuf
    PROVE  /\ MutexState'
           /\ EntryOwned = IF pc[t] \in Handing THEN 0 ELSE One(block)
           /\ EntryOwned' = IF l \in Handing THEN 0 ELSE One(block')
<1>1. pc \in [Threads -> Labels]
  BY DEF TypeInv, TypeOK, CallTypes
<1>2. pc'[t] = l /\ \A u \in Threads : u # t => pc'[u] = pc[u] /\ pc[u] \notin Locked
  BY <1>1, MutexAlone
<1>3. MutexState'
  BY <1>2 DEF MutexState, Locked
<1>4. (\E u \in Threads : pc[u] \in Handing) <=> pc[t] \in Handing
  BY <1>2 DEF Locked
<1>5. (\E u \in Threads : pc'[u] \in Handing) <=> l \in Handing
  BY <1>2 DEF Locked
<1> QED
  BY <1>3, <1>4, <1>5 DEF EntryOwned, One

(* A step outside of it *)
LEMMA MutexOutside ==
    ASSUME MutexState, TypeInv, NEW t \in Threads, pc[t] \notin Locked,
           NEW l, l \notin Locked, pc' = [pc EXCEPT ![t] = l], UNCHANGED <<mut, block>>
    PROVE  MutexState' /\ EntryOwned' = EntryOwned
<1>1. pc \in [Threads -> Labels]
  BY DEF TypeInv, TypeOK, CallTypes
<1>2. pc'[t] = l /\ \A u \in Threads : u # t => pc'[u] = pc[u]
  BY <1>1
<1>3. MutexState'
  BY <1>2 DEF MutexState, Locked
<1>4. \A u \in Threads : pc'[u] \in Handing <=> pc[u] \in Handing
  BY <1>2 DEF Locked
<1> QED
  BY <1>3, <1>4 DEF EntryOwned, One

(* A thread opens, closes and hands over no stream. *)
LEMMA StreamsSame ==
    ASSUME TypeInv, OwnInv, NEW t \in Threads, pc[t] # "stream_close_submit",
           NEW l, l # "stream_close_submit", pc' = [pc EXCEPT ![t] = l],
           \A u \in Threads : stream'[u] = NoBuf <=> stream[u] = NoBuf
    PROVE  open_streams' = open_streams /\ StreamsOwned' = StreamsOwned
<1>1. pc \in [Threads -> Labels]
  BY DEF TypeInv, TypeOK, CallTypes
<1>2. open_streams' = open_streams
  BY DEF open_streams
<1>3. OwnStreams' = OwnStreams
  BY <1>1, <1>2 DEF OwnStreams, open_streams
<1> QED
  BY <1>2, <1>3 DEF StreamsOwned

(* A step of an application thread moves buffers between the entry block, the
   streams and the queue of process_blocks, allocates or frees them. *)
LEMMA AppBalance ==
    ASSUME TypeInv, TypeInv', OwnInv, UNCHANGED otherThanApp,
           "closed" \in flags' <=> "closed" \in flags,
           MutexState', StreamsFinite',
           bufs' - (EntryOwned' + StreamsOwned' + Len(processing'))
               = bufs - (EntryOwned + StreamsOwned + Len(processing))
    PROVE  OwnInv'
<1> USE DEF OwnInv, otherThanApp, workerVars, outVars, transportVars
<1>1. HeaderState'
  BY DEF HeaderState
<1>2. SessionOwned' = SessionOwned
  BY DEF SessionOwned, HeaderOwned, One
<1>3. TermTypes
  BY BalanceTypes
<1>4. TermTypes'
  BY BalanceTypesNext
<1>5. Balance'
  BY <1>2, <1>3, <1>4, SMTT(30) DEF Balance, TermTypes
<1> QED
  BY <1>1, <1>5

LEMMA Sums ==
    \A b, c \in Int : \A e, f, s, q, p, r \in Nat :
        /\ c - (q + r) = b - (s + p) /\ f = e => c - (f + q + r) = b - (e + s + p)
        /\ c - (f + r) = b - (e + p) /\ q = s => c - (f + q + r) = b - (e + s + p)
  OBVIOUS

(* Most steps of a thread move no buffer. *)
LEMMA QuietStep ==
    ASSUME TypeInv, TypeInv', OwnInv, NEW t \in Threads, NEW l,
           pc' = [pc EXCEPT ![t] = l], MutexState', EntryOwned' = EntryOwned,
           pc[t] # "stream_close_submit", l # "stream_close_submit",
           \A u \in Threads : stream'[u] = NoBuf <=> stream[u] = NoBuf,
           "closed" \in flags' <=> "closed" \in flags,
           UNCHANGED otherThanApp,
           bufs' - Len(processing') = bufs - Len(processing)
    PROVE  OwnInv'
<1>1. open_streams' = open_streams /\ StreamsOwned' = StreamsOwned
  BY StreamsSame
<1>2. StreamsFinite'
  BY <1>1 DEF OwnInv, StreamsFinite
<1>3. TermTypes /\ TermTypes'
  BY <1>2, BalanceTypes, BalanceTypesNext DEF OwnInv
<1>4. /\ bufs \in Int /\ EntryOwned \in Nat /\ StreamsOwned \in Nat
      /\ Len(processing) \in Nat /\ bufs' \in Int /\ Len(processing') \in Nat
  BY <1>3 DEF TermTypes
<1>5. bufs' - (EntryOwned' + StreamsOwned' + Len(processing'))
          = bufs - (EntryOwned + StreamsOwned + Len(processing))
  BY <1>1, <1>4
<1> QED
  BY <1>2, <1>5, AppBalance

(* Steps inside of the critical section of entry.c *)
LEMMA EntryOwnership ==
    ASSUME TypeInv, TypeInv', OwnInv, NEW t \in Threads,
           \/ entry_lock(t) \/ EntryWrite(t)
           \/ close_lock(t) \/ close_block(t) \/ close_block_submit(t)
    PROVE  OwnInv'
<1> USE DEF At, Goto, streamVars, entryVars
<1>0. MutexState /\ StreamsFinite /\ TermTypes /\ UNCHANGED <<stream, flags, otherThanApp>>
  <2>1. MutexState /\ StreamsFinite /\ TermTypes
    BY BalanceTypes DEF OwnInv
  <2> QED
    BY <2>1 DEF entry_lock, EntryWrite, entry_write, entry_block_full, entry_write_retry,
                entry_write_done, close_lock, close_block, close_block_submit
<1>1. PICK l : /\ pc' = [pc EXCEPT ![t] = l]
               /\ l \in Locked \union {"idle", "close_submit"}
               /\ l \in Locked => mut' = t
               /\ l \in Handing => block' # NoBuf
               /\ pc[t] \in Locked \/ mut = NoThread
               /\ pc[t] # "stream_close_submit"
               /\ \/ /\ pc[t] \notin Handing /\ l \notin Handing
                     /\ block' = NoBuf <=> block = NoBuf
                     /\ UNCHANGED <<processing, bufs>>
                  \/ /\ pc[t] \notin Handing /\ l \in Handing /\ block # NoBuf
                     /\ Len(processing') = Len(processing) + 1 /\ bufs' = bufs
                  \/ /\ pc[t] \in Handing \/ block = NoBuf
                     /\ l \notin Handing /\ processing' = processing
                     /\ \/ bufs' = bufs + 1 /\ block' # NoBuf
                        \/ bufs' = bufs /\ block' = NoBuf
  <2> USE <1>0 DEF Locked, Handing, TermTypes
  <2>0. processing \in Seq(Blocks)
    BY DEF TypeInv, TypeOK, SharedTypes
  <2>1. CASE entry_lock(t) \/ close_lock(t)
    BY <2>1 DEF entry_lock, close_lock
  <2>2. CASE entry_block_full(t) \/ (close_block(t) /\ block # NoBuf)
    <3>1. Len(processing') = Len(processing) + 1
      BY <2>0, <2>2, AppendProperties DEF entry_block_full, close_block, TypeInv, TypeOK,
                                          EntryTypes
    <3>2. mut = t
      BY <2>2 DEF MutexState, entry_block_full, close_block
    <3> QED
      BY <2>2, <3>1, <3>2 DEF entry_block_full, close_block
  <2>3. CASE close_block(t) /\ block = NoBuf
    BY <2>3 DEF close_block
  <2>4. CASE entry_write(t) \/ entry_write_retry(t)
    <3>1. pc' = [pc EXCEPT ![t] = "idle"] /\ processing' = processing
      BY <2>4 DEF entry_write, entry_write_retry, entry_write_done
    <3>2. \/ pc[t] = "entry" /\ block # NoBuf /\ bufs' = bufs /\ block' # NoBuf
          \/ /\ (pc[t] = "entry" /\ block = NoBuf) \/ pc[t] = "entry_submit"
             /\ \/ bufs' = bufs + 1 /\ block' # NoBuf
                \/ bufs' = bufs /\ block' = NoBuf
      <4>1. todo[t] \in Seq(Nat) /\ <<>> \in Seq(Nat)
        BY DEF TypeInv, TypeOK, CallTypes
      <4>2. EntryBlock(todo[t]) # NoBuf /\ EntryBlock(<<>>) # NoBuf
        BY <4>1, EntryBlockType, NoBufAssumption
      <4>3. block # NoBuf => AddEntry(block, todo[t]) # NoBuf
        BY <4>1, AddEntryType, NoBufAssumption DEF TypeInv, TypeOK, EntryTypes
      <4> QED
        BY <2>4, <4>2, <4>3 DEF entry_write, entry_write_retry, write_new_block
    <3> DEFINE l == "idle"
    <3>3. /\ l \notin Locked /\ l \notin Handing /\ pc[t] \in Locked
          /\ pc[t] = "entry" => pc[t] \notin Handing
          /\ pc[t] = "entry_submit" => pc[t] \in Handing
          /\ pc[t] # "stream_close_submit" /\ l \in Locked \union {"idle", "close_submit"}
      BY <3>2
    <3> HIDE DEF Locked, Handing
    <3> QED
      BY <3>1, <3>2, <3>3
  <2>5. CASE close_block_submit(t)
    <3>1. /\ pc' = [pc EXCEPT ![t] = "close_submit"] /\ pc[t] = "close_block_submit"
          /\ UNCHANGED <<processing, bufs>> /\ block' = NoBuf
      BY <2>5 DEF close_block_submit
    <3>2. "close_submit" \notin Locked /\ "close_submit" \notin Handing
          /\ pc[t] \in Locked /\ pc[t] \in Handing /\ pc[t] # "stream_close_submit"
      BY <3>1
    <3> HIDE DEF Locked, Handing
    <3> QED
      BY <3>1, <3>2
  <2> QED
    BY <2>1, <2>2, <2>3, <2>4, <2>5 DEF EntryWrite
<1>2. /\ MutexState'
      /\ EntryOwned = IF pc[t] \in Handing THEN 0 ELSE One(block)
      /\ EntryOwned' = IF l \in Handing THEN 0 ELSE One(block')
  BY <1>0, <1>1, MutexInside
<1>3. l # "stream_close_submit" /\ \A u \in Threads : stream'[u] = NoBuf <=> stream[u] = NoBuf
  BY <1>0, <1>1 DEF Locked, Handing
<1>4. open_streams' = open_streams /\ StreamsOwned' = StreamsOwned
  BY <1>1, <1>3, StreamsSame
<1>5. StreamsFinite'
  BY <1>0, <1>4 DEF StreamsFinite
<1>6. TermTypes'
  BY <1>5, BalanceTypesNext
<1>7. bufs' - (EntryOwned' + StreamsOwned' + Len(processing'))
          = bufs - (EntryOwned + StreamsOwned + Len(processing))
  <2>1. /\ bufs \in Int /\ EntryOwned \in Nat /\ StreamsOwned \in Nat
        /\ Len(processing) \in Nat /\ bufs' \in Int /\ EntryOwned' \in Nat
        /\ Len(processing') \in Nat /\ StreamsOwned' \in Nat
    BY <1>0, <1>6 DEF TermTypes
  <2>2. bufs' - (EntryOwned' + Len(processing')) = bufs - (EntryOwned + Len(processing))
    <3>1. CASE pc[t] \notin Handing /\ l \notin Handing
      BY <1>1, <1>2, <2>1, <3>1 DEF One
    <3>2. CASE pc[t] \notin Handing /\ l \in Handing
      BY <1>1, <1>2, <2>1, <3>2 DEF One
    <3>3. CASE pc[t] \in Handing /\ l \notin Handing
      <4>1. EntryOwned = 0 /\ processing' = processing /\ EntryOwned' = One(block')
        BY <1>1, <1>2, <3>3
      <4>2. bufs' = bufs + EntryOwned'
        BY <1>1, <2>1, <3>3, <4>1 DEF One
      <4> QED
        BY <2>1, <4>1, <4>2
    <3> QED
      BY <1>1, <3>1, <3>2, <3>3
  <2> QED
    <3>1. bufs' - (EntryOwned' + StreamsOwned + Len(processing'))
              = bufs - (EntryOwned + StreamsOwned + Len(processing))
      BY <2>1, <2>2, SMTT(30)
    <3> QED
      BY <1>4, <3>1
<1> QED
  BY <1>0, <1>2, <1>5, <1>7, AppBalance

(* The other calls outside of it that open and close no stream *)
LEMMA CallOwnership ==
    ASSUME TypeInv, TypeInv', OwnInv, NEW t \in Threads,
           \/ close_begin(t) \/ close_lock_timeout(t) \/ close_submit(t)
           \/ (\E n \in 1..MaxWrite : stream_write_begin(t, n)) \/ StreamWrite(t)
    PROVE  OwnInv'
<1> USE DEF At, Goto, streamVars, entryVars
<1>1. PICK l : /\ pc' = [pc EXCEPT ![t] = l]
               /\ l \in {"close", "close_submit", "idle", "stream", "stream_submit"}
  BY DEF close_begin, close_lock_timeout, close_submit, stream_write_begin, StreamWrite,
         stream_write, stream_write_short, stream_block_full, stream_submit
<1>2. pc[t] \in {"close", "close_submit", "idle", "stream", "stream_submit"}
  BY DEF close_begin, close_lock_timeout, close_submit, stream_write_begin, StreamWrite,
         stream_write, stream_write_short, stream_block_full, stream_submit
<1>3. UNCHANGED <<mut, block, otherThanApp>>
  BY DEF close_begin, close_lock_timeout, close_submit, stream_write_begin, StreamWrite,
         stream_write, stream_write_short, stream_block_full, stream_submit
<1>4. "closed" \in flags' <=> "closed" \in flags
  BY DEF close_begin, close_lock_timeout, close_submit, stream_write_begin, StreamWrite,
         stream_write, stream_write_short, stream_block_full, stream_submit
<1>5. MutexState' /\ EntryOwned' = EntryOwned
  BY <1>1, <1>2, <1>3, MutexOutside DEF OwnInv, Locked, Handing
<1>6. \A u \in Threads : stream'[u] = NoBuf <=> stream[u] = NoBuf
  <2>1. stream \in [Threads -> Streams \union {NoBuf}] /\ todo[t] \in Seq(Nat)
    BY DEF TypeInv, TypeOK, StreamTypes, CallTypes
  <2>2. CASE stream_write(t)
    <3>1. stream[t] \in Streams /\ todo[t] # <<>>
      BY <2>1, <2>2 DEF stream_write, TypeInv, CallState
    <3>2. AddPiece(stream[t], Head(todo[t])) # NoBuf
      BY <2>1, <3>1, AddPieceType, HeadTailProperties, NoBufAssumption
    <3>3. stream' = [stream EXCEPT ![t] = AddPiece(stream[t], Head(todo[t]))]
      BY <2>2 DEF stream_write
    <3> QED
      BY <2>1, <3>1, <3>2, <3>3, NoBufAssumption
  <2>3. CASE stream_submit(t)
    <3>1. pc'[t] = "stream" /\ stream[t] # NoBuf
      BY <2>3 DEF stream_submit, TypeInv, TypeOK, CallTypes, CallState
    <3>2. stream'[t] # NoBuf
      BY <3>1 DEF TypeInv, CallState
    <3>3. \A u \in Threads : u # t => stream'[u] = stream[u]
      BY <2>1, <2>3 DEF stream_submit
    <3> QED
      BY <3>1, <3>2, <3>3
  <2>4. CASE ~stream_write(t) /\ ~stream_submit(t)
    BY <2>4 DEF close_begin, close_lock_timeout, close_submit, stream_write_begin,
                StreamWrite, stream_write_short, stream_block_full
  <2> QED
    BY <2>2, <2>3, <2>4
<1>7. bufs' - Len(processing') = bufs - Len(processing)
  <2>1. bufs \in Int /\ processing \in Seq(Blocks) /\ Len(processing) \in Nat
    BY LenProperties DEF TypeInv, TypeOK, SharedTypes
  <2>2. CASE stream_block_full(t)
    <3>1. processing' = Append(processing, FinishStream(stream[t].buf, FALSE))
          /\ bufs' = bufs + 1
      BY <2>2 DEF stream_block_full
    <3>2. FinishStream(stream[t].buf, FALSE) \in Blocks
      <4>1. stream[t] \in Streams
        BY <2>2 DEF stream_block_full, TypeInv, TypeOK, StreamTypes, CallState
      <4> QED
        BY <4>1, FinishStreamType DEF Streams
    <3>3. Len(processing') = Len(processing) + 1
      BY <2>1, <3>1, <3>2, AppendProperties
    <3> QED
      BY <2>1, <3>1, <3>3
  <2>3. CASE ~stream_block_full(t)
    BY <2>1, <2>3 DEF close_begin, close_lock_timeout, close_submit, stream_write_begin,
                StreamWrite, stream_write, stream_write_short, stream_submit
  <2> QED
    BY <2>2, <2>3
<1> QED
  BY <1>1, <1>2, <1>3, <1>4, <1>5, <1>6, <1>7, QuietStep

(* Streams are opened, closed and handed over. *)
LEMMA StreamOwnership ==
    ASSUME TypeInv, TypeInv', OwnInv, NEW t \in Threads,
           stream_open(t) \/ stream_close(t) \/ StreamClose(t)
    PROVE  OwnInv'
<1> USE DEF At, Goto, streamVars, entryVars
<1>0. /\ StreamsFinite /\ TermTypes /\ IsFiniteSet(OwnStreams)
      /\ stream \in [Threads -> Streams \union {NoBuf}] /\ pc \in [Threads -> Labels]
      /\ processing \in Seq(Blocks)
  BY BalanceTypes DEF OwnInv, TermTypes, TypeInv, TypeOK, StreamTypes, CallTypes, SharedTypes
<1>1. PICK l : /\ pc' = [pc EXCEPT ![t] = l]
               /\ l \in {"idle", "stream_close", "stream_close_submit"}
               /\ pc[t] \in {"idle", "stream_close", "stream_close_submit"}
  <2>1. CASE stream_open(t)
    <3>1. pc' = [pc EXCEPT ![t] = "idle"] /\ pc[t] = "idle"
      BY <1>0, <2>1 DEF stream_open
    <3> QED
      BY <3>1
  <2>2. CASE stream_close(t)
    <3>1. pc' = [pc EXCEPT ![t] = pc'[t]] /\ pc'[t] \in {"idle", "stream_close"} /\ pc[t] = "idle"
      BY <1>0, <2>2 DEF stream_close
    <3> QED
      BY <3>1
  <2>3. CASE StreamClose(t)
    BY <2>3 DEF StreamClose, stream_close_enqueue, stream_close_submit
  <2> QED
    BY <2>1, <2>2, <2>3
<1>2. UNCHANGED <<mut, block, flags, otherThanApp>>
  BY DEF stream_open, stream_close, StreamClose, stream_close_enqueue, stream_close_submit
<1>3. MutexState' /\ EntryOwned' = EntryOwned
  BY <1>1, <1>2, MutexOutside DEF OwnInv, Locked, Handing
<1>4. /\ StreamsFinite'
      /\ bufs' - (StreamsOwned' + Len(processing')) = bufs - (StreamsOwned + Len(processing))
  <2>1. CASE /\ pc'[t] # "stream_close_submit" /\ pc[t] # "stream_close_submit"
             /\ UNCHANGED <<stream, bufs, processing>>
    <3>1. open_streams' = open_streams /\ StreamsOwned' = StreamsOwned
      BY <1>0, <1>1, <2>1, StreamsSame
    <3> QED
      BY <1>0, <2>1, <3>1 DEF StreamsFinite
  <2>2. CASE stream_open(t) /\ bufs' = bufs + 1 /\ stream' # stream
    <3>1. stream' = [stream EXCEPT ![t] = NewStream(new_stream_uid)] /\ stream[t] = NoBuf
          /\ processing' = processing /\ pc' = pc /\ pc[t] = "idle"
      BY <2>2 DEF stream_open
    <3>2. NewStream(new_stream_uid) # NoBuf
      <4>1. new_stream_uid \in Nat /\ id \in Nat
        BY ConstantsAssumption DEF new_stream_uid, TypeInv, TypeOK, StreamTypes, TransportTypes
      <4> QED
        BY <4>1, NewStreamType, NoBufAssumption
    <3>3. open_streams' = open_streams \union {t} /\ t \notin OwnStreams
          /\ OwnStreams' = OwnStreams \union {t}
      BY <1>0, <3>1, <3>2 DEF open_streams, OwnStreams
    <3>4. StreamsFinite' /\ StreamsOwned' = StreamsOwned + 1
      BY <1>0, <3>3, FS_AddElement DEF StreamsFinite, StreamsOwned
    <3> QED
      BY <1>0, <2>2, <3>1, <3>4 DEF TermTypes
  <2>3. CASE stream_close(t) /\ bufs' = bufs - 1 /\ stream' = [stream EXCEPT ![t] = NoBuf]
    <3>1. processing' = processing /\ pc[t] = "idle" /\ stream[t] # NoBuf /\ pc'[t] = "idle"
      BY <1>0, <1>1, <2>3 DEF stream_close
    <3>2. open_streams' = open_streams \ {t} /\ t \in OwnStreams
          /\ OwnStreams' = OwnStreams \ {t}
      BY <1>0, <1>1, <2>3, <3>1 DEF open_streams, OwnStreams
    <3>3. StreamsFinite' /\ StreamsOwned' = StreamsOwned - 1
      BY <1>0, <3>2, FS_RemoveElement DEF StreamsFinite, StreamsOwned
    <3> QED
      BY <1>0, <2>3, <3>1, <3>3 DEF TermTypes
  <2>4. CASE stream_close_enqueue(t)
    <3>1. /\ processing' = Append(processing, FinishStream(stream[t].buf, TRUE))
          /\ pc[t] = "stream_close" /\ stream' = stream /\ bufs' = bufs
          /\ pc' = [pc EXCEPT ![t] = "stream_close_submit"] /\ stream[t] # NoBuf
      BY <2>4 DEF stream_close_enqueue, TypeInv, CallState
    <3>2. open_streams' = open_streams /\ t \in OwnStreams /\ OwnStreams' = OwnStreams \ {t}
      BY <1>0, <3>1 DEF open_streams, OwnStreams
    <3>3. StreamsFinite' /\ StreamsOwned' = StreamsOwned - 1
      BY <1>0, <3>2, FS_RemoveElement DEF StreamsFinite, StreamsOwned
    <3>4. Len(processing') = Len(processing) + 1
      <4>1. FinishStream(stream[t].buf, TRUE) \in Blocks
        BY <1>0, <3>1, FinishStreamType DEF Streams
      <4> QED
        BY <1>0, <3>1, <4>1, AppendProperties
    <3> QED
      BY <1>0, <3>1, <3>3, <3>4 DEF TermTypes
  <2>5. CASE stream_close_submit(t)
    <3>1. /\ stream' = [stream EXCEPT ![t] = NoBuf] /\ pc[t] = "stream_close_submit"
          /\ pc' = [pc EXCEPT ![t] = "idle"] /\ bufs' = bufs /\ processing' = processing
      BY <2>5 DEF stream_close_submit
    <3>2. open_streams' = open_streams \ {t} /\ OwnStreams' = OwnStreams
      BY <1>0, <3>1 DEF open_streams, OwnStreams
    <3>3. StreamsFinite' /\ StreamsOwned' = StreamsOwned
      BY <1>0, <3>2, FS_RemoveElement DEF StreamsFinite, StreamsOwned
    <3> QED
      BY <1>0, <3>1, <3>3 DEF TermTypes
  <2>6. stream_open(t) => \/ stream' = stream /\ bufs' = bufs
                          \/ bufs' = bufs + 1 /\ stream' # stream
    <3>1. ASSUME stream_open(t), stream' = [stream EXCEPT ![t] = NewStream(new_stream_uid)]
          PROVE  stream' # stream
      <4>1. new_stream_uid \in Nat /\ id \in Nat
        BY ConstantsAssumption DEF new_stream_uid, TypeInv, TypeOK, StreamTypes, TransportTypes
      <4> QED
        BY <1>0, <3>1, <4>1, NewStreamType, NoBufAssumption DEF stream_open
    <3> QED
      BY <3>1 DEF stream_open
  <2> QED
    BY <1>0, <2>1, <2>2, <2>3, <2>4, <2>5, <2>6
       DEF stream_open, stream_close, StreamClose
<1>5. TermTypes'
  BY <1>4, BalanceTypesNext
<1>6. bufs' - (EntryOwned' + StreamsOwned' + Len(processing'))
          = bufs - (EntryOwned + StreamsOwned + Len(processing))
  <2>1. /\ bufs \in Int /\ EntryOwned \in Nat /\ StreamsOwned \in Nat
        /\ Len(processing) \in Nat /\ bufs' \in Int /\ StreamsOwned' \in Nat
        /\ Len(processing') \in Nat
    BY <1>0, <1>5 DEF TermTypes
  <2>2. bufs' - (StreamsOwned' + Len(processing')) = bufs - (StreamsOwned + Len(processing))
    BY <1>4
  <2> QED
    BY <1>3, <2>1, <2>2, Sums, SMTT(30)
<1> QED
  BY <1>2, <1>3, <1>4, <1>6, AppBalance

LEMMA AppOwnership ==
    ASSUME TypeInv, TypeInv', OwnInv, NEW t \in Threads, InCall(t) \/ Call(t)
    PROVE  OwnInv'
  BY EntryOwnership, CallOwnership, StreamOwnership DEF InCall, Call, EntryWrite, Close

-----------------------------------------------------------------------------
(* process_blocks and the transport *)

(* Arithmetic of the balance *)
LEMMA Cancel ==
    ASSUME NEW b \in Int, NEW s \in Int, NEW h \in Int
    PROVE  (b + h) - (s + h) = b - s
  OBVIOUS

LEMMA TakeOut ==
    ASSUME NEW b \in Int, NEW s \in Int, NEW p \in Int
    PROVE  b - (p + s) = (b - s) - p
  OBVIOUS

LEMMA TakeInner ==
    ASSUME NEW b \in Int, NEW n \in Int, NEW s \in Int, NEW p \in Int, NEW h \in Int
    PROVE  b - (p + n + s + h) = (b - (n + s)) - (p + h)
  OBVIOUS

(* Steps that leave the application's threads alone *)
LEMMA SessionBalance ==
    ASSUME TypeInv, TypeInv', OwnInv, UNCHANGED appVars, HeaderState',
           bufs' - (Len(processing') + SessionOwned') = bufs - (Len(processing) + SessionOwned)
    PROVE  OwnInv'
<1> USE DEF OwnInv, appVars, entryVars, streamVars
<1>1. MutexState' /\ StreamsFinite'
  BY DEF MutexState, StreamsFinite, open_streams
<1>2. EntryOwned' = EntryOwned /\ StreamsOwned' = StreamsOwned
  BY DEF EntryOwned, StreamsOwned, OwnStreams, open_streams, One
<1>3. TermTypes /\ TermTypes'
  BY <1>1, BalanceTypes, BalanceTypesNext
<1>4. /\ bufs \in Int /\ EntryOwned \in Nat /\ StreamsOwned \in Nat
      /\ Len(processing) \in Nat /\ SessionOwned \in Nat
      /\ bufs' \in Int /\ Len(processing') \in Nat /\ SessionOwned' \in Nat
  BY <1>3 DEF TermTypes
<1>5. Balance'
  BY <1>2, <1>4, SMTT(30) DEF Balance
<1> QED
  BY <1>1, <1>5

LEMMA WorkerOwnership ==
    ASSUME TypeInv, TypeInv', OwnInv, process_blocks
    PROVE  OwnInv'
<1> USE DEF WorkerAt, otherThanWorker, transportVars
<1>1. UNCHANGED appVars /\ UNCHANGED <<tpc, reader>>
  BY DEF process_blocks, work_start, process_loop, process_loop_open, process_loop_queue,
         process_encrypt, process_encrypt_fail, process_header, process_header_null,
         process_put, process_exit, process_close
<1>2. TermTypes /\ HeaderState /\ processing \in Seq(Blocks) /\ transport \in Seq(Buffers)
  BY BalanceTypes DEF OwnInv, TypeInv, TypeOK, SharedTypes, OutTypes
<1>3. /\ bufs \in Int /\ Len(processing) \in Nat /\ One(wbuf) \in Nat
      /\ Len(transport) \in Nat /\ One(reader) \in Nat /\ One(reader') = One(reader)
      /\ HeaderOwned \in Nat
  BY <1>1, <1>2 DEF TermTypes, One
<1>4. CASE \/ work_start \/ process_loop \/ process_loop_open \/ process_loop_queue
           \/ process_exit \/ process_close
  <2>1. /\ wpc # "header_null" /\ wpc' \notin Carries
        /\ UNCHANGED <<processing, wbuf, transport, header, bufs>>
        /\ wpc' \notin {"idle", "loop", "loop_open", "exit", "close"} => "closed" \notin flags'
        /\ "closed" \in flags => "closed" \in flags'
    BY <1>2, <1>4 DEF work_start, process_loop, process_loop_open, process_loop_queue,
                      process_exit, process_close, pouch_is_open, Carries, HeaderState
  <2>2. HeaderState'
    BY <1>1, <1>2, <2>1 DEF HeaderState, Carries
  <2>3. SessionOwned' = SessionOwned
    BY <1>1, <2>1 DEF SessionOwned, HeaderOwned, One, Carries
  <2> QED
    BY <1>1, <2>1, <2>2, <2>3, SessionBalance
<1>5. CASE process_encrypt \/ process_encrypt_fail
  <2>1. /\ wpc = "take" /\ wpc' \in {"header", "loop"} /\ wbuf = NoBuf
        /\ processing # <<>> /\ processing' = Tail(processing)
        /\ UNCHANGED <<transport, header, flags>>
        /\ \/ wbuf' # NoBuf /\ bufs' = bufs
           \/ wbuf' = NoBuf /\ bufs' = bufs - 1
    BY <1>5 DEF process_encrypt, process_encrypt_fail, TypeInv, WorkerState, Carries
  <2>2. HeaderState'
    BY <1>1, <1>2, <2>1 DEF HeaderState
  <2>3. Len(processing') = Len(processing) - 1
    BY <1>2, <2>1, HeadTailProperties
  <2>4. HeaderOwned' = HeaderOwned /\ One(wbuf) = 0
    BY <2>1 DEF HeaderOwned, One
  <2>5. SessionOwned' = SessionOwned + One(wbuf')
    BY <1>3, <2>1, <2>4, OneType DEF SessionOwned
  <2>6. bufs' = bufs - 1 + One(wbuf')
    BY <1>3, <2>1 DEF One
  <2>7. SessionOwned \in Nat /\ One(wbuf') \in Nat
    BY <1>2, OneType DEF TermTypes
  <2>8. bufs' - (Len(processing') + SessionOwned') = bufs - (Len(processing) + SessionOwned)
    <3>1. Len(processing) \in Int /\ SessionOwned \in Int /\ One(wbuf') \in Int
      BY <1>3, <2>7
    <3>2. (bufs - 1 + One(wbuf')) - ((Len(processing) - 1) + (SessionOwned + One(wbuf')))
              = bufs - (Len(processing) + SessionOwned)
      <4> DEFINE b == bufs
                 n == Len(processing)
                 s == SessionOwned
                 o == One(wbuf')
      <4>1. b \in Int /\ n \in Int /\ s \in Int /\ o \in Int
        BY <1>3, <3>1
      <4> HIDE DEF b, n, s, o
      <4>2. (b - 1 + o) - ((n - 1) + (s + o)) = b - (n + s)
        BY <4>1
      <4> QED
        BY <4>2 DEF b, n, s, o
    <3> QED
      BY <2>3, <2>5, <2>6, <3>2, Zenon
  <2> QED
    BY <1>1, <2>2, <2>8, SessionBalance
<1>6. CASE process_header \/ process_header_null \/ process_put
  <2>1. wpc \in Carries /\ UNCHANGED <<processing, bufs, flags>>
    BY <1>6 DEF process_header, process_header_null, process_put, Carries
  <2>2. SessionOwned' = SessionOwned /\ HeaderState'
    <3>1. CASE process_header /\ header # NoBuf
      <4>1. /\ transport' = Append(transport, header) /\ wpc = "header" /\ wpc' = "header_null"
            /\ UNCHANGED <<wbuf, header>>
        BY <3>1 DEF process_header
      <4>2. Len(transport') = Len(transport) + 1
        <5>1. header \in Buffers
          BY <3>1 DEF TypeInv, TypeOK, OutTypes
        <5> QED
          BY <1>2, <4>1, <5>1, AppendProperties
      <4>3. HeaderOwned = 1 /\ HeaderOwned' = 0 /\ One(wbuf') = One(wbuf)
        BY <3>1, <4>1 DEF HeaderOwned, One
      <4>4. SessionOwned' = SessionOwned
        BY <1>3, <4>2, <4>3 DEF SessionOwned
      <4> QED
        BY <1>1, <1>2, <2>1, <3>1, <4>1, <4>4 DEF HeaderState
    <3>2. CASE process_header /\ header = NoBuf
      <4>1. UNCHANGED <<transport, wbuf, header>> /\ wpc = "header" /\ wpc' = "put"
        BY <3>2 DEF process_header
      <4> QED
        BY <1>1, <1>2, <2>1, <4>1 DEF HeaderState, SessionOwned, HeaderOwned, One
    <3>3. CASE process_header_null
      <4>1. /\ UNCHANGED <<transport, wbuf>> /\ header' = NoBuf /\ wpc = "header_null"
            /\ wpc' = "put"
        BY <3>3 DEF process_header_null
      <4> QED
        BY <1>1, <1>2, <2>1, <4>1 DEF HeaderState, SessionOwned, HeaderOwned, One
    <3>4. CASE process_put
      <4>1. /\ transport' = Append(transport, wbuf) /\ wbuf' = NoBuf /\ wpc = "put"
            /\ wpc' = "loop" /\ header' = header
        BY <3>4 DEF process_put
      <4>2. wbuf # NoBuf /\ Len(transport') = Len(transport) + 1
        <5>1. wbuf \in Buffers /\ wbuf # NoBuf
          BY <4>1 DEF TypeInv, TypeOK, WorkerTypes, WorkerState, Carries
        <5> QED
          BY <1>2, <4>1, <5>1, AppendProperties
      <4>3. HeaderOwned' = HeaderOwned /\ One(wbuf) = 1 /\ One(wbuf') = 0
        BY <4>1, <4>2 DEF HeaderOwned, One
      <4>4. SessionOwned' = SessionOwned
        BY <1>3, <4>2, <4>3 DEF SessionOwned
      <4> QED
        BY <1>1, <1>2, <2>1, <4>1, <4>4 DEF HeaderState
    <3> QED
      BY <1>6, <3>1, <3>2, <3>3, <3>4
  <2> QED
    BY <1>1, <2>1, <2>2, SessionBalance
<1> QED
  BY <1>4, <1>5, <1>6 DEF process_blocks

LEMMA TransportOwnership ==
    ASSUME TypeInv, TypeInv', OwnInv,
           pouch_uplink_start \/ pouch_uplink_fill \/ pouch_uplink_finish
    PROVE  OwnInv'
<1> USE DEF TransportAt, otherThanTransport, outVars, workerVars
<1>0. UNCHANGED <<processing, wpc, wbuf>> /\ UNCHANGED appVars
  BY DEF pouch_uplink_start, start_begin, start_session, start_crypto, start_crypto_fail,
         start_pouch, start_header, start_header_fail, start_done, pouch_uplink_fill, fill_begin, fill_next,
         fill_copy_part, fill_copy_rest, fill_check_open, fill_check_empty, fill_end,
         pouch_uplink_finish, finish_flush, finish_id, finish_clear, finish_end
<1>1. TermTypes /\ HeaderState /\ transport \in Seq(Buffers)
  BY BalanceTypes DEF OwnInv, TypeInv, TypeOK, OutTypes
<1>2. /\ bufs \in Int /\ Len(processing) \in Nat /\ One(wbuf) \in Nat
      /\ Len(transport) \in Nat /\ One(reader) \in Nat /\ One(wbuf') = One(wbuf)
      /\ HeaderOwned \in Nat /\ SessionOwned \in Nat
  BY <1>0, <1>1 DEF TermTypes, One
<1>3. SUFFICES /\ HeaderState'
               /\ bufs' - SessionOwned' = bufs - SessionOwned
  <2>0. Len(processing') = Len(processing)
    BY <1>0
  <2>1. bufs' \in Int /\ SessionOwned' \in Int
    <3>1. StreamsFinite'
      BY <1>0 DEF OwnInv, StreamsFinite, open_streams, appVars, streamVars
    <3>2. TermTypes'
      BY <3>1, BalanceTypesNext
    <3> QED
      BY <3>2 DEF TermTypes
  <2>2. ASSUME bufs' - SessionOwned' = bufs - SessionOwned
        PROVE  bufs' - (Len(processing') + SessionOwned')
                   = bufs - (Len(processing) + SessionOwned)
    <3>1. bufs \in Int /\ SessionOwned \in Int /\ Len(processing) \in Int
      BY <1>2
    <3>2. bufs' - (Len(processing) + SessionOwned') = bufs - (Len(processing) + SessionOwned)
      <4>1. bufs' - (Len(processing) + SessionOwned') = (bufs' - SessionOwned') - Len(processing)
        BY <2>1, <3>1, TakeOut, Zenon
      <4>2. bufs - (Len(processing) + SessionOwned) = (bufs - SessionOwned) - Len(processing)
        BY <3>1, TakeOut, Zenon
      <4> QED
        BY <2>2, <4>1, <4>2, Zenon
    <3> QED
      BY <2>0, <3>2
  <2> QED
    BY <1>0, <2>2, SessionBalance
<1>4. CASE \/ start_begin \/ start_session \/ start_crypto \/ start_crypto_fail
           \/ start_pouch \/ start_done
           \/ fill_begin \/ fill_check_open \/ fill_check_empty \/ fill_end
           \/ finish_id \/ finish_clear \/ finish_end
  <2>1. UNCHANGED <<header, transport, reader, bufs>>
    BY <1>4 DEF start_begin, start_session, start_crypto, start_crypto_fail, start_pouch,
                start_done, fill_begin, fill_check_open, fill_check_empty, fill_end, finish_id,
                finish_clear, finish_end
  <2>2. SessionOwned' = SessionOwned
    BY <1>0, <2>1 DEF SessionOwned, HeaderOwned, One
  <2>3. HeaderState'
    <3>1. CASE \/ start_begin \/ start_session \/ start_crypto \/ start_crypto_fail
               \/ start_pouch \/ start_done
      BY <1>0, <1>1, <2>1, <3>1 DEF HeaderState, Finishing, start_begin, start_session,
             start_crypto, start_crypto_fail, start_pouch, start_done
    <3>2. CASE fill_begin \/ fill_check_open \/ fill_check_empty \/ fill_end
      BY <1>0, <1>1, <2>1, <3>2 DEF HeaderState, Finishing, fill_begin, fill_check_open,
             fill_check_empty, fill_end, end_session, pouch_is_open
    <3>3. CASE finish_id \/ finish_clear \/ finish_end
      BY <1>0, <1>1, <2>1, <3>3 DEF HeaderState, Finishing, finish_id, finish_clear,
             finish_end, end_session
    <3> QED
      BY <1>4, <3>1, <3>2, <3>3
  <2> QED
    BY <2>1, <2>2, <2>3
<1>5. CASE start_header \/ start_header_fail
  <2>1. /\ tpc = "header" /\ header = NoBuf /\ wpc # "header_null"
        /\ UNCHANGED <<transport, reader>>
    BY <1>1, <1>5 DEF HeaderState, start_header, start_header_fail
  <2>2. \/ header' = NoBuf /\ bufs' = bufs
        \/ header' # NoBuf /\ bufs' = bufs + 1
    <3>1. Header(crypto.key) # NoBuf
      BY HeaderType, NoBufAssumption DEF TypeInv, TypeOK, TransportTypes
    <3>2. CASE start_header
      BY <3>1, <3>2 DEF start_header
    <3>3. CASE start_header_fail
      BY <2>1, <3>3 DEF start_header_fail
    <3> QED
      BY <1>5, <3>2, <3>3
  <2>3. HeaderOwned = 0 /\ bufs' = bufs + HeaderOwned' /\ HeaderOwned' \in Nat
    BY <1>0, <1>2, <2>1, <2>2 DEF HeaderOwned, One
  <2>4. One(reader') = One(reader) /\ Len(transport') = Len(transport)
    BY <2>1 DEF One
  <2>5. HeaderState'
    BY <1>0, <1>1, <1>5, <2>1 DEF HeaderState, Finishing, start_header, start_header_fail
  <2>6. SessionOwned' = SessionOwned + HeaderOwned'
    BY <1>2, <2>3, <2>4 DEF SessionOwned
  <2>7. bufs' - SessionOwned' = bufs - SessionOwned
    <3>1. bufs \in Int /\ HeaderOwned' \in Int /\ SessionOwned \in Int
      BY <1>2, <2>3
    <3>2. (bufs + HeaderOwned') - (SessionOwned + HeaderOwned') = bufs - SessionOwned
      BY <3>1, Cancel, Zenon
    <3> QED
      BY <2>3, <2>6, <3>2
  <2> QED
    BY <2>5, <2>7
<1>6. CASE fill_next \/ (\E n \in 1..(BufUnits - 1) : fill_copy_part(n)) \/ fill_copy_rest
  <2>1. UNCHANGED <<header, flags>>
    BY <1>6 DEF fill_next, fill_copy_part, fill_copy_rest
  <2>2. tpc = "fill" /\ tpc' \in {"fill", "check_open"} /\ HeaderState'
    <3>1. tpc = "fill" /\ tpc' \in {"fill", "check_open"}
      BY <1>6 DEF fill_next, fill_copy_part, fill_copy_rest
    <3> QED
      BY <1>0, <1>1, <2>1, <3>1 DEF HeaderState, Finishing
  <2>3. HeaderOwned' = HeaderOwned
    BY <1>0, <2>1 DEF HeaderOwned, One
  <2>4. bufs' - (Len(transport') + One(reader')) = bufs - (Len(transport) + One(reader))
        /\ Len(transport') \in Int /\ One(reader') \in Int /\ bufs' \in Int
    <3>1. CASE fill_next /\ transport # <<>>
      <4>1. reader = NoBuf /\ reader' # NoBuf /\ transport' = Tail(transport) /\ bufs' = bufs
        <5>1. /\ reader = NoBuf /\ transport' = Tail(transport) /\ bufs' = bufs
              /\ reader' = [buf |-> Head(transport), left |-> BufUnits]
          BY <3>1 DEF fill_next
        <5>2. reader' \in Readers
          BY <1>1, <3>1, <5>1, HeadTailProperties, ConstantsAssumption DEF Readers
        <5> QED
          BY <5>1, <5>2, NoBufAssumption
      <4>2. Len(transport') = Len(transport) - 1 /\ Len(transport') \in Nat
        BY <1>1, <1>2, <3>1, <4>1, HeadTailProperties, LenProperties
      <4>3. One(reader) = 0 /\ One(reader') = 1
        BY <4>1 DEF One
      <4>4. bufs' = bufs /\ bufs \in Int /\ Len(transport) \in Nat
        BY <1>2, <4>1
      <4> QED
        BY <4>2, <4>3, <4>4
    <3>2. CASE fill_next /\ transport = <<>>
      BY <1>2, <3>2 DEF fill_next, One
    <3>3. CASE \E n \in 1..(BufUnits - 1) : fill_copy_part(n)
      <4>1. reader # NoBuf /\ UNCHANGED <<transport, bufs>>
        BY <3>3 DEF fill_copy_part
      <4>2. reader' # NoBuf
        <5>1. PICK n \in 1..(BufUnits - 1) : fill_copy_part(n)
          BY <3>3
        <5>2. reader \in Readers /\ n < reader.left /\ reader' = [reader EXCEPT !.left = @ - n]
          BY <4>1, <5>1 DEF fill_copy_part, TypeInv, TypeOK, OutTypes
        <5>3. reader' \in Readers
          BY <5>2, ConstantsAssumption DEF Readers
        <5> QED
          BY <5>3, NoBufAssumption
      <4> QED
        BY <1>2, <4>1, <4>2 DEF One
    <3>4. CASE fill_copy_rest
      <4>1. reader # NoBuf /\ reader' = NoBuf /\ bufs' = bufs - 1 /\ transport' = transport
        BY <3>4 DEF fill_copy_rest
      <4> QED
        BY <1>2, <4>1 DEF One
    <3> QED
      BY <1>6, <3>1, <3>2, <3>3, <3>4
  <2>5. bufs' - SessionOwned' = bufs - SessionOwned
    <3>1. /\ SessionOwned = One(wbuf) + Len(transport) + One(reader) + HeaderOwned
          /\ SessionOwned' = One(wbuf) + Len(transport') + One(reader') + HeaderOwned
      BY <1>2, <2>3 DEF SessionOwned
    <3>2. /\ bufs \in Int /\ One(wbuf) \in Int /\ HeaderOwned \in Int
          /\ Len(transport) \in Int /\ One(reader) \in Int
      BY <1>2
    <3>3. bufs' - (One(wbuf) + Len(transport') + One(reader') + HeaderOwned)
              = bufs - (One(wbuf) + Len(transport) + One(reader) + HeaderOwned)
      <4>1. bufs' - (One(wbuf) + Len(transport') + One(reader') + HeaderOwned)
                = (bufs' - (Len(transport') + One(reader'))) - (One(wbuf) + HeaderOwned)
        BY <2>4, <3>2, TakeInner
      <4>2. bufs - (One(wbuf) + Len(transport) + One(reader) + HeaderOwned)
                = (bufs - (Len(transport) + One(reader))) - (One(wbuf) + HeaderOwned)
        BY <3>2, TakeInner
      <4> QED
        BY <2>4, <4>1, <4>2, Zenon
    <3> QED
      BY <3>1, <3>3
  <2> QED
    BY <2>2, <2>5
<1>7. CASE finish_flush
  <2>1. /\ transport' = <<>> /\ reader' = NoBuf /\ header' = NoBuf /\ flags' = flags
        /\ bufs' = bufs - Len(transport) - One(reader) - One(header)
        /\ tpc' = "finish_id"
    BY <1>7 DEF finish_flush
  <2>2. wpc # "header_null"
    <3>1. CASE tpc = "ended"
      BY <1>1, <3>1 DEF HeaderState
    <3>2. CASE MayAbort /\ TransportRuns
      BY <3>2, ConstantsAssumption DEF TransportRuns
    <3> QED
      BY <1>7, <3>1, <3>2 DEF finish_flush
  <2>3. HeaderOwned = One(header) /\ HeaderOwned' = 0 /\ One(reader') = 0
        /\ Len(transport') = 0
    BY <1>0, <2>1, <2>2 DEF HeaderOwned, One
  <2>4. SessionOwned' = One(wbuf)
    BY <1>2, <2>3 DEF SessionOwned
  <2>5. HeaderState'
    BY <1>0, <1>1, <2>1, <2>2 DEF HeaderState, Finishing
  <2> QED
    BY <1>2, <2>1, <2>3, <2>4, <2>5, SMTT(30) DEF SessionOwned
<1> QED
  BY <1>4, <1>5, <1>6, <1>7 DEF pouch_uplink_start, pouch_uplink_fill, pouch_uplink_finish

-----------------------------------------------------------------------------
LEMMA OwnInit == Init => OwnInv
<1> SUFFICES ASSUME Init PROVE OwnInv
  OBVIOUS
<1> USE DEF Init
<1>1. MutexState /\ HeaderState
  BY DEF MutexState, HeaderState, Locked, Handing
<1>2. open_streams = {} /\ OwnStreams = {}
  BY DEF open_streams, OwnStreams
<1>3. StreamsFinite /\ StreamsOwned = 0
  BY <1>2, FS_EmptySet DEF StreamsFinite, StreamsOwned
<1>4. EntryOwned = 0 /\ SessionOwned = 0 /\ Len(processing) = 0
  BY DEF EntryOwned, SessionOwned, HeaderOwned, One
<1> QED
  BY <1>1, <1>3, <1>4 DEF OwnInv, Balance

LEMMA OwnStep == TypeInv /\ OwnInv /\ [Next]_vars => OwnInv'
<1> SUFFICES ASSUME TypeInv, OwnInv, [Next]_vars PROVE OwnInv'
  OBVIOUS
<1>0. TypeInv'
  BY TypeStep
<1>1. CASE UNCHANGED vars \/ dispatch_events
  <2>1. /\ UNCHANGED appVars
        /\ UNCHANGED <<flags, header, processing, bufs, wpc, wbuf, transport, reader, tpc>>
    BY <1>1 DEF vars, dispatch_events, workerVars, outVars, transportVars
  <2>2. HeaderState' /\ SessionOwned' = SessionOwned
    BY <2>1 DEF OwnInv, HeaderState, SessionOwned, HeaderOwned, One
  <2> QED
    BY <1>0, <2>1, <2>2, SessionBalance
<1>2. CASE \E t \in Threads : InCall(t) \/ Call(t)
  BY <1>0, <1>2, AppOwnership
<1>3. CASE process_blocks
  BY <1>0, <1>3, WorkerOwnership
<1>4. CASE pouch_uplink_start \/ pouch_uplink_fill \/ pouch_uplink_finish
  BY <1>0, <1>4, TransportOwnership
<1> QED
  BY <1>1, <1>2, <1>3, <1>4 DEF Next

(* The number of buffers in flight is the number of buffers that the entry block,
   the streams, the queues, the reader, the header and process_blocks own:
   whatever fails or is aborted, none leaks and none is freed or queued twice. *)
THEOREM BuffersAreOwnedOnce == Spec => []BuffersOwnedOnce
<1>1. TypeInv /\ OwnInv => BuffersOwnedOnce
  BY BalanceIsOwnership
<1> QED
  BY TypeInit, TypeStep, OwnInit, OwnStep, <1>1, PTL DEF Spec

-----------------------------------------------------------------------------
(* The blocks in a queue of buffers *)

LEMMA CarriedType == \A b \in Buffers : Carried(b) \in Seq(Blocks)
<1> SUFFICES ASSUME NEW b \in Buffers PROVE Carried(b) \in Seq(Blocks)
  OBVIOUS
<1>1. CASE b.type = "block"
  <2>1. b.blk \in Blocks
    BY <1>1 DEF Buffers
  <2> QED
    BY <1>1, <2>1 DEF Carried
<1>2. CASE b.type # "block"
  BY <1>2, EmptySeq DEF Carried
<1> QED
  BY <1>1, <1>2

CarriedSeq(q) == [i \in 1..Len(q) |-> Carried(q[i])]

LEMMA CarriedSeqType ==
    ASSUME NEW q \in Seq(Buffers)
    PROVE  CarriedSeq(q) \in Seq(Seq(Blocks)) /\ Len(CarriedSeq(q)) = Len(q)
<1>1. Len(q) \in Nat /\ \A i \in 1..Len(q) : q[i] \in Buffers
  BY LenProperties, ElementOfSeq
<1>2. \A i \in 1..Len(q) : Carried(q[i]) \in Seq(Blocks)
  BY <1>1, CarriedType
<1> QED
  BY <1>1, <1>2, IsASeq DEF CarriedSeq

LEMMA BlocksOfType ==
    ASSUME NEW q \in Seq(Buffers)
    PROVE  BlocksOf(q) \in Seq(Blocks)
<1>1. CarriedSeq(q) \in Seq(Seq(Blocks))
  BY CarriedSeqType
<1>2. BlocksOf(q) = FlattenSeq(CarriedSeq(q))
  BY DEF BlocksOf, CarriedSeq
<1> QED
  BY <1>1, <1>2, FlattenType

LEMMA BlocksOfEmpty == BlocksOf(<<>>) = <<>>
<1>1. CarriedSeq(<<>>) = <<>>
  BY DEF CarriedSeq
<1> QED
  BY <1>1, FlattenEmpty DEF BlocksOf, CarriedSeq

LEMMA BlocksOfAppend ==
    ASSUME NEW q \in Seq(Buffers), NEW b \in Buffers
    PROVE  BlocksOf(Append(q, b)) = BlocksOf(q) \o Carried(b)
<1> DEFINE r == Append(q, b)
           s == CarriedSeq(q)
           c == Carried(b)
<1>1. /\ r \in Seq(Buffers) /\ Len(q) \in Nat /\ Len(r) = Len(q) + 1
      /\ \A i \in 1..Len(q) : r[i] = q[i]
      /\ r[Len(q) + 1] = b
  BY AppendProperties, LenProperties
<1>2. s \in Seq(Seq(Blocks)) /\ c \in Seq(Blocks) /\ Len(s) = Len(q)
  BY CarriedSeqType, CarriedType
<1> HIDE DEF r, c
<1>3. CarriedSeq(r) = Append(s, c)
  <2>1. /\ Append(s, c) \in Seq(Seq(Blocks)) /\ Len(Append(s, c)) = Len(q) + 1
        /\ \A i \in 1..Len(q) : Append(s, c)[i] = s[i]
        /\ Append(s, c)[Len(q) + 1] = c
    BY <1>2, AppendProperties
  <2>2. CarriedSeq(r) \in Seq(Seq(Blocks)) /\ Len(CarriedSeq(r)) = Len(q) + 1
    BY <1>1, CarriedSeqType
  <2>3. \A i \in 1..Len(q) + 1 : CarriedSeq(r)[i] = Append(s, c)[i]
    <3> SUFFICES ASSUME NEW i \in 1..Len(q) + 1
                 PROVE  CarriedSeq(r)[i] = Append(s, c)[i]
      OBVIOUS
    <3>1. CarriedSeq(r)[i] = Carried(r[i])
      BY <1>1 DEF CarriedSeq
    <3>2. CASE i = Len(q) + 1
      BY <1>1, <2>1, <3>1, <3>2, Zenon DEF c
    <3>3. CASE i # Len(q) + 1
      <4>1. i \in 1..Len(q)
        BY <1>1, <3>3
      <4>2. s[i] = Carried(q[i])
        BY <4>1 DEF CarriedSeq
      <4> QED
        BY <1>1, <2>1, <3>1, <4>1, <4>2, Zenon
    <3> QED
      BY <3>2, <3>3
  <2> HIDE DEF s
  <2> QED
    BY <2>1, <2>2, <2>3, SeqEqual
<1> HIDE DEF s
<1>4. FlattenSeq(Append(s, c)) = FlattenSeq(s) \o c
  BY <1>2, FlattenAppend
<1> QED
  BY <1>3, <1>4, Zenon DEF BlocksOf, CarriedSeq, r, s, c

LEMMA BlocksOfHead ==
    ASSUME NEW q \in Seq(Buffers), q # <<>>
    PROVE  BlocksOf(q) = Carried(Head(q)) \o BlocksOf(Tail(q))
<1> DEFINE h == <<Carried(Head(q))>>
           s == CarriedSeq(Tail(q))
<1>1. /\ Len(q) \in Nat \ {0} /\ Head(q) = q[1] /\ Head(q) \in Buffers
      /\ Tail(q) \in Seq(Buffers) /\ Len(Tail(q)) = Len(q) - 1
      /\ \A i \in 1..Len(Tail(q)) : Tail(q)[i] = q[i + 1]
  BY HeadTailProperties, EmptySeq
<1>2. /\ Carried(Head(q)) \in Seq(Blocks)
      /\ h \in Seq(Seq(Blocks)) /\ Len(h) = 1 /\ h[1] = Carried(q[1])
      /\ s \in Seq(Seq(Blocks)) /\ Len(s) = Len(q) - 1
  <2>1. Carried(Head(q)) \in Seq(Blocks)
    BY <1>1, CarriedType
  <2>2. s \in Seq(Seq(Blocks)) /\ Len(s) = Len(q) - 1
    BY <1>1, CarriedSeqType
  <2> HIDE DEF s
  <2> QED
    BY <1>1, <2>1, <2>2
<1>3. CarriedSeq(q) = h \o s
  <2> HIDE DEF h, s
  <2>1. /\ h \o s \in Seq(Seq(Blocks)) /\ Len(h \o s) = Len(q)
        /\ \A i \in 1..Len(q) : (h \o s)[i] = IF i <= 1 THEN h[i] ELSE s[i - 1]
    <3>1. h \in Seq(Seq(Blocks)) /\ s \in Seq(Seq(Blocks))
      BY <1>2
    <3>2. /\ h \o s \in Seq(Seq(Blocks)) /\ Len(h \o s) = Len(h) + Len(s)
          /\ \A i \in 1..Len(h) + Len(s) :
                 (h \o s)[i] = IF i <= Len(h) THEN h[i] ELSE s[i - Len(h)]
      BY <3>1, ConcatProperties
    <3>3. Len(h) + Len(s) = Len(q)
      BY <1>1, <1>2
    <3> QED
      BY <1>2, <3>2, <3>3
  <2>2. CarriedSeq(q) \in Seq(Seq(Blocks)) /\ Len(CarriedSeq(q)) = Len(q)
    BY CarriedSeqType
  <2>3. \A i \in 1..Len(q) : CarriedSeq(q)[i] = (h \o s)[i]
    <3> SUFFICES ASSUME NEW i \in 1..Len(q) PROVE CarriedSeq(q)[i] = (h \o s)[i]
      OBVIOUS
    <3>1. CarriedSeq(q)[i] = Carried(q[i])
      BY DEF CarriedSeq
    <3>2. CASE i = 1
      BY <1>1, <1>2, <2>1, <3>1, <3>2
    <3>3. CASE i # 1
      <4>1. i - 1 \in 1..Len(Tail(q)) /\ Tail(q)[i - 1] = q[i] /\ ~(i <= 1)
        BY <1>1, <3>3
      <4>2. s[i - 1] = Carried(Tail(q)[i - 1])
        BY <4>1 DEF CarriedSeq, s
      <4> QED
        BY <2>1, <3>1, <4>1, <4>2
    <3> QED
      BY <3>2, <3>3
  <2> QED
    BY <2>1, <2>2, <2>3, SeqEqual
<1> HIDE DEF s, h
<1>4. FlattenSeq(h \o s) = FlattenSeq(h) \o FlattenSeq(s)
  BY <1>2, FlattenConcat
<1>5. FlattenSeq(h) = Carried(Head(q))
  BY FlattenOne DEF h
<1> QED
  BY <1>3, <1>4, <1>5, Zenon DEF BlocksOf, CarriedSeq, s

-----------------------------------------------------------------------------
(* The line of blocks *)

Reading == IF reader = NoBuf THEN <<>> ELSE Carried(reader.buf)
Holding == IF wbuf = NoBuf THEN <<>> ELSE Carried(wbuf)

LineTypes ==
    /\ Reading \in Seq(Blocks) /\ BlocksOf(transport) \in Seq(Blocks)
    /\ Holding \in Seq(Blocks) /\ processing \in Seq(Blocks)
    /\ Pulling \in Seq(Blocks) /\ Encrypting \in Seq(Blocks) /\ Waiting \in Seq(Blocks)

LEMMA LineType == TypeInv => LineTypes
<1> SUFFICES ASSUME TypeInv PROVE LineTypes
  OBVIOUS
<1>1. /\ transport \in Seq(Buffers) /\ processing \in Seq(Blocks)
      /\ reader \in Readers \union {NoBuf} /\ wbuf \in Buffers \union {NoBuf}
  BY DEF TypeInv, TypeOK, SharedTypes, OutTypes, WorkerTypes
<1>2. BlocksOf(transport) \in Seq(Blocks)
  BY <1>1, BlocksOfType
<1>3. Reading \in Seq(Blocks)
  <2>1. reader # NoBuf => reader.buf \in Buffers
    BY <1>1 DEF Readers
  <2> QED
    BY <2>1, CarriedType, EmptySeq DEF Reading
<1>4. Holding \in Seq(Blocks)
  BY <1>1, CarriedType, EmptySeq DEF Holding
<1>5. Pulling = Reading \o BlocksOf(transport) /\ Encrypting = Holding \o processing
  BY Zenon DEF Pulling, Encrypting, Reading, Holding
<1>6. Pulling \in Seq(Blocks) /\ Encrypting \in Seq(Blocks)
  BY <1>1, <1>2, <1>3, <1>4, <1>5, ConcatProperties
<1>7. Waiting \in Seq(Blocks)
  BY <1>6, ConcatProperties DEF Waiting
<1> QED
  BY <1>1, <1>2, <1>3, <1>4, <1>6, <1>7 DEF LineTypes

LEMMA LineTypeNext == TypeInv' => LineTypes'
  BY LineType, PTL

LEMMA LineParts ==
    /\ Pulling = Reading \o BlocksOf(transport) /\ Encrypting = Holding \o processing
    /\ Waiting = Pulling \o Encrypting
  BY Zenon DEF Pulling, Encrypting, Reading, Holding, Waiting

LEMMA LinePartsNext ==
    /\ Pulling' = Reading' \o BlocksOf(transport)' /\ Encrypting' = Holding' \o processing'
    /\ Waiting' = Pulling' \o Encrypting'
  BY Zenon DEF Pulling, Encrypting, Reading, Holding, Waiting

(* Nothing that holds a block changes. *)
LEMMA WaitingSame ==
    ASSUME UNCHANGED <<reader, transport, wbuf, processing>>
    PROVE  Waiting' = Waiting /\ Pulling' = Pulling /\ Encrypting' = Encrypting
  BY DEF Waiting, Pulling, Encrypting, Carried, BlocksOf

(* uplink_enqueue puts a block at the end of the line. *)
LEMMA WaitingAppend ==
    ASSUME TypeInv, NEW b \in Blocks, processing' = Append(processing, b),
           UNCHANGED <<reader, transport, wbuf>>
    PROVE  Waiting' = Append(Waiting, b)
<1>1. Pulling' = Pulling /\ Holding' = Holding
  BY DEF Pulling, Holding, Carried, BlocksOf
<1>2. /\ Pulling \in Seq(Blocks) /\ Holding \in Seq(Blocks) /\ Encrypting \in Seq(Blocks)
      /\ processing \in Seq(Blocks)
  BY LineType DEF LineTypes
<1>3. Encrypting = Holding \o processing /\ Encrypting' = Holding \o Append(processing, b)
  BY <1>1, LineParts, LinePartsNext
<1>4. Holding \o Append(processing, b) = Append(Holding \o processing, b)
  BY <1>2, ConcatAppend
<1>5. Encrypting' = Append(Encrypting, b)
  BY <1>3, <1>4, Zenon
<1>6. Pulling \o Append(Encrypting, b) = Append(Pulling \o Encrypting, b)
  BY <1>2, ConcatAppend
<1> QED
  BY <1>1, <1>5, <1>6, LineParts, LinePartsNext, Zenon

(* process_blocks takes the first plaintext block: it is encrypted or lost. *)
LEMMA WaitingTaken ==
    ASSUME TypeInv, wbuf = NoBuf, processing # <<>>, processing' = Tail(processing),
           UNCHANGED <<reader, transport>>
    PROVE  /\ wbuf' # NoBuf /\ wbuf' = Encrypted(Head(processing)) => Waiting' = Waiting
           /\ wbuf' = NoBuf =>
                  /\ Waiting = (Pulling \o <<Head(processing)>>) \o Tail(processing)
                  /\ Waiting' = Pulling \o Tail(processing)
           /\ Pulling' = Pulling
<1> DEFINE h == <<Head(processing)>>
           r == Tail(processing)
<1>1. Pulling' = Pulling
  BY DEF Pulling, Carried, BlocksOf
<1>2. Pulling \in Seq(Blocks) /\ processing \in Seq(Blocks)
  BY LineType DEF LineTypes
<1>3. h \in Seq(Blocks) /\ r \in Seq(Blocks) /\ Head(processing) \in Blocks
  BY <1>2, HeadTailProperties
<1>4. processing = h \o r
  <2>1. <<>> \o processing = Append(<<>>, Head(processing)) \o Tail(processing)
    BY <1>2, EmptySeq, ConcatMoveHead
  <2>2. <<>> \o processing = processing
    BY <1>2, ConcatEmptySeq
  <2>3. Append(<<>>, Head(processing)) = h
    OBVIOUS
  <2> QED
    BY <2>1, <2>2, <2>3
<1>5. Encrypting = processing
  BY <1>2, ConcatEmptySeq DEF Encrypting
<1>6. ASSUME wbuf' = Encrypted(Head(processing)), wbuf' # NoBuf PROVE Waiting' = Waiting
  <2>1. Holding' = h
    BY <1>6 DEF Holding, Carried, Encrypted
  <2> HIDE DEF h, r
  <2>2. Encrypting' = h \o r
    BY <2>1, LinePartsNext DEF r
  <2> QED
    BY <1>1, <1>4, <1>5, <2>2, LineParts, LinePartsNext, Zenon
<1>7. ASSUME wbuf' = NoBuf
      PROVE  Waiting = (Pulling \o h) \o r /\ Waiting' = Pulling \o r
  <2>1. Holding' = <<>>
    BY <1>7 DEF Holding
  <2> HIDE DEF h
  <2>2. <<>> \o r = r
    BY <1>3, ConcatEmptySeq
  <2> HIDE DEF r
  <2>3. Encrypting' = r
    BY <2>1, <2>2, LinePartsNext DEF r
  <2>4. (Pulling \o h) \o r = Pulling \o (h \o r)
    BY <1>2, <1>3, ConcatAssociative, SMTT(30)
  <2>5. Waiting = Pulling \o (h \o r)
    BY <1>4, <1>5, LineParts, Zenon
  <2> QED
    BY <1>1, <2>3, <2>4, <2>5, LinePartsNext, Zenon
<1> QED
  BY <1>1, <1>6, <1>7

(* process_blocks puts a header, or its encrypted block, into the transport's queue. *)
LEMMA WaitingPut ==
    ASSUME TypeInv, UNCHANGED <<reader, processing>>,
           \/ /\ header \in Buffers /\ header.type = "header" /\ wbuf' = wbuf
              /\ transport' = Append(transport, header)
           \/ /\ wbuf \in Buffers /\ wbuf # NoBuf /\ wbuf' = NoBuf
              /\ transport' = Append(transport, wbuf)
    PROVE  Waiting' = Waiting
<1> DEFINE q == BlocksOf(transport)
<1>0. transport \in Seq(Buffers)
  BY DEF TypeInv, TypeOK, OutTypes
<1>1. Reading' = Reading
  BY DEF Reading, Carried
<1>2. /\ Reading \in Seq(Blocks) /\ q \in Seq(Blocks) /\ Holding \in Seq(Blocks)
      /\ processing \in Seq(Blocks) /\ Pulling \in Seq(Blocks)
  BY LineType DEF LineTypes
<1>3. CASE header \in Buffers /\ header.type = "header" /\ wbuf' = wbuf
           /\ transport' = Append(transport, header)
  <2>1. BlocksOf(transport') = q \o Carried(header) /\ Carried(header) = <<>>
    BY <1>0, <1>3, BlocksOfAppend DEF Carried
  <2> HIDE DEF q
  <2>2. BlocksOf(transport') = q
    BY <1>2, <2>1, ConcatEmptySeq
  <2>3. Pulling' = Pulling
    <3>1. BlocksOf(transport)' = BlocksOf(transport')
      BY Zenon DEF BlocksOf, Carried
    <3> QED
      BY <1>1, <2>2, <3>1, LineParts, LinePartsNext, Zenon DEF q
  <2>4. Encrypting' = Encrypting
    BY <1>3 DEF Encrypting, Carried
  <2> QED
    BY <2>3, <2>4, LineParts, LinePartsNext
<1>4. CASE wbuf \in Buffers /\ wbuf # NoBuf /\ wbuf' = NoBuf
           /\ transport' = Append(transport, wbuf)
  <2>1. BlocksOf(transport') = q \o Holding /\ Holding' = <<>>
    BY <1>0, <1>4, BlocksOfAppend DEF Holding
  <2> HIDE DEF q
  <2>2. Pulling' = Reading \o (q \o Holding)
    BY <1>1, <2>1, LinePartsNext
  <2>3. (Reading \o q) \o Holding = Reading \o (q \o Holding)
    BY <1>2, ConcatAssociative, SMTT(30)
  <2>4. Pulling' = Pulling \o Holding
    BY <2>2, <2>3, LineParts, Zenon DEF q
  <2>5. Encrypting' = processing
    BY <1>2, <2>1, LinePartsNext, ConcatEmptySeq
  <2>6. (Pulling \o Holding) \o processing = Pulling \o (Holding \o processing)
    <3>1. Pulling \in Seq(Blocks) /\ Holding \in Seq(Blocks) /\ processing \in Seq(Blocks)
      BY <1>2
    <3> QED
      BY <3>1, ConcatAssociative, SMTT(30)
  <2> QED
    BY <2>4, <2>5, <2>6, LineParts, LinePartsNext, Zenon
<1> QED
  BY <1>3, <1>4

(* The transport takes a buffer, pulls it to its end, or throws everything away. *)
LEMMA WaitingNext ==
    ASSUME TypeInv, UNCHANGED <<wbuf, processing>>, reader = NoBuf, transport # <<>>,
           reader' # NoBuf, reader'.buf = Head(transport), transport' = Tail(transport)
    PROVE  Waiting' = Waiting
<1> DEFINE q == BlocksOf(transport)
<1>0. transport \in Seq(Buffers) /\ q \in Seq(Blocks)
  BY LineType DEF TypeInv, TypeOK, OutTypes, LineTypes
<1>1. Encrypting' = Encrypting
  BY DEF Encrypting, Carried
<1>2. Reading = <<>> /\ Reading' = Carried(Head(transport))
  BY DEF Reading, Carried
<1>3. q = Carried(Head(transport)) \o BlocksOf(Tail(transport))
  BY <1>0, BlocksOfHead
<1>4. BlocksOf(transport)' = BlocksOf(Tail(transport))
  BY DEF BlocksOf, Carried
<1> HIDE DEF q
<1>5. Pulling' = q
  BY <1>2, <1>3, <1>4, LinePartsNext, Zenon
<1>6. Pulling = q
  BY <1>0, <1>2, LineParts, ConcatEmptySeq DEF q
<1> QED
  BY <1>1, <1>5, <1>6, LineParts, LinePartsNext, Zenon

LEMMA WaitingPulled ==
    ASSUME TypeInv, UNCHANGED <<wbuf, processing, transport>>, reader # NoBuf, reader' = NoBuf
    PROVE  /\ reader.buf.type = "block" =>
                  /\ Waiting # <<>> /\ Head(Waiting) = reader.buf.blk
                  /\ Tail(Waiting) = Waiting'
                  /\ Waiting = <<reader.buf.blk>> \o Waiting'
           /\ reader.buf.type # "block" => Waiting' = Waiting
<1> DEFINE q == BlocksOf(transport)
<1>1. /\ q \in Seq(Blocks) /\ Encrypting \in Seq(Blocks) /\ Reading \in Seq(Blocks)
      /\ reader.buf \in Buffers
  BY LineType DEF LineTypes, TypeInv, TypeOK, OutTypes, Readers
<1>2. Encrypting' = Encrypting /\ q' = q /\ Reading' = <<>>
  BY DEF Encrypting, Carried, BlocksOf, Reading
<1> HIDE DEF q
<1>3. Pulling' = q
  BY <1>1, <1>2, LinePartsNext, ConcatEmptySeq DEF q
<1>4. Waiting' = q \o Encrypting
  BY <1>2, <1>3, LinePartsNext
<1>5. Waiting = Reading \o (q \o Encrypting)
  <2>1. (Reading \o q) \o Encrypting = Reading \o (q \o Encrypting)
    BY <1>1, ConcatAssociative, SMTT(30)
  <2> QED
    BY <2>1, LineParts, Zenon DEF q
<1>6. q \o Encrypting \in Seq(Blocks)
  BY <1>1, ConcatProperties
<1>7. CASE reader.buf.type = "block"
  <2> DEFINE b == reader.buf.blk
             r == q \o Encrypting
  <2>1. Reading = <<b>> /\ b \in Blocks
    BY <1>1, <1>7 DEF Reading, Carried, Buffers
  <2>2. r \in Seq(Blocks)
    BY <1>6
  <2>3. Waiting = <<b>> \o r /\ Waiting' = r
    BY <1>4, <1>5, <2>1
  <2> HIDE DEF b, r
  <2>4. /\ <<b>> \o r # <<>> /\ Head(<<b>> \o r) = b /\ Tail(<<b>> \o r) = r
    BY <2>1, <2>2, OneThenRest
  <2> QED
    BY <1>7, <2>3, <2>4, Zenon DEF b
<1>8. CASE reader.buf.type # "block"
  <2>1. Reading = <<>>
    BY <1>8 DEF Reading, Carried
  <2> DEFINE r == q \o Encrypting
  <2>2. r \in Seq(Blocks)
    BY <1>6
  <2> HIDE DEF r
  <2>3. <<>> \o r = r
    BY <2>2, ConcatEmptySeq
  <2> QED
    BY <1>4, <1>5, <2>1, <2>3, <1>8, Zenon DEF r
<1> QED
  BY <1>7, <1>8

LEMMA WaitingFlushed ==
    ASSUME TypeInv, UNCHANGED <<wbuf, processing>>, reader' = NoBuf, transport' = <<>>
    PROVE  Waiting' = Encrypting
<1>1. Encrypting' = Encrypting /\ Reading' = <<>>
  BY DEF Encrypting, Carried, Reading
<1>2. BlocksOf(transport)' = <<>>
  BY BlocksOfEmpty, Zenon DEF BlocksOf, Carried
<1>3. <<>> \o <<>> = <<>> /\ <<>> \o Encrypting = Encrypting
  BY LineType, EmptySeq, ConcatEmptySeq DEF LineTypes
<1> QED
  BY <1>1, <1>2, <1>3, LinePartsNext, Zenon

-----------------------------------------------------------------------------
(* The inductive invariant of the refinement *)

Running == {"start", "crypto", "pouch", "header", "started", "open", "fill", "check_open",
            "check_empty", "end"}

HeaderKind == header # NoBuf => header.type = "header"

(* When the transport is told NO_MORE_DATA nothing is left to pull.  CLOSED is set
   only on top of CLOSING, if no finish can clear the flags in between. *)
ClosedState ==
    /\ tpc \in {"end", "ended"} => reader = NoBuf /\ transport = <<>>
    /\ Cooperative /\ ("closed" \in flags \/ wpc = "close") => "closing" \in flags

(* SESSION_ACTIVE is set in a session, and until pouch_uplink_finish cleared it. *)
ActiveState ==
    "active" \in flags => tpc \in Running \/ (tpc \in Finishing /\ Cooperative)

(* On cooperative threads process_blocks stays in the session that it has found
   active; otherwise the pouch is closed while the transport finishes, which keeps
   it from taking a block. *)
LoopState ==
    /\ Cooperative /\ wpc \in Looping => tpc \in {"crypto", "open"}
    /\ tpc \in Finishing => Cooperative \/ "closed" \in flags

(* When nothing fails, a session has a key from the moment that its crypto session
   is active. *)
KeyState ==
    ~MayFail => /\ tpc \in Running => starts > 0
                /\ tpc \in Running \ {"start", "crypto"} => crypto.active /\ crypto.key # 0

LineInv == HeaderKind /\ ClosedState /\ ActiveState /\ LoopState /\ KeyState

LEMMA LineInit == Init => LineInv
  BY DEF Init, LineInv, HeaderKind, ClosedState, ActiveState, LoopState, KeyState, Running,
         Looping, Finishing

(* Steps of the application's threads *)
LEMMA AppFlags ==
    ASSUME NEW t \in Threads, InCall(t) \/ Call(t)
    PROVE  flags' = flags \/ (close_begin(t) /\ flags' = flags \union {"closing"})
<1>1. CASE entry_lock(t) \/ EntryWrite(t)
  BY <1>1, Zenon DEF entry_lock, EntryWrite, entry_write, entry_write_done,
                     entry_block_full, entry_write_retry
<1>2. CASE close_begin(t)
  BY <1>2, Zenon DEF close_begin
<1>3. CASE Close(t) \/ close_lock(t)
  BY <1>3, Zenon DEF Close, close_lock, close_lock_timeout, close_block, close_block_submit,
                     close_submit
<1>4. CASE \/ stream_open(t) \/ stream_close(t) \/ StreamWrite(t) \/ StreamClose(t)
           \/ \E n \in 1..MaxWrite : stream_write_begin(t, n)
  BY <1>4, Zenon DEF stream_open, stream_close, StreamWrite, stream_write, stream_write_short,
                     stream_block_full, stream_submit, StreamClose, stream_close_enqueue,
                     stream_close_submit, stream_write_begin
<1> QED
  BY <1>1, <1>2, <1>3, <1>4 DEF InCall, Call

LEMMA LineStep == TypeInv /\ OwnInv /\ LineInv /\ [Next]_vars => LineInv'
<1> SUFFICES ASSUME TypeInv, OwnInv, LineInv, [Next]_vars PROVE LineInv'
  OBVIOUS
<1> USE DEF LineInv
<1>0. HeaderState
  BY DEF OwnInv
<1>1. CASE UNCHANGED vars \/ dispatch_events
  <2>1. UNCHANGED <<header, flags, tpc, reader, transport, starts, crypto, wpc>>
    BY <1>1, Zenon DEF vars, dispatch_events, workerVars, outVars, transportVars
  <2> QED
    BY <2>1 DEF HeaderKind, ClosedState, ActiveState, LoopState, KeyState
<1>2. CASE \E t \in Threads : InCall(t) \/ Call(t)
  <2>1. PICK t \in Threads : InCall(t) \/ Call(t)
    BY <1>2
  <2>2. UNCHANGED <<header, tpc, reader, transport, starts, crypto, wpc>>
    BY <2>1, AppKeepsSession DEF otherThanApp, workerVars, outVars, transportVars
  <2>3. flags' = flags \/ flags' = flags \union {"closing"}
    BY <2>1, AppFlags
  <2> QED
    BY <2>2, <2>3 DEF HeaderKind, ClosedState, ActiveState, LoopState, KeyState
<1>3. CASE process_blocks
  <2>0. UNCHANGED <<tpc, reader, starts>>
    BY <1>3, Zenon DEF process_blocks, work_start, process_loop, process_loop_open,
                  process_loop_queue, process_encrypt, process_encrypt_fail, process_header,
                  process_header_null, process_put, process_exit, process_close,
                  otherThanWorker, transportVars
  <2>1. CASE \/ work_start \/ process_loop \/ process_loop_open \/ process_loop_queue
             \/ process_exit \/ process_close
    <3>1. UNCHANGED <<header, transport, crypto>>
      BY <2>1 DEF work_start, process_loop, process_loop_open, process_loop_queue,
                  process_exit, process_close
    <3>2. /\ flags' = flags \/ (wpc = "close" /\ flags' = flags \union {"closed"})
          /\ wpc' = "close" => pouch_is_closing
      BY <2>1 DEF work_start, process_loop, process_loop_open, process_loop_queue,
                  process_exit, process_close, WorkerAt
    <3>3. wpc' \in Looping => wpc \in Looping \/ (session_is_active /\ WorkerRuns)
      BY <2>1 DEF work_start, process_loop, process_loop_open, process_loop_queue,
                  process_exit, process_close, WorkerAt, Looping
    <3>4. LoopState'
      BY <2>0, <3>2, <3>3 DEF LoopState, ActiveState, session_is_active, WorkerRuns, Finishing,
                              Running, TransportBlocks
    <3> QED
      BY <2>0, <3>1, <3>2, <3>4 DEF HeaderKind, ClosedState, ActiveState, KeyState,
                                    pouch_is_closing
  <2>2. CASE process_encrypt \/ process_encrypt_fail
    <3>1. /\ UNCHANGED <<header, transport, flags>> /\ wpc' \notin Looping /\ wpc' # "close"
          /\ crypto'.active = crypto.active /\ crypto'.key = crypto.key
      BY <2>2 DEF process_encrypt, process_encrypt_fail, TypeInv, TypeOK, TransportTypes,
                  Looping
    <3> QED
      BY <2>0, <3>1 DEF HeaderKind, ClosedState, ActiveState, LoopState, KeyState
  <2>3. CASE process_header \/ process_header_null \/ process_put
    <3>1. /\ UNCHANGED <<flags, crypto>> /\ wpc' \notin Looping /\ wpc' # "close"
          /\ header' = header \/ header' = NoBuf
          /\ wpc \in Carries
      BY <2>3 DEF process_header, process_header_null, process_put, WorkerAt, Carries, Looping
    <3>2. tpc \notin {"end", "ended"}
      BY <1>0, <3>1 DEF HeaderState, Carries
    <3> QED
      BY <2>0, <3>1, <3>2 DEF HeaderKind, ClosedState, ActiveState, LoopState, KeyState
  <2> QED
    BY <1>3, <2>1, <2>2, <2>3 DEF process_blocks
<1>4. CASE pouch_uplink_start
  <2>0. UNCHANGED wpc /\ UNCHANGED <<reader, transport>>
    BY <1>4, Zenon DEF pouch_uplink_start, start_begin, start_session, start_crypto,
           start_crypto_fail, start_pouch, start_header, start_header_fail, start_done,
           otherThanTransport, workerVars, outVars
  <2>1. starts \in Nat
    BY DEF TypeInv, TypeOK, TransportTypes
  <2>2. LoopState'
    <3>1. Cooperative => wpc = "idle"
      BY <1>4 DEF pouch_uplink_start, start_begin, start_session, start_crypto,
             start_crypto_fail, start_pouch, start_header, start_header_fail, start_done,
             TransportAt, TransportRuns
    <3>2. tpc' \notin Finishing
      BY <1>4 DEF pouch_uplink_start, start_begin, start_session, start_crypto,
             start_crypto_fail, start_pouch, start_header, start_header_fail, start_done,
             Finishing
    <3> QED
      BY <2>0, <3>1, <3>2 DEF LoopState, Looping
  <2>3. CASE start_begin \/ start_session \/ start_crypto_fail \/ start_header_fail \/ start_done
    <3> USE <2>0, <2>1, <2>3 DEF start_begin, start_session, start_crypto_fail,
                                 start_header_fail, start_done, TransportAt
    <3>1. HeaderKind'
      BY DEF HeaderKind
    <3>2. ClosedState'
      BY DEF ClosedState
    <3>3. ActiveState'
      BY DEF ActiveState, Running, Finishing
    <3>4. KeyState'
      BY DEF KeyState, Running
    <3> QED
      BY <2>2, <3>1, <3>2, <3>3, <3>4
  <2>4. CASE start_crypto
    <3>1. UNCHANGED <<header, flags, starts>> /\ tpc = "crypto" /\ tpc' = "pouch"
      BY <2>4 DEF start_crypto, TransportAt
    <3>2. ~MayFail => crypto'.active /\ crypto'.key = starts
      BY <2>4 DEF start_crypto, TypeInv, TypeOK, TransportTypes
    <3>3. KeyState'
      BY <2>0, <2>1, <3>1, <3>2 DEF KeyState, Running
    <3> QED
      BY <2>0, <2>2, <3>1, <3>3 DEF HeaderKind, ClosedState, ActiveState, Running
  <2>5. CASE start_pouch
    <3>1. UNCHANGED <<header, flags, starts>> /\ tpc = "pouch" /\ tpc' = "header"
          /\ crypto'.active = crypto.active /\ crypto'.key = crypto.key
      BY <2>5 DEF start_pouch, TransportAt, TypeInv, TypeOK, TransportTypes
    <3> QED
      BY <2>0, <2>2, <3>1 DEF HeaderKind, ClosedState, ActiveState, KeyState, Running
  <2>6. CASE start_header
    <3>1. UNCHANGED <<crypto, flags, starts>> /\ tpc = "header" /\ tpc' = "started"
          /\ header'.type = "header"
      BY <2>6 DEF start_header, TransportAt, Header
    <3> QED
      BY <2>0, <2>2, <3>1 DEF HeaderKind, ClosedState, ActiveState, KeyState, Running
  <2> QED
    BY <1>4, <2>3, <2>4, <2>5, <2>6 DEF pouch_uplink_start
<1>5. CASE pouch_uplink_fill
  <2>0. UNCHANGED <<wpc, header, starts>>
    BY <1>5, Zenon DEF pouch_uplink_fill, fill_begin, fill_next, fill_copy_part, fill_copy_rest,
           fill_check_open, fill_check_empty, fill_end, otherThanTransport, workerVars
  <2>1. LoopState'
    <3>1. Cooperative => wpc = "idle"
      BY <1>5 DEF pouch_uplink_fill, fill_begin, fill_next, fill_copy_part, fill_copy_rest,
             fill_check_open, fill_check_empty, fill_end, TransportAt, TransportRuns
    <3>2. tpc' \notin Finishing
      BY <1>5 DEF pouch_uplink_fill, fill_begin, fill_next, fill_copy_part, fill_copy_rest,
             fill_check_open, fill_check_empty, fill_end, TransportAt, Finishing
    <3> QED
      BY <2>0, <3>1, <3>2 DEF LoopState, Looping
  <2>2. CASE fill_end
    <3>1. /\ flags' = flags \ {"active"} /\ tpc = "end" /\ tpc' = "ended"
          /\ UNCHANGED <<reader, transport>>
      BY <2>2 DEF fill_end, end_session, TransportAt, outVars
    <3> QED
      BY <2>0, <2>1, <3>1 DEF HeaderKind, ClosedState, ActiveState, KeyState, Running
  <2>3. CASE \/ fill_begin \/ fill_next \/ (\E n \in 1..(BufUnits - 1) : fill_copy_part(n))
             \/ fill_copy_rest \/ fill_check_open \/ fill_check_empty
    <3>1. UNCHANGED <<flags, crypto>>
      BY <2>3, Zenon DEF fill_begin, fill_next, fill_copy_part, fill_copy_rest, fill_check_open,
                  fill_check_empty
    <3>2. tpc \in Running \ {"start", "crypto"} /\ tpc' \in Running \ {"start", "crypto"}
          /\ tpc' # "ended"
      BY <2>3 DEF fill_begin, fill_next, fill_copy_part, fill_copy_rest, fill_check_open,
                  fill_check_empty, TransportAt, Running
    <3>3. tpc' = "end" => reader' = NoBuf /\ transport' = <<>>
      BY <2>3 DEF fill_begin, fill_next, fill_copy_part, fill_copy_rest, fill_check_open,
                  fill_check_empty, TransportAt, outVars
    <3> QED
      BY <2>0, <2>1, <3>1, <3>2, <3>3 DEF HeaderKind, ClosedState, ActiveState, KeyState
  <2> QED
    BY <1>5, <2>2, <2>3 DEF pouch_uplink_fill
<1>6. CASE pouch_uplink_finish
  <2>0. wpc' = wpc /\ (header' = header \/ header' = NoBuf)
    BY <1>6 DEF pouch_uplink_finish, finish_flush, finish_id, finish_clear, finish_end,
                otherThanTransport, workerVars
  <2>1. Cooperative => wpc = "idle"
    BY <1>6 DEF pouch_uplink_finish, finish_flush, finish_id, finish_clear, finish_end,
                TransportAt, TransportRuns
  <2>2. CASE finish_flush
    <3>1. /\ tpc' = "finish_id" /\ UNCHANGED flags
          /\ tpc = "ended" \/ (tpc = "open" /\ MayAbort)
      BY <2>2 DEF finish_flush, TransportAt
    <3>2. tpc = "ended" \/ Cooperative
      BY <3>1, ConstantsAssumption
    <3>3. ActiveState' /\ LoopState'
      BY <1>0, <2>0, <2>1, <3>1, <3>2 DEF ActiveState, LoopState, HeaderState, Running,
                                          Finishing, Looping
    <3> QED
      BY <2>0, <3>1, <3>3 DEF HeaderKind, ClosedState, KeyState, Running
  <2>3. CASE finish_id \/ finish_clear \/ finish_end
    <3>1. /\ tpc \in Finishing \union {"finish_end"}
          /\ tpc' \in {"finish_clear", "finish_end", "none"}
          /\ tpc' # "finish_clear" => "active" \notin flags'
          /\ tpc' = "finish_clear" => tpc \in Finishing /\ flags' = flags
      BY <2>3 DEF finish_id, finish_clear, finish_end, end_session, TransportAt, Finishing
    <3>2. "closed" \in flags' => "closed" \in flags /\ ("closing" \in flags => "closing" \in flags')
      BY <2>3 DEF finish_id, finish_clear, finish_end, end_session
    <3>3. ActiveState' /\ LoopState'
      BY <2>0, <2>1, <3>1, <3>2 DEF ActiveState, LoopState, Running, Finishing, Looping
    <3> QED
      BY <2>0, <2>1, <3>1, <3>2, <3>3 DEF HeaderKind, ClosedState, KeyState, Running, Finishing
  <2> QED
    BY <1>6, <2>2, <2>3 DEF pouch_uplink_finish
<1> QED
  BY <1>1, <1>2, <1>3, <1>4, <1>5, <1>6 DEF Next

-----------------------------------------------------------------------------
(* The uplink implements UplinkService. *)

Session ==
    /\ tpc \in {"none", "finish_end"} => ServiceSession = "none"
    /\ tpc \in {"start", "crypto", "pouch", "header", "started"} => ServiceSession = "starting"
    /\ tpc \in {"open", "fill", "check_open", "check_empty", "end"} => ServiceSession = "open"
    /\ tpc \in {"ended", "finish_id", "finish_clear"} => ServiceSession = "ending"

LEMMA SessionIs == Session
  BY DEF Session, ServiceSession

LEMMA SessionIsNext == Session'
  BY SessionIs, PTL

(* A step that the service does not see *)
LEMMA Stutter ==
    ASSUME ServiceSession' = ServiceSession, ServiceNumber' = ServiceNumber,
           "closing" \in flags' <=> "closing" \in flags, Waiting' = Waiting, sent' = sent
    PROVE  UNCHANGED Service!vars
<1>1. pouch_is_closing' = pouch_is_closing
  BY DEF pouch_is_closing
<1> QED
  BY <1>1 DEF Service!vars

(* Steps of the application's threads: uplink_enqueue and pouch_uplink_close *)
LEMMA AppImplements ==
    ASSUME TypeInv, TypeInv', NEW t \in Threads, InCall(t) \/ Call(t)
    PROVE  Service!Next \/ UNCHANGED Service!vars
<1>1. UNCHANGED <<tpc, id, reader, transport, wbuf, sent>>
  BY AppKeepsSession DEF otherThanApp, workerVars, outVars, transportVars
<1>2. ServiceSession' = ServiceSession /\ ServiceNumber' = ServiceNumber
  BY <1>1 DEF ServiceSession, ServiceNumber
<1>3. CASE \E b : processing' = Append(processing, b) /\ b \in Blocks /\ flags' = flags
  <2>1. PICK b \in Blocks : processing' = Append(processing, b)
    BY <1>3
  <2>2. Waiting' = Append(Waiting, b)
    BY <1>1, <2>1, WaitingAppend
  <2>3. Waiting \in Seq(Blocks)
    BY LineType DEF LineTypes
  <2>4. Len(Waiting') > 0 /\ Waiting'[Len(Waiting')] = b
    BY <2>2, <2>3, AppendProperties, LenProperties
  <2>5. pouch_is_closing' = pouch_is_closing
    BY <1>3 DEF pouch_is_closing
  <2>6. Service!Submit(b)
    BY <1>1, <1>2, <2>2, <2>5 DEF Service!Submit
  <2> QED
    BY <2>4, <2>6 DEF Service!Next
<1>4. CASE processing' = processing
  <2>1. Waiting' = Waiting
    BY <1>1, <1>4, WaitingSame
  <2>2. CASE flags' = flags
    BY <1>1, <1>2, <2>1, <2>2, Stutter
  <2>3. CASE close_begin(t) /\ flags' = flags \union {"closing"}
    <3>1. pouch_is_closing = FALSE /\ pouch_is_closing' = TRUE
      BY <2>3 DEF close_begin, pouch_is_closing
    <3>2. Service!Close
      BY <1>1, <1>2, <2>1, <3>1 DEF Service!Close
    <3> QED
      BY <3>2 DEF Service!Next
  <2> QED
    BY <2>2, <2>3, AppFlags
<1>5. \/ processing' = processing
      \/ \E b : processing' = Append(processing, b) /\ b \in Blocks /\ flags' = flags
  <2>1. CASE entry_lock(t) \/ entry_write(t) \/ entry_write_retry(t)
    BY <2>1, Zenon DEF entry_lock, entry_write, entry_write_retry
  <2>2. CASE close_begin(t) \/ close_lock(t) \/ close_lock_timeout(t) \/ close_block_submit(t)
             \/ close_submit(t)
    BY <2>2, Zenon DEF close_begin, close_lock, close_lock_timeout, close_block_submit,
                       close_submit
  <2>3. CASE stream_open(t) \/ stream_close(t) \/ stream_write(t) \/ stream_write_short(t)
             \/ stream_submit(t) \/ stream_close_submit(t)
             \/ \E n \in 1..MaxWrite : stream_write_begin(t, n)
    BY <2>3, Zenon DEF stream_open, stream_close, stream_write, stream_write_short,
                       stream_submit, stream_close_submit, stream_write_begin
  <2>4. CASE entry_block_full(t) \/ close_block(t)
    BY <2>4 DEF entry_block_full, close_block, TypeInv, TypeOK, EntryTypes
  <2>5. CASE stream_block_full(t) \/ stream_close_enqueue(t)
    <3>1. stream[t] \in Streams
      BY <2>5 DEF stream_block_full, stream_close_enqueue, At, TypeInv, TypeOK, StreamTypes,
                  CallState
    <3>2. stream[t].buf \in Blocks
      BY <3>1 DEF Streams
    <3>3. FinishStream(stream[t].buf, TRUE) \in Blocks /\ FinishStream(stream[t].buf, FALSE) \in Blocks
      BY <3>2, FinishStreamType
    <3> QED
      BY <2>5, <3>3 DEF stream_block_full, stream_close_enqueue
  <2> QED
    BY <2>1, <2>2, <2>3, <2>4, <2>5
       DEF InCall, Call, EntryWrite, Close, StreamWrite, StreamClose
<1> QED
  BY <1>3, <1>4, <1>5

(* process_blocks keeps the line, or loses the first block that is not encrypted. *)
LEMMA WorkerLine ==
    ASSUME TypeInv, LineInv, process_blocks
    PROVE  /\ sent' = sent
           /\ \/ Waiting' = Waiting
              \/ /\ process_encrypt_fail
                 /\ \E h, r \in Seq(Blocks) : /\ Len(h) = 1
                                              /\ Waiting = (Pulling \o h) \o r
                                              /\ Waiting' = Pulling \o r
<1> USE DEF WorkerAt, otherThanWorker, transportVars
<1>1. UNCHANGED <<reader, sent>>
  BY Zenon DEF process_blocks, work_start, process_loop, process_loop_open,
         process_loop_queue, process_encrypt, process_encrypt_fail, process_header,
         process_header_null, process_put, process_exit, process_close
<1>2. CASE \/ work_start \/ process_loop \/ process_loop_open \/ process_loop_queue
           \/ process_exit \/ process_close \/ process_header_null
  <2>1. UNCHANGED <<reader, transport, wbuf, processing>>
    BY <1>2, Zenon DEF work_start, process_loop, process_loop_open, process_loop_queue,
                       process_exit, process_close, process_header_null
  <2> QED
    BY <1>1, <2>1, WaitingSame
<1>3. CASE process_header \/ process_put
  <2>1. UNCHANGED <<reader, processing>>
    BY <1>3, Zenon DEF process_header, process_put
  <2>2. CASE process_header /\ header = NoBuf
    <3>1. UNCHANGED <<reader, transport, wbuf, processing>>
      BY <2>2 DEF process_header
    <3> QED
      BY <1>1, <3>1, WaitingSame
  <2>3. CASE process_header /\ header # NoBuf
    <3>1. /\ header \in Buffers /\ header.type = "header" /\ wbuf' = wbuf
          /\ transport' = Append(transport, header)
      BY <2>3 DEF process_header, LineInv, HeaderKind, TypeInv, TypeOK, OutTypes
    <3> QED
      BY <1>1, <2>1, <3>1, WaitingPut
  <2>4. CASE process_put
    <3>1. /\ wbuf \in Buffers /\ wbuf # NoBuf /\ wbuf' = NoBuf
          /\ transport' = Append(transport, wbuf)
      BY <2>4 DEF process_put, TypeInv, TypeOK, WorkerTypes, WorkerState, Carries
    <3> QED
      BY <1>1, <2>1, <3>1, WaitingPut
  <2> QED
    BY <1>3, <2>2, <2>3, <2>4
<1>4. CASE process_encrypt
  <2>1. /\ wbuf = NoBuf /\ processing # <<>> /\ processing' = Tail(processing)
        /\ wbuf' = Encrypted(Head(processing)) /\ UNCHANGED <<reader, transport>>
    BY <1>4 DEF process_encrypt, TypeInv, WorkerState, Carries
  <2>2. wbuf' # NoBuf
    <3>1. Head(processing) \in Blocks
      BY <2>1, HeadTailProperties DEF TypeInv, TypeOK, SharedTypes
    <3> QED
      BY <2>1, <3>1, EncryptedType, NoBufAssumption DEF TypeInv, TypeOK
  <2> QED
    BY <1>1, <2>1, <2>2, WaitingTaken
<1>5. CASE process_encrypt_fail
  <2>1. /\ wbuf = NoBuf /\ processing # <<>> /\ processing' = Tail(processing)
        /\ wbuf' = NoBuf /\ UNCHANGED <<reader, transport>>
    BY <1>5 DEF process_encrypt_fail, TypeInv, WorkerState, Carries
  <2> DEFINE h == <<Head(processing)>>
             r == Tail(processing)
  <2>2. Waiting = (Pulling \o h) \o r /\ Waiting' = Pulling \o r
    BY <2>1, WaitingTaken
  <2>3. h \in Seq(Blocks) /\ r \in Seq(Blocks) /\ Len(h) = 1
    <3>1. processing \in Seq(Blocks)
      BY LineType DEF LineTypes
    <3> QED
      BY <2>1, <3>1, HeadTailProperties
  <2> HIDE DEF h, r
  <2> QED
    BY <1>1, <1>5, <2>2, <2>3, Zenon
<1> QED
  BY <1>2, <1>3, <1>4, <1>5 DEF process_blocks

(* process_blocks only loses blocks, and that while the session starts, when
   something fails, or when it was overtaken by the end of the session. *)
LEMMA WorkerImplements ==
    ASSUME TypeInv, OwnInv, LineInv, process_blocks
    PROVE  Service!Next \/ UNCHANGED Service!vars
<1> USE DEF WorkerAt, otherThanWorker, transportVars
<1>1. UNCHANGED <<tpc, id, sent>>
  BY Zenon DEF process_blocks, work_start, process_loop, process_loop_open,
         process_loop_queue, process_encrypt, process_encrypt_fail, process_header,
         process_header_null, process_put, process_exit, process_close
<1>2. ServiceSession' = ServiceSession /\ ServiceNumber' = ServiceNumber
  BY <1>1 DEF ServiceSession, ServiceNumber
<1>3. "closing" \in flags' <=> "closing" \in flags
  BY DEF process_blocks, work_start, process_loop, process_loop_open, process_loop_queue,
         process_encrypt, process_encrypt_fail, process_header, process_header_null,
         process_put, process_exit, process_close
<1>4. CASE Waiting' = Waiting
  BY <1>1, <1>2, <1>3, <1>4, Stutter
<1>5. CASE Waiting' # Waiting
  <2>1. process_encrypt_fail
    BY <1>5, WorkerLine
  <2>2. PICK h, r \in Seq(Blocks) : /\ Len(h) = 1 /\ Waiting = (Pulling \o h) \o r
                                    /\ Waiting' = Pulling \o r
    BY <1>5, WorkerLine
  <2>3. Pulling \in Seq(Blocks)
    BY LineType DEF LineTypes
  <2>4. OneLess((Pulling \o h) \o r, Pulling \o r)
    BY <2>2, <2>3, CutMiddle
  <2>5. \E i \in DOMAIN Waiting :
            Waiting' = SubSeq(Waiting, 1, i - 1) \o SubSeq(Waiting, i + 1, Len(Waiting))
    BY <2>2, <2>4, Zenon DEF OneLess
  <2>6. wpc = "take" /\ (~crypto.active \/ crypto.key = 0 \/ MayFail)
    BY <2>1 DEF process_encrypt_fail
  <2>7. ServiceSession = "starting" \/ MayFail \/ (ServiceSession = "none" /\ ~Cooperative)
    <3>1. tpc \in Running \ {"start", "crypto"} => MayFail
      BY <2>6 DEF LineInv, KeyState
    <3>2. tpc \notin {"ended"} \union Finishing
      BY <2>6 DEF OwnInv, HeaderState, LineInv, LoopState, Looping, Finishing
    <3>3. tpc \in {"none", "finish_end"} => ~Cooperative
      BY <2>6 DEF LineInv, LoopState, Looping
    <3>4. tpc \in Running \union {"none", "ended", "finish_end"} \union Finishing
      BY DEF TypeInv, TypeOK, TransportTypes, TransportLabels, TransportBlocks, Running,
             Finishing
    <3> QED
      BY <3>1, <3>2, <3>3, <3>4, SessionIs DEF Session, Running
  <2>8. pouch_is_closing' = pouch_is_closing
    BY <1>3 DEF pouch_is_closing
  <2>9. Service!Lose
    BY <1>1, <1>2, <2>5, <2>7, <2>8 DEF Service!Lose
  <2> QED
    BY <2>9 DEF Service!Next
<1> QED
  BY <1>4, <1>5

(* pouch_uplink_start: the session is announced, prepared and opened, or fails *)
LEMMA StartImplements ==
    ASSUME pouch_uplink_start
    PROVE  Service!Next \/ UNCHANGED Service!vars
<1> USE DEF TransportAt, otherThanTransport, workerVars, outVars
<1>1. UNCHANGED <<reader, transport, wbuf, processing, sent, id>>
  BY Zenon DEF pouch_uplink_start, start_begin, start_session, start_crypto, start_crypto_fail,
         start_pouch, start_header, start_header_fail, start_done
<1>2. Waiting' = Waiting
  BY <1>1, WaitingSame
<1>3. tpc # "finish_clear" /\ tpc' # "finish_clear"
  BY DEF pouch_uplink_start, start_begin, start_session, start_crypto, start_crypto_fail,
         start_pouch, start_header, start_header_fail, start_done
<1>4. ServiceNumber' = ServiceNumber
  BY <1>1, <1>3 DEF ServiceNumber
<1>5. "closing" \in flags' <=> "closing" \in flags
  BY DEF pouch_uplink_start, start_begin, start_session, start_crypto, start_crypto_fail,
         start_pouch, start_header, start_header_fail, start_done
<1>6. pouch_is_closing' = pouch_is_closing
  BY <1>5 DEF pouch_is_closing
<1>7. CASE start_begin
  <2>1. ServiceSession = "none" /\ ServiceSession' = "starting"
    BY <1>7, SessionIs, SessionIsNext DEF start_begin, Session
  <2>2. Service!Start
    BY <1>1, <1>2, <1>4, <1>6, <2>1 DEF Service!Start
  <2> QED
    BY <2>2 DEF Service!Next
<1>8. CASE start_crypto_fail \/ start_header_fail
  <2>1. MayFail /\ ServiceSession = "starting" /\ ServiceSession' = "none"
    BY <1>8, SessionIs, SessionIsNext DEF start_crypto_fail, start_header_fail, Session
  <2>2. Service!StartFailed
    BY <1>1, <1>2, <1>4, <1>6, <2>1 DEF Service!StartFailed
  <2> QED
    BY <2>2 DEF Service!Next
<1>9. CASE start_done
  <2>1. ServiceSession = "starting" /\ ServiceSession' = "open"
    BY <1>9, SessionIs, SessionIsNext DEF start_done, Session
  <2>2. Service!Opened
    BY <1>1, <1>2, <1>4, <1>6, <2>1 DEF Service!Opened
  <2> QED
    BY <2>2 DEF Service!Next
<1>10. CASE start_session \/ start_crypto \/ start_pouch \/ start_header
  <2>1. ServiceSession = "starting" /\ ServiceSession' = "starting"
    BY <1>10, SessionIs, SessionIsNext DEF start_session, start_crypto, start_pouch,
                                               start_header, Session
  <2> QED
    BY <1>1, <1>2, <1>4, <1>5, <2>1, Stutter
<1> QED
  BY <1>7, <1>8, <1>9, <1>10 DEF pouch_uplink_start

(* pouch_uplink_fill keeps the line, or takes its first block away and sends it. *)
LEMMA FillLine ==
    ASSUME TypeInv, pouch_uplink_fill
    PROVE  \/ Waiting' = Waiting /\ sent' = sent
           \/ /\ fill_copy_rest /\ Waiting # <<>> /\ Waiting' = Tail(Waiting)
              /\ sent' = Append(sent, [id |-> id, blk |-> Head(Waiting)])
<1> USE DEF TransportAt, otherThanTransport, workerVars, outVars
<1>1. UNCHANGED <<wbuf, processing, id>>
  BY Zenon DEF pouch_uplink_fill, fill_begin, fill_next, fill_copy_part, fill_copy_rest,
         fill_check_open, fill_check_empty, fill_end
<1>2. CASE fill_begin \/ fill_check_open \/ fill_check_empty \/ fill_end
  <2>1. UNCHANGED <<reader, transport, sent>>
    BY <1>2, Zenon DEF fill_begin, fill_check_open, fill_check_empty, fill_end
  <2> QED
    BY <1>1, <2>1, WaitingSame
<1>3. CASE fill_next
  <2>1. CASE transport # <<>>
    <3>1. /\ reader = NoBuf /\ transport' = Tail(transport) /\ sent' = sent
          /\ reader' = [buf |-> Head(transport), left |-> BufUnits]
      BY <1>3, <2>1, Zenon DEF fill_next
    <3>2. reader' # NoBuf /\ reader'.buf = Head(transport)
      <4>1. Head(transport) \in Buffers
        BY <2>1, HeadTailProperties DEF TypeInv, TypeOK, OutTypes
      <4>2. reader' \in Readers
        BY <3>1, <4>1, ConstantsAssumption DEF Readers
      <4> QED
        BY <3>1, <4>2, NoBufAssumption
    <3> QED
      BY <1>1, <2>1, <3>1, <3>2, WaitingNext
  <2>2. CASE transport = <<>>
    <3>1. UNCHANGED <<reader, transport, sent>>
      BY <1>3, <2>2, Zenon DEF fill_next
    <3> QED
      BY <1>1, <3>1, WaitingSame
  <2> QED
    BY <2>1, <2>2
<1>4. CASE \E n \in 1..(BufUnits - 1) : fill_copy_part(n)
  <2>1. PICK n \in 1..(BufUnits - 1) : fill_copy_part(n)
    BY <1>4
  <2>2. /\ reader # NoBuf /\ reader' = [reader EXCEPT !.left = @ - n] /\ n < reader.left
        /\ UNCHANGED <<transport, sent>>
    BY <2>1, Zenon DEF fill_copy_part
  <2>3. reader \in Readers
    BY <2>2 DEF TypeInv, TypeOK, OutTypes
  <2>4. reader'.buf = reader.buf /\ reader' # NoBuf
    <3>1. reader' \in Readers /\ reader'.buf = reader.buf
      BY <2>2, <2>3, ConstantsAssumption DEF Readers
    <3> QED
      BY <3>1, NoBufAssumption
  <2>5. Reading' = Reading /\ Encrypting' = Encrypting
        /\ BlocksOf(transport)' = BlocksOf(transport)
    BY <1>1, <2>2, <2>4 DEF Reading, Encrypting, Carried, BlocksOf
  <2>6. Waiting' = Waiting
    BY <2>5, LineParts, LinePartsNext, Zenon
  <2> QED
    BY <2>2, <2>6
<1>5. CASE fill_copy_rest
  <2>1. /\ reader # NoBuf /\ reader' = NoBuf /\ transport' = transport
        /\ sent' = IF reader.buf.type = "block"
                     THEN Append(sent, [id |-> id, blk |-> reader.buf.blk]) ELSE sent
    BY <1>5, Zenon DEF fill_copy_rest
  <2>2. CASE reader.buf.type = "block"
    <3>1. Waiting # <<>> /\ Head(Waiting) = reader.buf.blk /\ Tail(Waiting) = Waiting'
      BY <1>1, <2>1, <2>2, WaitingPulled
    <3> QED
      BY <1>5, <2>1, <2>2, <3>1
  <2>3. CASE reader.buf.type # "block"
    <3>1. Waiting' = Waiting
      BY <1>1, <2>1, <2>3, WaitingPulled
    <3> QED
      BY <2>1, <2>3, <3>1
  <2> QED
    BY <2>2, <2>3
<1> QED
  BY <1>2, <1>3, <1>4, <1>5 DEF pouch_uplink_fill

(* pouch_uplink_fill delivers a block with its last byte, and ends a drained pouch *)
LEMMA FillImplements ==
    ASSUME TypeInv, OwnInv, LineInv, pouch_uplink_fill
    PROVE  Service!Next \/ UNCHANGED Service!vars
<1> USE DEF TransportAt, otherThanTransport, workerVars, outVars
<1>1. UNCHANGED id
  BY Zenon DEF pouch_uplink_fill, fill_begin, fill_next, fill_copy_part, fill_copy_rest,
         fill_check_open, fill_check_empty, fill_end
<1>2. tpc \in {"open", "fill", "check_open", "check_empty", "end"}
  BY DEF pouch_uplink_fill, fill_begin, fill_next, fill_copy_part, fill_copy_rest,
         fill_check_open, fill_check_empty, fill_end
<1>3. ServiceSession = "open"
  BY <1>2, SessionIs DEF Session
<1>4. CASE fill_end
  <2>1. tpc = "end" /\ tpc' = "ended" /\ flags' = flags \ {"active"} /\ sent' = sent
        /\ ~fill_copy_rest
    BY <1>4 DEF fill_end, end_session, fill_copy_rest
  <2>2. Waiting' = Waiting
    BY <2>1, FillLine
  <2>3. ServiceSession' = "ending"
    BY <2>1, SessionIsNext DEF Session
  <2>4. ServiceNumber' = ServiceNumber
    BY <1>1, <2>1 DEF ServiceNumber
  <2>5. /\ pouch_is_closing \/ ~Cooperative
        /\ pouch_is_closing' = pouch_is_closing
    BY <2>1 DEF OwnInv, HeaderState, LineInv, ClosedState, pouch_is_closing
  <2>6. Service!Drained
    BY <1>3, <2>1, <2>2, <2>3, <2>4, <2>5 DEF Service!Drained
  <2> QED
    BY <2>6 DEF Service!Next
<1>5. CASE \/ fill_begin \/ fill_next \/ (\E n \in 1..(BufUnits - 1) : fill_copy_part(n))
           \/ fill_copy_rest \/ fill_check_open \/ fill_check_empty
  <2>1. flags' = flags
    BY <1>5, Zenon DEF fill_begin, fill_next, fill_copy_part, fill_copy_rest, fill_check_open,
                fill_check_empty
  <2>2. tpc' \in {"open", "fill", "check_open", "check_empty", "end"}
    BY <1>5 DEF fill_begin, fill_next, fill_copy_part, fill_copy_rest, fill_check_open,
                fill_check_empty
  <2>3. ServiceSession' = "open"
    BY <2>2, SessionIsNext DEF Session
  <2>4. ServiceNumber' = ServiceNumber /\ ServiceNumber = id
    BY <1>1, <1>2, <2>2 DEF ServiceNumber
  <2>5. pouch_is_closing' = pouch_is_closing
    BY <2>1 DEF pouch_is_closing
  <2>6. CASE Waiting' = Waiting /\ sent' = sent
    BY <1>3, <2>1, <2>3, <2>4, <2>6, Stutter
  <2>7. CASE /\ Waiting # <<>> /\ Waiting' = Tail(Waiting)
             /\ sent' = Append(sent, [id |-> id, blk |-> Head(Waiting)])
    <3>1. Service!Deliver
      BY <1>3, <2>3, <2>4, <2>5, <2>7, Zenon DEF Service!Deliver
    <3> QED
      BY <3>1 DEF Service!Next
  <2> QED
    BY <2>6, <2>7, FillLine
<1> QED
  BY <1>4, <1>5 DEF pouch_uplink_fill

(* pouch_uplink_finish throws away what is left, if anything, then ends the session *)
LEMMA FinishImplements ==
    ASSUME TypeInv, LineInv, pouch_uplink_finish
    PROVE  Service!Next \/ UNCHANGED Service!vars
<1> USE DEF TransportAt, otherThanTransport, workerVars, outVars
<1>1. UNCHANGED <<wbuf, processing, sent>>
  BY Zenon DEF pouch_uplink_finish, finish_flush, finish_id, finish_clear, finish_end
<1>2. CASE finish_flush
  <2>1. /\ tpc = "ended" \/ (MayAbort /\ tpc = "open")
        /\ tpc' = "finish_id" /\ transport' = <<>> /\ reader' = NoBuf
        /\ UNCHANGED <<id, flags>>
    BY <1>2 DEF finish_flush
  <2>2. ServiceSession' = "ending"
    BY <2>1, SessionIsNext DEF Session
  <2>3. ServiceNumber' = ServiceNumber
    BY <2>1 DEF ServiceNumber
  <2>4. pouch_is_closing' = pouch_is_closing
    BY <2>1 DEF pouch_is_closing
  <2>5. CASE tpc = "ended"
    <3>1. UNCHANGED <<reader, transport>>
      BY <2>1, <2>5 DEF LineInv, ClosedState
    <3>2. Waiting' = Waiting
      BY <1>1, <3>1, WaitingSame
    <3>3. ServiceSession = "ending"
      BY <2>5, SessionIs DEF Session
    <3> QED
      BY <1>1, <2>1, <2>2, <2>3, <3>2, <3>3, Stutter
  <2>6. CASE tpc # "ended"
    <3>1. MayAbort /\ ServiceSession = "open"
      BY <2>1, <2>6, SessionIs DEF Session
    <3>2. Waiting' = Encrypting
      BY <1>1, <2>1, WaitingFlushed
    <3>3. Pulling \in Seq(Blocks) /\ Encrypting \in Seq(Blocks)
      BY LineType DEF LineTypes
    <3>4. BackOf(Pulling \o Encrypting, Encrypting)
      BY <3>3, CutFront
    <3>5. \E k \in 0..Len(Waiting) : Waiting' = SubSeq(Waiting, k + 1, Len(Waiting))
      BY <3>2, <3>4, LineParts, Zenon DEF BackOf
    <3>6. Service!Abort
      BY <1>1, <2>2, <2>3, <2>4, <3>1, <3>5 DEF Service!Abort
    <3> QED
      BY <3>6 DEF Service!Next
  <2> QED
    BY <2>5, <2>6
<1>3. CASE finish_id \/ finish_clear \/ finish_end
  <2>1. UNCHANGED <<reader, transport>>
    BY <1>3, Zenon DEF finish_id, finish_clear, finish_end
  <2>2. Waiting' = Waiting
    BY <1>1, <2>1, WaitingSame
  <2>3. id \in Nat
    BY DEF TypeInv, TypeOK, TransportTypes
  <2>4. CASE finish_id
    <3>1. tpc = "finish_id" /\ tpc' = "finish_clear" /\ id' = id + 1 /\ flags' = flags
      BY <2>4 DEF finish_id
    <3>2. ServiceNumber' = ServiceNumber
      BY <2>3, <3>1 DEF ServiceNumber
    <3>3. ServiceSession = "ending" /\ ServiceSession' = "ending"
      BY <3>1, SessionIs, SessionIsNext DEF Session
    <3> QED
      BY <1>1, <2>2, <3>1, <3>2, <3>3, Stutter
  <2>5. CASE finish_clear
    <3>1. tpc = "finish_clear" /\ tpc' \in {"finish_end", "none"} /\ id' = id /\ flags' = {}
      BY <2>5 DEF finish_clear
    <3>2. ServiceNumber' = ServiceNumber + 1
      BY <2>3, <3>1 DEF ServiceNumber
    <3>3. ServiceSession = "ending" /\ ServiceSession' = "none"
      BY <3>1, SessionIs, SessionIsNext DEF Session
    <3>4. pouch_is_closing' = FALSE
      BY <3>1 DEF pouch_is_closing
    <3>5. Service!Finished
      BY <1>1, <2>2, <3>2, <3>3, <3>4, Zenon DEF Service!Finished
    <3> QED
      BY <3>5 DEF Service!Next
  <2>6. CASE finish_end
    <3>1. tpc = "finish_end" /\ tpc' = "none" /\ id' = id /\ flags' = flags \ {"active"}
      BY <2>6 DEF finish_end, end_session
    <3>2. ServiceNumber' = ServiceNumber
      BY <3>1 DEF ServiceNumber
    <3>3. ServiceSession = "none" /\ ServiceSession' = "none"
      BY <3>1, SessionIs, SessionIsNext DEF Session
    <3> QED
      BY <1>1, <2>2, <3>1, <3>2, <3>3, Stutter
  <2> QED
    BY <1>3, <2>4, <2>5, <2>6
<1> QED
  BY <1>2, <1>3 DEF pouch_uplink_finish

LEMMA ServiceStep ==
    ASSUME TypeInv, TypeInv', OwnInv, LineInv, [Next]_vars
    PROVE  [Service!Next]_Service!vars
<1>1. CASE \E t \in Threads : InCall(t) \/ Call(t)
  BY <1>1, AppImplements
<1>2. CASE process_blocks
  BY <1>2, WorkerImplements
<1>3. CASE pouch_uplink_start
  BY <1>3, StartImplements
<1>4. CASE pouch_uplink_fill
  BY <1>4, FillImplements
<1>5. CASE pouch_uplink_finish
  BY <1>5, FinishImplements
<1>6. CASE dispatch_events \/ UNCHANGED vars
  <2>1. UNCHANGED <<flags, processing, wbuf, transport, reader, sent, tpc, id>>
    BY <1>6, Zenon DEF dispatch_events, vars, outVars, workerVars, transportVars
  <2>2. Waiting' = Waiting
    BY <2>1, WaitingSame
  <2>3. ServiceSession' = ServiceSession /\ ServiceNumber' = ServiceNumber
    BY <2>1 DEF ServiceSession, ServiceNumber
  <2> QED
    BY <2>1, <2>2, <2>3, Stutter
<1> QED
  BY <1>1, <1>2, <1>3, <1>4, <1>5, <1>6 DEF Next

LEMMA ServiceInit == Init => Service!Init
<1> SUFFICES ASSUME Init PROVE Service!Init
  OBVIOUS
<1>1. /\ tpc = "none" /\ id = 0 /\ flags = {} /\ sent = <<>>
      /\ reader = NoBuf /\ wbuf = NoBuf /\ transport = <<>> /\ processing = <<>>
  BY DEF Init
<1>2. ServiceSession = "none" /\ ServiceNumber = 0 /\ pouch_is_closing = FALSE
  BY <1>1, SessionIs DEF Session, ServiceNumber, pouch_is_closing
<1>3. <<>> \o <<>> = <<>>
  BY EmptySeq, ConcatEmptySeq
<1>4. Reading = <<>> /\ Holding = <<>> /\ BlocksOf(transport) = <<>>
  BY <1>1, BlocksOfEmpty DEF Reading, Holding
<1>5. Waiting = <<>>
  BY <1>1, <1>3, <1>4, LineParts, Zenon
<1> QED
  BY <1>1, <1>2, <1>5 DEF Service!Init

(* The uplink is the service it promises, whatever its threads, queues, failures and
   aborts: every behaviour of uplink.c, entry.c and stream.c is one of UplinkService.
   On cooperative threads that is the service ExampleNode is built on.  If the
   transport can preempt process_blocks, it is the one in which a block may also be
   lost between two sessions and a session end without a close of its own. *)
THEOREM UplinkImplementsService == Spec => ImplementsService
<1>1. Init => TypeInv /\ OwnInv /\ LineInv
  BY TypeInit, OwnInit, LineInit
<1>2. TypeInv /\ OwnInv /\ LineInv /\ [Next]_vars => TypeInv' /\ OwnInv' /\ LineInv'
  BY TypeStep, OwnStep, LineStep
<1>3. TypeInv /\ TypeInv' /\ OwnInv /\ LineInv /\ [Next]_vars => [Service!Next]_Service!vars
  BY ServiceStep
<1> QED
  BY <1>1, <1>2, <1>3, ServiceInit, PTL DEF Spec, ImplementsService, Service!Spec

(* pouch_uplink_fill finds the end of the pouch right, however process_blocks, the
   threads and the transport interleave: POUCH_CLOSED is seen before the reader and
   the queue are looked at, and a closed pouch keeps process_blocks out of its loop,
   so no buffer can follow. *)
THEOREM NothingIsInFlight == Spec => []NothingInFlight
<1>1. Init => TypeInv /\ OwnInv /\ LineInv
  BY TypeInit, OwnInit, LineInit
<1>2. TypeInv /\ OwnInv /\ LineInv /\ [Next]_vars => TypeInv' /\ OwnInv' /\ LineInv'
  BY TypeStep, OwnStep, LineStep
<1>3. TypeInv /\ OwnInv /\ LineInv => NothingInFlight
  <2> SUFFICES ASSUME TypeInv, OwnInv, LineInv, tpc \in {"end", "ended"}
               PROVE  transport = <<>> /\ reader = NoBuf /\ wbuf = NoBuf
    BY DEF NothingInFlight
  <2>1. wpc \notin Carries
    BY DEF OwnInv, HeaderState, Carries
  <2> QED
    BY <2>1 DEF TypeInv, WorkerState, LineInv, ClosedState
<1> QED
  BY <1>1, <1>2, <1>3, PTL DEF Spec
================================================================================
