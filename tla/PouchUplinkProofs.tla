--------------------------- MODULE PouchUplinkProofs ---------------------------
(***************************************************************************)
(* Theorems about PouchUplink, for every value of its constants.           *)
(***************************************************************************)
EXTENDS PouchUplink, SequenceTheorems, TLAPS

-----------------------------------------------------------------------------
(* The inductive invariant *)

(* A thread inside a stream call has its stream, and items left to write. *)
CallState ==
    \A t \in Threads :
        /\ pc[t] \in {"stream", "stream_submit", "stream_close", "stream_close_submit"}
               => stream[t] # NoBuf
        /\ pc[t] \in {"stream", "stream_submit"} => todo[t] # <<>>

Carries == {"header", "header_null", "put"}

(* process_blocks holds an encrypted block between encrypting and queueing it,
   and takes a block only from a queue that has one. *)
WorkerState ==
    /\ wpc \in Carries <=> wbuf # NoBuf
    /\ wpc = "take" => processing # <<>>

TypeInv == TypeOK /\ CallState /\ WorkerState

(* On cooperative threads process_blocks runs only while the transport waits. *)
Exclusive == wpc # "idle" => tpc \in TransportBlocks

Finishing == {"finish_id", "finish_clear"}
InSession == {"started", "open", "fill", "check_open", "check_empty", "end"}

(* Where process_blocks counts on the session it has found active. *)
Looping == {"loop_open", "loop_queue", "take"}

(* Where the session is, for process_blocks. *)
SessionState ==
    /\ tpc \in {"none", "ended", "finish_end"} => ~session_is_active
    /\ tpc = "crypto" => ~crypto.active
    /\ tpc \in InSession \union {"pouch", "header"} => crypto.active
    /\ wpc \in Looping => session_is_active
    /\ wpc \in Carries => tpc = "open" /\ crypto.key # 0

(* The buffer at position n of the pouch of the current session. *)
AtPlace(b, n) ==
    /\ b.key = crypto.key
    /\ IF n = 1 THEN b.type = "header" ELSE b.type = "block" /\ b.idx = n - 2

(* How many buffers the transport has pulled or is reading. *)
Pulled == Len(pouch) + One(reader)

(* Blocks of the session that are in the transport's queue or beyond. *)
Queued == IF wpc \in Carries THEN crypto.idx - 1 ELSE crypto.idx

(* From start to NO_MORE_DATA: what was pulled, what is being read and what is
   queued are, in this order, the header and the blocks of the session. *)
Chain ==
    tpc \in InSession =>
        /\ \A i \in 1..Len(pouch) : AtPlace(pouch[i], i)
        /\ reader # NoBuf => AtPlace(reader.buf, Len(pouch) + 1)
        /\ \A i \in 1..Len(transport) : AtPlace(transport[i], Pulled + i)
        /\ header # NoBuf =>
             /\ header.type = "header" /\ header.key = crypto.key
             /\ Queued = 0 /\ wpc # "put"
        /\ Pulled + Len(transport) =
             IF header # NoBuf /\ wpc # "header_null" THEN 0 ELSE Queued + 1
        /\ header = NoBuf => crypto.idx >= 1
        /\ wpc \in Carries =>
             /\ wbuf.type = "block" /\ wbuf.key = crypto.key
             /\ wbuf.idx = crypto.idx - 1 /\ crypto.idx >= 1
        /\ wpc = "header_null" => header # NoBuf

(* Outside of a session nothing waits for the transport. *)
Outside ==
    /\ tpc \in {"none", "start", "crypto", "pouch", "header", "finish_end"} \union Finishing =>
         transport = <<>> /\ reader = NoBuf /\ header = NoBuf
    /\ tpc \in {"pouch", "header"} => pouch = <<>>
    /\ tpc = "header" => crypto.idx = 0
    /\ tpc \in {"end", "ended"} => transport = <<>> /\ reader = NoBuf

(* TypeInv is inductive by itself, and with it so is SafeInv. *)
SafeInv ==
    /\ Exclusive /\ SessionState /\ Chain /\ Outside
    /\ PouchWellFormed /\ DrainedAtEnd

-----------------------------------------------------------------------------
(* Type correctness *)

LEMMA TypeInit == Init => TypeInv
<1> SUFFICES ASSUME Init PROVE TypeInv
  OBVIOUS
<1> USE ConstantsAssumption DEF Init
<1>1. SharedTypes
  <2>1. flags \in SUBSET {"active", "closing", "closed"}
    OBVIOUS
  <2>2. processing \in Seq(Blocks) /\ bufs \in Int
    OBVIOUS
  <2>3. work \in BOOLEAN
    OBVIOUS
  <2> QED
    BY <2>1, <2>2, <2>3, Zenon DEF SharedTypes
<1>2. EntryTypes
  BY DEF EntryTypes
<1>3. StreamTypes
  <2>1. stream \in [Threads -> Streams \union {NoBuf}]
    OBVIOUS
  <2> QED
    BY <2>1 DEF StreamTypes
<1>4. CallTypes
  <2>1. pc \in [Threads -> Labels]
    BY DEF Labels
  <2> QED
    BY <2>1 DEF CallTypes
<1>5. WorkerTypes
  BY DEF WorkerTypes, WorkerLabels
<1>6. OutTypes
  BY DEF OutTypes
<1>7. TransportTypes
  <2>1. tpc \in TransportLabels
    BY DEF TransportLabels, TransportBlocks
  <2> QED
    BY <2>1 DEF TransportTypes
<1>8. CallState /\ WorkerState
  BY DEF CallState, WorkerState, Carries
<1> QED
  BY <1>1, <1>2, <1>3, <1>4, <1>5, <1>6, <1>7, <1>8 DEF TypeInv, TypeOK

(* What the operators on blocks return. *)
LEMMA EntryBlockType == \A d \in Seq(Nat) : EntryBlock(d) \in Blocks
  BY DEF EntryBlock, Blocks

LEMMA StreamBlockType ==
    ASSUME NEW s, s.sid \in Nat, s.uid \in Nat, s.sess \in Nat, NEW first \in BOOLEAN
    PROVE  StreamBlock(s, first) \in Blocks
  BY DEF StreamBlock, Blocks

LEMMA FinishStreamType ==
    ASSUME NEW b \in Blocks, NEW last \in BOOLEAN
    PROVE  FinishStream(b, last) \in Blocks
  BY DEF FinishStream, Blocks

LEMMA AddEntryType ==
    ASSUME NEW b \in Blocks, NEW d \in Seq(Nat)
    PROVE  AddEntry(b, d) \in Blocks
<1>1. b.data \o d \in Seq(Nat)
  BY DEF Blocks
<1> QED
  BY <1>1 DEF AddEntry, Blocks

LEMMA AddPieceType ==
    ASSUME NEW s \in Streams, NEW n \in Nat
    PROVE  AddPiece(s, n) \in Streams
<1>1. s.buf \in Blocks /\ <<n>> \in Seq(Nat)
  BY DEF Streams
<1>2. AddEntry(s.buf, <<n>>) \in Blocks
  BY <1>1, AddEntryType, Zenon
<1>3. s.bytes + 1 \in Nat
  BY DEF Streams
<1> QED
  BY <1>2, <1>3 DEF AddPiece, Streams

LEMMA TailNonempty ==
    ASSUME NEW s \in Seq(Nat), s # <<>>, Len(s) # 1
    PROVE  Tail(s) # <<>>
<1>1. Len(s) \in Nat \ {0}
  BY EmptySeq, Zenon
<1>2. Len(Tail(s)) = Len(s) - 1
  BY HeadTailProperties, Zenon
<1>3. Len(Tail(s)) # 0
  BY <1>1, <1>2
<1>4. Len(<<>>) = 0
  BY EmptySeq, Zenon
<1> QED
  BY <1>3, <1>4

LEMMA NewStreamType ==
    ASSUME NEW uid \in Nat, id \in Nat
    PROVE  NewStream(uid) \in Streams
<1> DEFINE s == [uid |-> uid, sid |-> uid % (StreamMask + 1), sess |-> id]
<1>1. s.uid \in Nat /\ s.sid \in Nat /\ s.sess \in Nat
  BY ConstantsAssumption
<1>2. StreamBlock(s, TRUE) \in Blocks
  BY <1>1, StreamBlockType
<1> QED
  BY <1>1, <1>2 DEF NewStream, Streams

(* No application step touches what belongs to the work queue or the transport,
   and none empties the processing queue. *)
LEMMA AppFrame ==
    ASSUME TypeInv, UNCHANGED otherThanApp, processing = <<>> \/ processing' # <<>>,
           SharedTypes', EntryTypes', StreamTypes', CallTypes', CallState'
    PROVE  TypeInv'
  BY DEF TypeInv, TypeOK, otherThanApp, workerVars, outVars, transportVars,
         WorkerTypes, OutTypes, TransportTypes, WorkerState

LEMMA AppTypes ==
    ASSUME TypeInv, NEW t \in Threads, InCall(t) \/ Call(t)
    PROVE  TypeInv'
<1> USE DEF TypeInv, TypeOK
<1>1. CASE entry_lock(t)
  <2> USE <1>1 DEF entry_lock, At, Goto
  <2>1. EntryTypes'
    BY DEF EntryTypes
  <2>2. CallTypes'
    BY DEF CallTypes, Labels
  <2>3. CallState'
    BY DEF CallState, CallTypes, streamVars
  <2>4. SharedTypes' /\ StreamTypes'
    BY DEF SharedTypes, EntryTypes, StreamTypes, entryVars, streamVars
  <2>5. UNCHANGED otherThanApp /\ (processing = <<>> \/ processing' # <<>>)
    BY DEF SharedTypes, EntryTypes, StreamTypes
  <2> QED
    BY <2>1, <2>2, <2>3, <2>4, <2>5, AppFrame
<1>2. CASE entry_write(t)
  <2> USE <1>2 DEF entry_write, At, Goto, entry_write_done
  <2>1. todo[t] \in Seq(Nat) /\ <<>> \in Seq(Nat)
    BY DEF CallTypes
  <2>2. block' \in Blocks \union {NoBuf}
    BY <2>1, EntryBlockType, AddEntryType DEF EntryTypes, write_new_block
  <2>3. EntryTypes'
    BY <2>2 DEF EntryTypes, unlock
  <2>4. SharedTypes'
    BY DEF SharedTypes, write_new_block
  <2>5. CallTypes'
    BY DEF CallTypes, Labels
  <2>6. CallState'
    BY DEF CallState, CallTypes, streamVars
  <2>7. StreamTypes'
    BY DEF SharedTypes, EntryTypes, StreamTypes, entryVars, streamVars
  <2>8. UNCHANGED otherThanApp /\ (processing = <<>> \/ processing' # <<>>)
    BY DEF SharedTypes, EntryTypes, StreamTypes
  <2> QED
    BY <2>1, <2>2, <2>3, <2>4, <2>5, <2>6, <2>7, <2>8, AppFrame
<1>3. CASE entry_block_full(t)
  <2> USE <1>3 DEF entry_block_full, At, Goto
  <2>1. block \in Blocks
    BY DEF EntryTypes
  <2>2. SharedTypes'
    BY <2>1 DEF SharedTypes
  <2>3. CallTypes'
    BY DEF CallTypes, Labels
  <2>4. CallState'
    BY DEF CallState, CallTypes, streamVars
  <2>5. EntryTypes' /\ StreamTypes'
    BY DEF SharedTypes, EntryTypes, StreamTypes, entryVars, streamVars
  <2>6. UNCHANGED otherThanApp /\ (processing = <<>> \/ processing' # <<>>)
    BY DEF SharedTypes, EntryTypes, StreamTypes
  <2> QED
    BY <2>1, <2>2, <2>3, <2>4, <2>5, <2>6, AppFrame
<1>4. CASE entry_write_retry(t)
  <2> USE <1>4 DEF entry_write_retry, At, Goto, entry_write_done
  <2>1. todo[t] \in Seq(Nat) /\ <<>> \in Seq(Nat)
    BY DEF CallTypes
  <2>2. block' \in Blocks \union {NoBuf}
    BY <2>1, EntryBlockType, AddEntryType DEF EntryTypes, write_new_block
  <2>3. EntryTypes'
    BY <2>2 DEF EntryTypes, unlock
  <2>4. SharedTypes'
    BY DEF SharedTypes, write_new_block
  <2>5. CallTypes'
    BY DEF CallTypes, Labels
  <2>6. CallState'
    BY DEF CallState, CallTypes, streamVars
  <2>7. StreamTypes'
    BY DEF SharedTypes, EntryTypes, StreamTypes, entryVars, streamVars
  <2>8. UNCHANGED otherThanApp /\ (processing = <<>> \/ processing' # <<>>)
    BY DEF SharedTypes, EntryTypes, StreamTypes
  <2> QED
    BY <2>1, <2>2, <2>3, <2>4, <2>5, <2>6, <2>7, <2>8, AppFrame
<1>5. CASE close_begin(t)
  <2> USE <1>5 DEF close_begin, At, Goto
  <2>1. CallTypes'
    BY DEF CallTypes, Labels
  <2>2. CallState'
    BY DEF CallState, CallTypes, streamVars
  <2>3. SharedTypes' /\ EntryTypes' /\ StreamTypes'
    BY DEF SharedTypes, EntryTypes, StreamTypes, entryVars, streamVars
  <2>4. UNCHANGED otherThanApp /\ (processing = <<>> \/ processing' # <<>>)
    BY DEF SharedTypes, EntryTypes, StreamTypes
  <2> QED
    BY <2>1, <2>2, <2>3, <2>4, AppFrame
<1>6. CASE close_lock(t)
  <2> USE <1>6 DEF close_lock, At, Goto
  <2>1. CallTypes'
    BY DEF CallTypes, Labels
  <2>2. CallState'
    BY DEF CallState, CallTypes, streamVars
  <2>3. SharedTypes' /\ EntryTypes' /\ StreamTypes'
    BY DEF SharedTypes, EntryTypes, StreamTypes, entryVars, streamVars
  <2>4. UNCHANGED otherThanApp /\ (processing = <<>> \/ processing' # <<>>)
    BY DEF SharedTypes, EntryTypes, StreamTypes
  <2> QED
    BY <2>1, <2>2, <2>3, <2>4, AppFrame
<1>7. CASE close_lock_timeout(t)
  <2> USE <1>7 DEF close_lock_timeout, At, Goto
  <2>1. CallTypes'
    BY DEF CallTypes, Labels
  <2>2. CallState'
    BY DEF CallState, CallTypes, streamVars
  <2>3. SharedTypes' /\ EntryTypes' /\ StreamTypes'
    BY DEF SharedTypes, EntryTypes, StreamTypes, entryVars, streamVars
  <2>4. UNCHANGED otherThanApp /\ (processing = <<>> \/ processing' # <<>>)
    BY DEF SharedTypes, EntryTypes, StreamTypes
  <2> QED
    BY <2>1, <2>2, <2>3, <2>4, AppFrame
<1>8. CASE close_block(t)
  <2> USE <1>8 DEF close_block, At, Goto, unlock
  <2>1. block # NoBuf => block \in Blocks
    BY DEF EntryTypes
  <2>2. SharedTypes'
    BY <2>1 DEF SharedTypes
  <2>3. CallTypes'
    BY DEF CallTypes, Labels
  <2>4. CallState'
    BY DEF CallState, CallTypes, streamVars
  <2>5. EntryTypes' /\ StreamTypes'
    BY DEF SharedTypes, EntryTypes, StreamTypes, entryVars, streamVars
  <2>6. UNCHANGED otherThanApp /\ (processing = <<>> \/ processing' # <<>>)
    BY DEF SharedTypes, EntryTypes, StreamTypes
  <2> QED
    BY <2>1, <2>2, <2>3, <2>4, <2>5, <2>6, AppFrame
<1>9. CASE close_block_submit(t)
  <2> USE <1>9 DEF close_block_submit, At, Goto, unlock
  <2>1. CallTypes'
    BY DEF CallTypes, Labels
  <2>2. CallState'
    BY DEF CallState, CallTypes, streamVars
  <2>3. SharedTypes' /\ EntryTypes' /\ StreamTypes'
    BY DEF SharedTypes, EntryTypes, StreamTypes, entryVars, streamVars
  <2>4. UNCHANGED otherThanApp /\ (processing = <<>> \/ processing' # <<>>)
    BY DEF SharedTypes, EntryTypes, StreamTypes
  <2> QED
    BY <2>1, <2>2, <2>3, <2>4, AppFrame
<1>10. CASE close_submit(t)
  <2> USE <1>10 DEF close_submit, At, Goto
  <2>1. CallTypes'
    BY DEF CallTypes, Labels
  <2>2. CallState'
    BY DEF CallState, CallTypes, streamVars
  <2>3. SharedTypes' /\ EntryTypes' /\ StreamTypes'
    BY DEF SharedTypes, EntryTypes, StreamTypes, entryVars, streamVars
  <2>4. UNCHANGED otherThanApp /\ (processing = <<>> \/ processing' # <<>>)
    BY DEF SharedTypes, EntryTypes, StreamTypes
  <2> QED
    BY <2>1, <2>2, <2>3, <2>4, AppFrame
<1>11. CASE stream_open(t)
  <2> USE <1>11 DEF stream_open, At
  <2>1. new_stream_uid \in Nat /\ id \in Nat
    BY ConstantsAssumption DEF StreamTypes, TransportTypes, new_stream_uid
  <2>2. StreamTypes'
    BY <2>1, NewStreamType DEF StreamTypes
  <2>3. CallTypes'
    BY DEF CallTypes, Labels
  <2>4. CallState'
    BY DEF CallState, CallTypes, StreamTypes
  <2>5. SharedTypes' /\ EntryTypes'
    BY DEF SharedTypes, EntryTypes, StreamTypes, entryVars, streamVars
  <2>6. UNCHANGED otherThanApp /\ (processing = <<>> \/ processing' # <<>>)
    BY DEF SharedTypes, EntryTypes, StreamTypes
  <2> QED
    BY <2>1, <2>2, <2>3, <2>4, <2>5, <2>6, AppFrame
<1>12. CASE stream_write(t)
  <2> USE <1>12 DEF stream_write, At, Goto
  <2>1. stream[t] \in Streams /\ todo[t] \in Seq(Nat) /\ todo[t] # <<>>
    BY DEF CallState, StreamTypes, CallTypes
  <2>2. Head(todo[t]) \in Nat
    BY <2>1 DEF CallTypes
  <2>3. AddPiece(stream[t], Head(todo[t])) \in Streams
    BY <2>1, <2>2, AddPieceType
  <2>4. StreamTypes'
    BY <2>3 DEF StreamTypes
  <2>5. CallTypes'
    BY <2>1 DEF CallTypes, Labels
  <2>6. Len(todo[t]) # 1 => Tail(todo[t]) # <<>>
    BY <2>1, TailNonempty DEF CallTypes
  <2>7. CallState'
    BY <2>1, <2>3, <2>6, NoBufAssumption DEF CallState, CallTypes, StreamTypes
  <2>8. SharedTypes' /\ EntryTypes'
    BY DEF SharedTypes, EntryTypes, StreamTypes, entryVars, streamVars
  <2>9. UNCHANGED otherThanApp /\ (processing = <<>> \/ processing' # <<>>)
    BY DEF SharedTypes, EntryTypes, StreamTypes
  <2> QED
    BY <2>1, <2>2, <2>3, <2>4, <2>5, <2>6, <2>7, <2>8, <2>9, AppFrame
<1>13. CASE stream_write_short(t)
  <2> USE <1>13 DEF stream_write_short, At, Goto
  <2>1. CallTypes'
    BY DEF CallTypes, Labels
  <2>2. CallState'
    BY DEF CallState, CallTypes, streamVars
  <2>3. SharedTypes' /\ EntryTypes' /\ StreamTypes'
    BY DEF SharedTypes, EntryTypes, StreamTypes, entryVars, streamVars
  <2>4. UNCHANGED otherThanApp /\ (processing = <<>> \/ processing' # <<>>)
    BY DEF SharedTypes, EntryTypes, StreamTypes
  <2> QED
    BY <2>1, <2>2, <2>3, <2>4, AppFrame
<1>14. CASE stream_block_full(t)
  <2>1. stream[t] \in Streams
    BY <1>14 DEF stream_block_full, At, CallState, StreamTypes, CallTypes
  <2>2. FinishStream(stream[t].buf, FALSE) \in Blocks
    BY <2>1, FinishStreamType DEF Streams
  <2>3. PICK b \in Blocks : /\ processing' = Append(processing, b)
                           /\ bufs' = bufs + 1
                           /\ UNCHANGED <<flags, work>>
    BY <1>14, <2>2, Zenon DEF stream_block_full
  <2>4. SharedTypes' /\ processing' # <<>>
    BY <2>3 DEF SharedTypes
  <2>5. CallTypes' /\ CallState'
    BY <1>14 DEF stream_block_full, At, Goto, CallTypes, Labels, CallState, streamVars
  <2>6. EntryTypes' /\ StreamTypes' /\ UNCHANGED otherThanApp
    BY <1>14, Zenon DEF stream_block_full, EntryTypes, StreamTypes, entryVars, streamVars
  <2> QED
    BY <2>4, <2>5, <2>6, AppFrame
<1>15. CASE stream_submit(t)
  <2> USE <1>15 DEF stream_submit, At, Goto
  <2>1. stream[t] \in Streams
    BY DEF CallState, StreamTypes, CallTypes
  <2>2. StreamBlock(stream[t], FALSE) \in Blocks
    BY <2>1, StreamBlockType DEF Streams
  <2>3. stream'[t] \in Streams
    BY <2>1, <2>2 DEF Streams, StreamTypes
  <2>4. StreamTypes'
    BY <2>3 DEF StreamTypes
  <2>5. CallTypes'
    BY DEF CallTypes, Labels
  <2>6. CallState'
    BY <2>1, <2>3, NoBufAssumption DEF CallState, CallTypes, StreamTypes
  <2>7. SharedTypes' /\ EntryTypes'
    BY DEF SharedTypes, EntryTypes, StreamTypes, entryVars, streamVars
  <2>8. UNCHANGED otherThanApp /\ (processing = <<>> \/ processing' # <<>>)
    BY DEF SharedTypes, EntryTypes, StreamTypes
  <2> QED
    BY <2>1, <2>2, <2>3, <2>4, <2>5, <2>6, <2>7, <2>8, AppFrame
<1>16. CASE stream_close(t)
  <2> USE <1>16 DEF stream_close, At, Goto
  <2>1. CallTypes'
    BY DEF CallTypes, Labels
  <2>2. CallState'
    BY DEF CallState, CallTypes, StreamTypes
  <2>3. SharedTypes' /\ EntryTypes' /\ StreamTypes'
    BY DEF SharedTypes, EntryTypes, StreamTypes, entryVars, streamVars
  <2>4. UNCHANGED otherThanApp /\ (processing = <<>> \/ processing' # <<>>)
    BY DEF SharedTypes, EntryTypes, StreamTypes
  <2> QED
    BY <2>1, <2>2, <2>3, <2>4, AppFrame
<1>17. CASE stream_close_enqueue(t)
  <2>1. stream[t] \in Streams
    BY <1>17 DEF stream_close_enqueue, At, CallState, StreamTypes, CallTypes
  <2>2. FinishStream(stream[t].buf, TRUE) \in Blocks
    BY <2>1, FinishStreamType DEF Streams
  <2>3. PICK b \in Blocks : /\ processing' = Append(processing, b)
                           /\ bufs' = bufs
                           /\ UNCHANGED <<flags, work>>
    BY <1>17, <2>2, Zenon DEF stream_close_enqueue
  <2>4. SharedTypes' /\ processing' # <<>>
    BY <2>3 DEF SharedTypes
  <2>5. CallTypes' /\ CallState'
    BY <1>17 DEF stream_close_enqueue, At, Goto, CallTypes, Labels, CallState, streamVars
  <2>6. EntryTypes' /\ StreamTypes' /\ UNCHANGED otherThanApp
    BY <1>17, Zenon DEF stream_close_enqueue, EntryTypes, StreamTypes, entryVars, streamVars
  <2> QED
    BY <2>4, <2>5, <2>6, AppFrame
<1>18. CASE stream_close_submit(t)
  <2> USE <1>18 DEF stream_close_submit, At, Goto
  <2>1. CallTypes'
    BY DEF CallTypes, Labels
  <2>2. CallState'
    BY DEF CallState, CallTypes, StreamTypes
  <2>3. SharedTypes' /\ EntryTypes' /\ StreamTypes'
    BY DEF SharedTypes, EntryTypes, StreamTypes, entryVars, streamVars
  <2>4. UNCHANGED otherThanApp /\ (processing = <<>> \/ processing' # <<>>)
    BY DEF SharedTypes, EntryTypes, StreamTypes
  <2> QED
    BY <2>1, <2>2, <2>3, <2>4, AppFrame
<1>19. CASE \E n \in 1..MaxWrite : stream_write_begin(t, n)
  <2> PICK n \in 1..MaxWrite : stream_write_begin(t, n)
    BY <1>19
  <2> DEFINE new == [i \in 1..n |-> items + i]
  <2> HIDE DEF new
  <2> USE DEF stream_write_begin, At, Goto
  <2>1. n \in Nat /\ n >= 1 /\ items \in Nat
    BY ConstantsAssumption DEF CallTypes
  <2>2. new \in [1..n -> Nat]
    BY <2>1 DEF CallTypes, new
  <2>3. new \in Seq(Nat) /\ Len(new) = n
    BY <2>1, <2>2 DEF CallTypes
  <2>4. new # <<>>
    BY <2>1, <2>3 DEF CallTypes
  <2>5. todo' = [todo EXCEPT ![t] = new] /\ items' = items + n
    BY DEF new
  <2>6. CallTypes'
    BY <2>1, <2>3, <2>5 DEF CallTypes, Labels
  <2>7. CallState'
    BY <2>4, <2>5 DEF CallState, CallTypes, streamVars, stream_is_valid
  <2>8. SharedTypes' /\ EntryTypes' /\ StreamTypes'
    BY DEF SharedTypes, EntryTypes, StreamTypes, entryVars, streamVars
  <2>9. UNCHANGED otherThanApp /\ (processing = <<>> \/ processing' # <<>>)
    BY DEF SharedTypes, EntryTypes, StreamTypes
  <2> QED
    BY <2>1, <2>2, <2>3, <2>4, <2>5, <2>6, <2>7, <2>8, <2>9, AppFrame
<1> QED
  BY <1>1, <1>2, <1>3, <1>4, <1>5, <1>6, <1>7, <1>8, <1>9, <1>10, <1>11, <1>12, <1>13, <1>14,
     <1>15, <1>16, <1>17, <1>18, <1>19
  DEF InCall, Call, EntryWrite, Close, StreamWrite, StreamClose

LEMMA HeaderType == \A k \in Nat : Header(k) \in Buffers
  BY DEF Header, Buffers

LEMMA EncryptedType ==
    ASSUME TransportTypes, NEW b \in Blocks
    PROVE  Encrypted(b) \in Buffers
  BY DEF TransportTypes, Encrypted, Buffers

(* No step of process_blocks touches what belongs to the application, or to the
   transport other than its queue. *)
LEMMA WorkerFrame ==
    ASSUME TypeInv, UNCHANGED otherThanWorker, SharedTypes', WorkerTypes', WorkerState',
           header' \in Buffers \union {NoBuf}, transport' \in Seq(Buffers),
           crypto' \in [active : BOOLEAN, key : Nat, idx : Nat]
    PROVE  TypeInv'
<1> USE DEF TypeInv, TypeOK, otherThanWorker, appVars, entryVars, streamVars, transportVars
<1>1. EntryTypes' /\ StreamTypes' /\ CallTypes' /\ CallState'
  BY DEF EntryTypes, StreamTypes, CallTypes, CallState
<1>2. OutTypes'
  BY DEF OutTypes
<1>3. TransportTypes'
  BY DEF TransportTypes
<1> QED
  BY <1>1, <1>2, <1>3

LEMMA WorkerTypesKept ==
    ASSUME TypeInv, process_blocks
    PROVE  TypeInv'
<1> USE DEF TypeInv, TypeOK
<1>1. CASE work_start
  <2> USE <1>1 DEF work_start, WorkerAt
  <2>1. SharedTypes' /\ header' \in Buffers \union {NoBuf} /\ transport' \in Seq(Buffers)
    BY DEF SharedTypes, OutTypes
  <2>2. WorkerTypes' /\ WorkerState'
    BY DEF WorkerTypes, WorkerLabels, WorkerState, Carries
  <2>3. crypto' \in [active : BOOLEAN, key : Nat, idx : Nat]
    BY DEF TransportTypes
  <2> QED
    BY <2>1, <2>2, <2>3, WorkerFrame
<1>2. CASE process_loop \/ process_loop_open \/ process_loop_queue
  <2> USE <1>2 DEF process_loop, process_loop_open, process_loop_queue, WorkerAt
  <2>1. SharedTypes' /\ header' \in Buffers \union {NoBuf} /\ transport' \in Seq(Buffers)
    BY DEF SharedTypes, OutTypes
  <2>2. WorkerTypes' /\ WorkerState'
    BY DEF WorkerTypes, WorkerLabels, WorkerState, Carries
  <2>3. crypto' \in [active : BOOLEAN, key : Nat, idx : Nat]
    BY DEF TransportTypes
  <2> QED
    BY <2>1, <2>2, <2>3, WorkerFrame
<1>3. CASE process_encrypt
  <2> USE <1>3 DEF process_encrypt, WorkerAt
  <2>1. Head(processing) \in Blocks /\ Tail(processing) \in Seq(Blocks)
    BY DEF WorkerState, SharedTypes
  <2>2. SharedTypes' /\ header' \in Buffers \union {NoBuf} /\ transport' \in Seq(Buffers)
    BY <2>1 DEF SharedTypes, OutTypes
  <2>3. wbuf' \in Buffers /\ wbuf' # NoBuf
    BY <2>1, EncryptedType, NoBufAssumption
  <2>4. WorkerTypes' /\ WorkerState'
    BY <2>3 DEF WorkerTypes, WorkerLabels, WorkerState, Carries
  <2>5. crypto' \in [active : BOOLEAN, key : Nat, idx : Nat]
    BY DEF TransportTypes
  <2> QED
    BY <2>2, <2>4, <2>5, WorkerFrame
<1>4. CASE process_encrypt_fail
  <2> USE <1>4 DEF process_encrypt_fail, WorkerAt
  <2>1. Head(processing) \in Blocks /\ Tail(processing) \in Seq(Blocks)
    BY DEF WorkerState, SharedTypes
  <2>2. SharedTypes' /\ header' \in Buffers \union {NoBuf} /\ transport' \in Seq(Buffers)
    BY <2>1 DEF SharedTypes, OutTypes
  <2>3. {Head(processing).data[i] : i \in DOMAIN Head(processing).data} \subseteq Nat
    BY <2>1, ElementOfSeq, SMTT(30) DEF Blocks
  <2>4. WorkerTypes' /\ WorkerState'
    BY <2>3 DEF WorkerTypes, WorkerLabels, WorkerState, Carries
  <2>5. crypto' \in [active : BOOLEAN, key : Nat, idx : Nat]
    BY DEF TransportTypes
  <2> QED
    BY <2>2, <2>4, <2>5, WorkerFrame
<1>5. CASE process_header
  <2> USE <1>5 DEF process_header, WorkerAt
  <2>1. SharedTypes' /\ header' \in Buffers \union {NoBuf}
    BY DEF SharedTypes, OutTypes
  <2>2. WorkerTypes' /\ WorkerState'
    BY DEF WorkerTypes, WorkerLabels, WorkerState, Carries
  <2>3. crypto' \in [active : BOOLEAN, key : Nat, idx : Nat]
    BY DEF TransportTypes
  <2>4. transport' \in Seq(Buffers)
    BY SMTT(30) DEF OutTypes
  <2> QED
    BY <2>1, <2>2, <2>3, <2>4, WorkerFrame
<1>6. CASE process_header_null
  <2> USE <1>6 DEF process_header_null, WorkerAt
  <2>1. SharedTypes' /\ header' \in Buffers \union {NoBuf} /\ transport' \in Seq(Buffers)
    BY DEF SharedTypes, OutTypes
  <2>2. WorkerTypes' /\ WorkerState'
    BY DEF WorkerTypes, WorkerLabels, WorkerState, Carries
  <2>3. crypto' \in [active : BOOLEAN, key : Nat, idx : Nat]
    BY DEF TransportTypes
  <2> QED
    BY <2>1, <2>2, <2>3, WorkerFrame
<1>7. CASE process_put
  <2> USE <1>7 DEF process_put, WorkerAt
  <2>1. SharedTypes' /\ header' \in Buffers \union {NoBuf}
    BY DEF SharedTypes, OutTypes
  <2>2. transport' \in Seq(Buffers)
    BY DEF OutTypes, WorkerTypes, WorkerState, Carries
  <2>3. WorkerTypes' /\ WorkerState'
    BY DEF WorkerTypes, WorkerLabels, WorkerState, Carries
  <2>4. crypto' \in [active : BOOLEAN, key : Nat, idx : Nat]
    BY DEF TransportTypes
  <2> QED
    BY <2>1, <2>2, <2>3, <2>4, WorkerFrame
<1>8. CASE process_exit \/ process_close
  <2> USE <1>8 DEF process_exit, process_close, WorkerAt
  <2>1. SharedTypes' /\ header' \in Buffers \union {NoBuf} /\ transport' \in Seq(Buffers)
    BY DEF SharedTypes, OutTypes
  <2>2. WorkerTypes' /\ WorkerState'
    BY DEF WorkerTypes, WorkerLabels, WorkerState, Carries
  <2>3. crypto' \in [active : BOOLEAN, key : Nat, idx : Nat]
    BY DEF TransportTypes
  <2> QED
    BY <2>1, <2>2, <2>3, WorkerFrame
<1> QED
  BY <1>1, <1>2, <1>3, <1>4, <1>5, <1>6, <1>7, <1>8 DEF process_blocks

(* No step of the transport touches what belongs to the application or the work
   queue. *)
LEMMA TransportFrame ==
    ASSUME TypeInv, UNCHANGED otherThanTransport, SharedTypes', OutTypes', TransportTypes'
    PROVE  TypeInv'
<1> USE DEF TypeInv, TypeOK, otherThanTransport, appVars, entryVars, streamVars, workerVars
<1>1. EntryTypes' /\ StreamTypes' /\ CallTypes' /\ CallState'
  BY DEF EntryTypes, StreamTypes, CallTypes, CallState
<1>2. WorkerTypes' /\ WorkerState'
  BY DEF WorkerTypes, WorkerState
<1> QED
  BY <1>1, <1>2

LEMMA TransportTypesKept ==
    ASSUME TypeInv, pouch_uplink_start \/ pouch_uplink_fill \/ pouch_uplink_finish
    PROVE  TypeInv'
<1> USE ConstantsAssumption DEF TypeInv, TypeOK, outVars, otherThanTransport
<1>1. CASE start_begin
  <2> USE <1>1 DEF start_begin, TransportAt
  <2>1. SharedTypes'
    BY DEF SharedTypes
  <2>2. OutTypes'
    BY DEF OutTypes
  <2>3. TransportTypes'
    BY DEF TransportTypes, TransportLabels, TransportBlocks
  <2> QED
    BY <2>1, <2>2, <2>3, TransportFrame
<1>2. CASE start_session
  <2> USE <1>2 DEF start_session, TransportAt
  <2>1. SharedTypes'
    BY DEF SharedTypes
  <2>2. OutTypes'
    BY DEF OutTypes
  <2>3. TransportTypes'
    BY DEF TransportTypes, TransportLabels, TransportBlocks
  <2> QED
    BY <2>1, <2>2, <2>3, TransportFrame
<1>3. CASE start_crypto
  <2> USE <1>3 DEF start_crypto, TransportAt
  <2>1. SharedTypes'
    BY DEF SharedTypes
  <2>2. OutTypes'
    BY DEF OutTypes
  <2>3. PICK k \in Nat : crypto' = [crypto EXCEPT !.active = TRUE, !.key = k]
    <3>1. PICK k \in {starts} \union (IF MayFail THEN {0} ELSE {}) :
              crypto' = [crypto EXCEPT !.active = TRUE, !.key = k]
      BY Zenon
    <3>2. k \in Nat
      BY DEF TransportTypes
    <3> QED
      BY <3>1, <3>2, Zenon
  <2>4. crypto' \in [active : BOOLEAN, key : Nat, idx : Nat]
    BY <2>3 DEF TransportTypes
  <2>5. TransportTypes'
    BY <2>4 DEF TransportTypes, TransportLabels, TransportBlocks
  <2> QED
    BY <2>1, <2>2, <2>5, TransportFrame
<1>19. CASE start_pouch
  <2> USE <1>19 DEF start_pouch, TransportAt
  <2>1. SharedTypes'
    BY DEF SharedTypes
  <2>2. OutTypes'
    BY DEF OutTypes
  <2>3. TransportTypes'
    BY DEF TransportTypes, TransportLabels, TransportBlocks
  <2> QED
    BY <2>1, <2>2, <2>3, TransportFrame
<1>4. CASE start_crypto_fail
  <2> USE <1>4 DEF start_crypto_fail, TransportAt
  <2>1. SharedTypes'
    BY DEF SharedTypes
  <2>2. OutTypes'
    BY DEF OutTypes
  <2>3. TransportTypes'
    BY DEF TransportTypes, TransportLabels, TransportBlocks
  <2> QED
    BY <2>1, <2>2, <2>3, TransportFrame
<1>5. CASE start_header
  <2> USE <1>5 DEF start_header, TransportAt
  <2>1. SharedTypes'
    BY DEF SharedTypes
  <2>2. OutTypes'
    BY HeaderType DEF OutTypes, TransportTypes
  <2>3. TransportTypes'
    BY DEF TransportTypes, TransportLabels, TransportBlocks
  <2> QED
    BY <2>1, <2>2, <2>3, TransportFrame
<1>6. CASE start_header_fail
  <2> USE <1>6 DEF start_header_fail, TransportAt
  <2>1. SharedTypes'
    BY DEF SharedTypes
  <2>2. OutTypes'
    BY DEF OutTypes
  <2>3. TransportTypes'
    BY DEF TransportTypes, TransportLabels, TransportBlocks
  <2> QED
    BY <2>1, <2>2, <2>3, TransportFrame
<1>7. CASE start_done
  <2> USE <1>7 DEF start_done, TransportAt
  <2>1. SharedTypes'
    BY DEF SharedTypes
  <2>2. OutTypes'
    BY DEF OutTypes
  <2>3. event_q' \in Seq({"session_start", "session_end"})
    BY DEF pouch_event_emit, TransportTypes
  <2>4. TransportTypes'
    BY <2>3 DEF TransportTypes, TransportLabels, TransportBlocks
  <2> QED
    BY <2>1, <2>2, <2>3, <2>4, TransportFrame
<1>8. CASE fill_begin
  <2> USE <1>8 DEF fill_begin, TransportAt
  <2>1. SharedTypes'
    BY DEF SharedTypes
  <2>2. OutTypes'
    BY DEF OutTypes
  <2>3. TransportTypes'
    BY DEF TransportTypes, TransportLabels, TransportBlocks
  <2> QED
    BY <2>1, <2>2, <2>3, TransportFrame
<1>9. CASE fill_next
  <2> USE <1>9 DEF fill_next, TransportAt
  <2>1. SharedTypes'
    BY DEF SharedTypes
  <2>2. transport # <<>> => Head(transport) \in Buffers /\ Tail(transport) \in Seq(Buffers)
    BY DEF OutTypes
  <2>3. reader' \in Readers \union {NoBuf}
    BY <2>2 DEF OutTypes, Readers
  <2>4. transport' \in Seq(Buffers)
    BY <2>2 DEF OutTypes
  <2>5. OutTypes'
    BY <2>3, <2>4 DEF OutTypes
  <2>6. TransportTypes'
    BY DEF TransportTypes, TransportLabels, TransportBlocks
  <2> QED
    BY <2>1, <2>2, <2>3, <2>4, <2>5, <2>6, TransportFrame
<1>10. CASE \E n \in 1..(BufUnits - 1) : fill_copy_part(n)
  <2> PICK n \in 1..(BufUnits - 1) : fill_copy_part(n)
    BY <1>10
  <2> USE DEF fill_copy_part, TransportAt
  <2>1. SharedTypes'
    BY DEF SharedTypes
  <2>2. reader \in Readers /\ reader.left - n \in 1..BufUnits
    BY DEF OutTypes, Readers
  <2>3. reader' \in Readers
    BY <2>2 DEF Readers
  <2>4. OutTypes'
    BY <2>3 DEF OutTypes
  <2>5. TransportTypes'
    BY DEF TransportTypes, TransportLabels, TransportBlocks
  <2> QED
    BY <2>1, <2>2, <2>3, <2>4, <2>5, TransportFrame
<1>11. CASE fill_copy_rest
  <2> USE <1>11 DEF fill_copy_rest, TransportAt
  <2>1. SharedTypes'
    BY DEF SharedTypes
  <2>2. reader.buf \in Buffers /\ id \in Nat
    BY DEF OutTypes, Readers, TransportTypes
  <2>3. reader.buf.type = "block" => reader.buf.blk \in Blocks
    BY <2>2 DEF Buffers
  <2>4. pouch' \in Seq(Buffers)
    BY <2>2 DEF OutTypes
  <2>5. reader.buf.type = "block"
          => [id |-> id, blk |-> reader.buf.blk] \in [id : Nat, blk : Blocks]
    BY <2>2, <2>3
  <2>6. sent \in Seq([id : Nat, blk : Blocks])
    BY DEF OutTypes
  <2>7. sent' \in Seq([id : Nat, blk : Blocks])
    BY <2>5, <2>6, AppendProperties
  <2>8. OutTypes'
    BY <2>4, <2>7 DEF OutTypes
  <2>9. TransportTypes'
    BY DEF TransportTypes, TransportLabels, TransportBlocks
  <2> QED
    BY <2>1, <2>2, <2>3, <2>4, <2>5, <2>6, <2>7, <2>8, <2>9, TransportFrame
<1>12. CASE fill_check_open
  <2> USE <1>12 DEF fill_check_open, TransportAt
  <2>1. SharedTypes'
    BY DEF SharedTypes
  <2>2. OutTypes'
    BY DEF OutTypes
  <2>3. TransportTypes'
    BY DEF TransportTypes, TransportLabels, TransportBlocks
  <2> QED
    BY <2>1, <2>2, <2>3, TransportFrame
<1>13. CASE fill_check_empty
  <2> USE <1>13 DEF fill_check_empty, TransportAt
  <2>1. SharedTypes'
    BY DEF SharedTypes
  <2>2. OutTypes'
    BY DEF OutTypes
  <2>3. TransportTypes'
    BY DEF TransportTypes, TransportLabels, TransportBlocks
  <2> QED
    BY <2>1, <2>2, <2>3, TransportFrame
<1>14. CASE fill_end
  <2> USE <1>14 DEF fill_end, TransportAt, end_session
  <2>1. SharedTypes'
    BY DEF SharedTypes
  <2>2. OutTypes'
    BY DEF OutTypes
  <2>3. event_q' \in Seq({"session_start", "session_end"})
    BY DEF pouch_event_emit, TransportTypes
  <2>4. crypto' \in [active : BOOLEAN, key : Nat, idx : Nat]
    BY DEF crypto_session_end, TransportTypes
  <2>5. TransportTypes'
    BY <2>3, <2>4 DEF TransportTypes, TransportLabels, TransportBlocks
  <2> QED
    BY <2>1, <2>2, <2>3, <2>4, <2>5, TransportFrame
<1>15. CASE finish_flush
  <2> USE <1>15 DEF finish_flush, TransportAt
  <2>1. Len(transport) \in Nat
    BY DEF OutTypes
  <2>2. SharedTypes'
    BY <2>1 DEF SharedTypes, One
  <2>3. OutTypes'
    BY DEF OutTypes
  <2>4. TransportTypes'
    BY DEF TransportTypes, TransportLabels, TransportBlocks
  <2> QED
    BY <2>1, <2>2, <2>3, <2>4, TransportFrame
<1>16. CASE finish_id
  <2> USE <1>16 DEF finish_id, TransportAt
  <2>1. SharedTypes'
    BY DEF SharedTypes
  <2>2. OutTypes'
    BY DEF OutTypes
  <2>3. TransportTypes'
    BY DEF TransportTypes, TransportLabels, TransportBlocks
  <2> QED
    BY <2>1, <2>2, <2>3, TransportFrame
<1>17. CASE finish_clear
  <2> USE <1>17 DEF finish_clear, TransportAt
  <2>1. SharedTypes'
    BY DEF SharedTypes
  <2>2. OutTypes'
    BY DEF OutTypes
  <2>3. TransportTypes'
    BY DEF TransportTypes, TransportLabels, TransportBlocks
  <2> QED
    BY <2>1, <2>2, <2>3, TransportFrame
<1>18. CASE finish_end
  <2> USE <1>18 DEF finish_end, TransportAt, end_session
  <2>1. SharedTypes'
    BY DEF SharedTypes
  <2>2. OutTypes'
    BY DEF OutTypes
  <2>3. event_q' \in Seq({"session_start", "session_end"})
    BY DEF pouch_event_emit, TransportTypes
  <2>4. crypto' \in [active : BOOLEAN, key : Nat, idx : Nat]
    BY DEF crypto_session_end, TransportTypes
  <2>5. TransportTypes'
    BY <2>3, <2>4 DEF TransportTypes, TransportLabels, TransportBlocks
  <2> QED
    BY <2>1, <2>2, <2>3, <2>4, <2>5, TransportFrame
<1> QED
  BY <1>1, <1>2, <1>3, <1>4, <1>5, <1>6, <1>7, <1>8, <1>9, <1>10, <1>11, <1>12, <1>13,
     <1>14, <1>15, <1>16, <1>17, <1>18, <1>19
  DEF pouch_uplink_start, pouch_uplink_fill, pouch_uplink_finish

LEMMA DispatchTypesKept ==
    ASSUME TypeInv, dispatch_events
    PROVE  TypeInv'
<1> USE DEF dispatch_events, TypeInv, TypeOK, appVars, entryVars, streamVars, workerVars, outVars
<1>1. SharedTypes' /\ EntryTypes' /\ StreamTypes' /\ CallTypes' /\ CallState'
  BY DEF SharedTypes, EntryTypes, StreamTypes, CallTypes, CallState
<1>2. WorkerTypes' /\ OutTypes' /\ WorkerState'
  BY DEF WorkerTypes, OutTypes, WorkerState
<1>3. TransportTypes'
  BY DEF TransportTypes
<1> QED
  BY <1>1, <1>2, <1>3

(* TypeInv is inductive: together the lemmas above cover every step. *)
LEMMA TypeStep == TypeInv /\ [Next]_vars => TypeInv'
<1> SUFFICES ASSUME TypeInv, [Next]_vars PROVE TypeInv'
  OBVIOUS
<1>1. CASE UNCHANGED vars
  BY <1>1 DEF vars, appVars, entryVars, streamVars, workerVars, outVars, transportVars,
              TypeInv, TypeOK, SharedTypes, EntryTypes, StreamTypes, CallTypes,
              WorkerTypes, OutTypes, TransportTypes, CallState, WorkerState
<1>2. CASE Next
  BY <1>2, AppTypes, WorkerTypesKept, TransportTypesKept, DispatchTypesKept DEF Next
<1> QED
  BY <1>1, <1>2

(* Whatever the constants and however the three kinds of actors interleave, every
   variable of the uplink keeps its type: the block taken by process_blocks, the
   buffer being read and the stream being written exist when they are used. *)
THEOREM TypeCorrect == Spec => []TypeOK
<1>1. TypeInv => TypeOK
  BY DEF TypeInv
<1> QED
  BY TypeInit, TypeStep, <1>1, PTL DEF Spec

-----------------------------------------------------------------------------
(* Safety on cooperative threads *)

(* An application step neither touches the session nor changes its flag. *)
LEMMA AppKeepsSession ==
    ASSUME NEW t \in Threads, InCall(t) \/ Call(t)
    PROVE  UNCHANGED otherThanApp /\ (session_is_active' <=> session_is_active)
<1> USE DEF session_is_active
<1>1. CASE entry_lock(t) \/ EntryWrite(t)
  BY <1>1, Zenon DEF entry_lock, EntryWrite, entry_write, entry_write_done,
                     entry_block_full, entry_write_retry
<1>2. CASE close_begin(t)
  BY <1>2 DEF close_begin
<1>3. CASE close_lock(t) \/ Close(t)
  BY <1>3, Zenon DEF close_lock, Close, close_lock_timeout, close_block,
                     close_block_submit, close_submit
<1>4. CASE stream_open(t) \/ (\E n \in 1..MaxWrite : stream_write_begin(t, n))
  BY <1>4, Zenon DEF stream_open, stream_write_begin
<1>5. CASE StreamWrite(t)
  BY <1>5, Zenon DEF StreamWrite, stream_write, stream_write_short, stream_block_full,
                     stream_submit
<1>6. CASE stream_close(t) \/ StreamClose(t)
  BY <1>6, Zenon DEF stream_close, StreamClose, stream_close_enqueue, stream_close_submit
<1> QED
  BY <1>1, <1>2, <1>3, <1>4, <1>5, <1>6, Zenon DEF InCall, Call

LEMMA SafeInit == Init => SafeInv
<1> SUFFICES ASSUME Init PROVE SafeInv
  OBVIOUS
<1> USE DEF Init
<1>1. Exclusive /\ SessionState
  BY DEF Exclusive, SessionState, InSession, Carries, Looping, session_is_active
<1>2. Chain /\ Outside
  BY DEF Chain, Outside, InSession, Finishing
<1>3. PouchWellFormed /\ DrainedAtEnd
  BY DEF PouchWellFormed, DrainedAtEnd
<1> QED
  BY <1>1, <1>2, <1>3 DEF SafeInv

LEMMA SessionFrame ==
    ASSUME SafeInv, session_is_active' <=> session_is_active,
           UNCHANGED <<header, crypto, workerVars, outVars, tpc>>
    PROVE  SafeInv'
<1> USE DEF SafeInv, workerVars, outVars
<1>1. Exclusive' /\ SessionState'
  BY DEF Exclusive, SessionState
<1>2. Pulled' = Pulled /\ Queued' = Queued
  BY DEF Pulled, Queued
<1>3. Chain' /\ Outside'
  BY <1>2 DEF Chain, AtPlace, Outside
<1>4. PouchWellFormed' /\ DrainedAtEnd'
  BY DEF PouchWellFormed, DrainedAtEnd
<1> QED
  BY <1>1, <1>3, <1>4

LEMMA AppSafe ==
    ASSUME SafeInv, NEW t \in Threads, InCall(t) \/ Call(t)
    PROVE  SafeInv'
  BY AppKeepsSession, SessionFrame DEF otherThanApp, transportVars

(* Each step of process_blocks keeps the chain; only the ones in a session count. *)
LEMMA WorkerSafe ==
    ASSUME Cooperative = TRUE, TypeInv, SafeInv, process_blocks
    PROVE  SafeInv'
<1> USE DEF SafeInv
<1>1. UNCHANGED <<tpc, pouch, reader>>
  BY Zenon DEF process_blocks, work_start, process_loop, process_loop_open,
         process_loop_queue, process_encrypt, process_encrypt_fail, process_header,
         process_header_null, process_put, process_exit, process_close, otherThanWorker,
         transportVars
<1>2. tpc \in TransportBlocks
  BY DEF process_blocks, work_start, process_loop, process_loop_open, process_loop_queue,
         process_encrypt, process_encrypt_fail, process_header, process_header_null,
         process_put, process_exit, process_close, WorkerAt, WorkerRuns
<1>3. PouchWellFormed' /\ Exclusive'
  BY <1>1, <1>2 DEF PouchWellFormed, Exclusive
<1>4. wpc \notin Carries /\ UNCHANGED <<header, crypto, transport, flags>>
        /\ wpc' \notin Carries /\ (wpc' \in Looping => session_is_active)
      => SafeInv'
  <2> SUFFICES ASSUME wpc \notin Carries, UNCHANGED <<header, crypto, transport, flags>>,
                      wpc' \notin Carries, wpc' \in Looping => session_is_active
               PROVE  SafeInv'
    OBVIOUS
  <2>1. SessionState'
    BY <1>1 DEF SessionState, session_is_active
  <2>2. Pulled' = Pulled /\ Queued' = Queued
    BY <1>1 DEF Pulled, Queued, Carries
  <2>3. Chain'
    BY <1>1, <2>2 DEF Chain, AtPlace, Carries
  <2>4. Outside' /\ DrainedAtEnd'
    BY <1>1 DEF Outside, DrainedAtEnd
  <2> QED
    BY <1>3, <2>1, <2>3, <2>4
<1>5. CASE work_start
  BY <1>4, <1>5 DEF work_start, WorkerAt, Carries, Looping
<1>6. CASE process_loop \/ process_loop_open \/ process_loop_queue
  BY <1>4, <1>6 DEF process_loop, process_loop_open, process_loop_queue, WorkerAt, Carries,
                    Looping, SessionState
<1>7. CASE process_encrypt
  <2> USE <1>7 DEF process_encrypt, WorkerAt
  <2>1. tpc = "open"
    BY <1>2 DEF SessionState, Looping, TransportBlocks, session_is_active
  <2>2. SessionState'
    BY <1>1, <2>1 DEF SessionState, Looping, session_is_active, TypeInv, TypeOK, TransportTypes
  <2>3. Pulled' = Pulled /\ Queued' = Queued /\ crypto'.idx = crypto.idx + 1
          /\ crypto.idx \in Nat /\ crypto'.key = crypto.key
    BY <1>1 DEF Pulled, Queued, Carries, TypeInv, TypeOK, TransportTypes
  <2>4. wbuf'.type = "block" /\ wbuf'.key = crypto.key /\ wbuf'.idx = crypto.idx
    BY DEF Encrypted
  <2>5. Chain'
    BY <1>1, <2>1, <2>3, <2>4 DEF Chain, InSession, AtPlace, Carries
  <2>6. Outside' /\ DrainedAtEnd'
    BY <1>1, <2>1 DEF Outside, DrainedAtEnd, Finishing
  <2> QED
    BY <1>3, <2>2, <2>5, <2>6
<1>8. CASE process_encrypt_fail
  <2> USE <1>8 DEF process_encrypt_fail, WorkerAt
  <2>1. SessionState'
    BY <1>1 DEF SessionState, Looping, session_is_active, Carries
  <2>2. Pulled' = Pulled /\ Queued' = Queued
    BY <1>1 DEF Pulled, Queued, Carries
  <2>3. Chain'
    BY <1>1, <2>2 DEF Chain, AtPlace, Carries
  <2>4. Outside' /\ DrainedAtEnd'
    BY <1>1 DEF Outside, DrainedAtEnd
  <2> QED
    BY <1>3, <2>1, <2>3, <2>4
<1>9. CASE process_header
  <2> USE <1>9 DEF process_header, WorkerAt
  <2>1. tpc = "open"
    BY DEF SessionState, Carries
  <2>2. SessionState'
    BY <1>1, <2>1 DEF SessionState, Looping, session_is_active, Carries
  <2>3. Pulled' = Pulled /\ Queued' = Queued /\ Queued = crypto.idx - 1
    BY <1>1 DEF Pulled, Queued, Carries
  <2>4. transport \in Seq(Buffers) /\ Len(transport) \in Nat /\ Pulled \in Nat
          /\ crypto.idx \in Nat /\ header \in Buffers \union {NoBuf}
    BY DEF TypeInv, TypeOK, OutTypes, TransportTypes, Pulled, One
  <2>5. Chain'
    <3>1. CASE header = NoBuf
      BY <1>1, <2>1, <2>3, <3>1 DEF Chain, InSession, AtPlace, Carries
    <3>2. CASE header # NoBuf
      <4>1. transport = <<>> /\ Pulled = 0 /\ Queued = 0
        BY <2>1, <2>4, <3>2, EmptySeq DEF Chain, InSession
      <4>2. transport' = <<header>> /\ Len(transport') = 1 /\ transport'[1] = header
        BY <2>4, <3>2, <4>1
      <4> QED
        BY <1>1, <2>1, <2>3, <2>4, <3>2, <4>1, <4>2 DEF Chain, InSession, AtPlace, Carries
    <3> QED
      BY <3>1, <3>2
  <2>6. Outside' /\ DrainedAtEnd'
    BY <1>1, <2>1 DEF Outside, DrainedAtEnd, Finishing
  <2> QED
    BY <1>3, <2>2, <2>5, <2>6
<1>10. CASE process_header_null
  <2> USE <1>10 DEF process_header_null, WorkerAt
  <2>1. tpc = "open"
    BY DEF SessionState, Carries
  <2>2. SessionState'
    BY <1>1, <2>1 DEF SessionState, Looping, session_is_active, Carries
  <2>3. Pulled' = Pulled /\ Queued' = Queued
    BY <1>1 DEF Pulled, Queued, Carries
  <2>4. Chain'
    BY <1>1, <2>1, <2>3 DEF Chain, InSession, AtPlace, Carries
  <2>5. Outside' /\ DrainedAtEnd'
    BY <1>1, <2>1 DEF Outside, DrainedAtEnd, Finishing
  <2> QED
    BY <1>3, <2>2, <2>4, <2>5
<1>11. CASE process_put
  <2> USE <1>11 DEF process_put, WorkerAt
  <2>1. tpc = "open"
    BY DEF SessionState, Carries
  <2>2. SessionState'
    BY <1>1, <2>1 DEF SessionState, Looping, session_is_active, Carries
  <2>3. Pulled' = Pulled /\ Queued' = crypto.idx /\ Queued = crypto.idx - 1
    BY <1>1 DEF Pulled, Queued, Carries
  <2>4. transport \in Seq(Buffers) /\ Len(transport) \in Nat /\ Pulled \in Nat
          /\ crypto.idx \in Nat /\ wbuf \in Buffers
    BY DEF TypeInv, TypeOK, OutTypes, TransportTypes, WorkerTypes, WorkerState, Carries,
           Pulled, One
  <2>5. Len(transport') = Len(transport) + 1 /\ transport'[Len(transport) + 1] = wbuf
          /\ \A i \in 1..Len(transport) : transport'[i] = transport[i]
    BY <2>4, AppendProperties
  <2>6. header = NoBuf /\ Pulled + Len(transport) = crypto.idx
    BY <2>1, <2>3, <2>4 DEF Chain, InSession
  <2>7. AtPlace(wbuf, Pulled + Len(transport) + 1)
    BY <2>1, <2>4, <2>6 DEF Chain, InSession, AtPlace, Carries
  <2>8. \A i \in 1..Len(transport') : AtPlace(transport'[i], Pulled + i)
    BY <2>1, <2>4, <2>5, <2>7, SMTT(30) DEF Chain, InSession
  <2>9. Chain'
    BY <1>1, <2>1, <2>3, <2>4, <2>5, <2>6, <2>8 DEF Chain, InSession, AtPlace, Carries
  <2>10. Outside' /\ DrainedAtEnd'
    BY <1>1, <2>1 DEF Outside, DrainedAtEnd, Finishing
  <2> QED
    BY <1>3, <2>2, <2>9, <2>10
<1>12. CASE process_exit \/ process_close
  <2> USE <1>12 DEF process_exit, process_close, WorkerAt
  <2>1. SessionState'
    BY <1>1 DEF SessionState, Looping, session_is_active, Carries
  <2>2. Pulled' = Pulled /\ Queued' = Queued
    BY <1>1 DEF Pulled, Queued, Carries
  <2>3. Chain'
    BY <1>1, <2>2 DEF Chain, AtPlace, Carries
  <2>4. Outside' /\ DrainedAtEnd'
    BY <1>1 DEF Outside, DrainedAtEnd
  <2> QED
    BY <1>3, <2>1, <2>3, <2>4
<1> QED
  BY <1>5, <1>6, <1>7, <1>8, <1>9, <1>10, <1>11, <1>12 DEF process_blocks

(* The transport opens, drains and leaves a session while process_blocks is idle. *)
LEMMA TransportSafe ==
    ASSUME Cooperative = TRUE, TypeInv, SafeInv,
           pouch_uplink_start \/ pouch_uplink_fill \/ pouch_uplink_finish
    PROVE  SafeInv'
<1> USE DEF SafeInv
<1>1. wpc = "idle" /\ wpc' = "idle"
  <2>1. UNCHANGED otherThanTransport
    BY Zenon DEF pouch_uplink_start, pouch_uplink_fill, pouch_uplink_finish,
       start_begin, start_session, start_crypto, start_crypto_fail, start_pouch, start_header,
       start_header_fail, start_done, fill_begin, fill_next, fill_copy_part, fill_copy_rest,
       fill_check_open, fill_check_empty, fill_end, finish_flush, finish_id, finish_clear,
       finish_end
  <2>2. wpc = "idle"
    BY DEF pouch_uplink_start, pouch_uplink_fill, pouch_uplink_finish,
       start_begin, start_session, start_crypto, start_crypto_fail, start_pouch, start_header,
       start_header_fail, start_done, fill_begin, fill_next, fill_copy_part, fill_copy_rest,
       fill_check_open, fill_check_empty, fill_end, finish_flush, finish_id, finish_clear,
       finish_end, TransportAt, TransportRuns
  <2> QED
    BY <2>1, <2>2 DEF otherThanTransport, workerVars
<1>2. Exclusive'
  BY <1>1 DEF Exclusive
<1>3. Queued = crypto.idx /\ Queued' = crypto'.idx
  BY <1>1 DEF Queued, Carries
<1>4. pouch' = pouch => PouchWellFormed'
  BY DEF PouchWellFormed
<1> USE DEF TransportAt, outVars, Finishing, InSession, Looping, session_is_active
<1>5. CASE start_begin
  <2> USE <1>5 DEF start_begin
  <2>1. SessionState' /\ Chain' /\ Outside' /\ DrainedAtEnd'
    BY <1>1 DEF SessionState, Chain, Outside, DrainedAtEnd, Carries
  <2> QED
    BY <1>2, <1>4, <2>1
<1>6. CASE start_session
  <2> USE <1>6 DEF start_session
  <2>1. SessionState' /\ Chain' /\ Outside' /\ DrainedAtEnd'
    BY <1>1 DEF SessionState, Chain, Outside, DrainedAtEnd, Carries, TypeInv, TypeOK,
                TransportTypes
  <2> QED
    BY <1>2, <1>4, <2>1
<1>7. CASE start_crypto
  <2> USE <1>7 DEF start_crypto
  <2>1. SessionState' /\ Chain' /\ Outside' /\ DrainedAtEnd'
    BY <1>1 DEF SessionState, Chain, Outside, DrainedAtEnd, Carries, TypeInv, TypeOK,
                TransportTypes
  <2>2. PouchWellFormed'
    BY DEF PouchWellFormed
  <2> QED
    BY <1>2, <2>1, <2>2
<1>19. CASE start_pouch
  <2> USE <1>19 DEF start_pouch
  <2>1. SessionState' /\ Chain' /\ Outside' /\ DrainedAtEnd'
    BY <1>1 DEF SessionState, Chain, Outside, DrainedAtEnd, Carries, TypeInv, TypeOK,
                TransportTypes
  <2> QED
    BY <1>2, <1>4, <2>1
<1>8. CASE start_crypto_fail
  <2> USE <1>8 DEF start_crypto_fail
  <2>1. SessionState' /\ Chain' /\ Outside' /\ DrainedAtEnd'
    BY <1>1 DEF SessionState, Chain, Outside, DrainedAtEnd, Carries
  <2> QED
    BY <1>2, <1>4, <2>1
<1>9. CASE start_header
  <2> USE <1>9 DEF start_header
  <2>1. SessionState' /\ Outside' /\ DrainedAtEnd'
    BY <1>1 DEF SessionState, Outside, DrainedAtEnd, Carries
  <2>2. header' # NoBuf /\ header'.type = "header" /\ header'.key = crypto.key
    BY HeaderType, NoBufAssumption DEF Header, TypeInv, TypeOK, TransportTypes
  <2>3. pouch' = <<>> /\ transport' = <<>> /\ reader' = NoBuf /\ Pulled' = 0 /\ Queued' = 0
    BY <1>3 DEF Outside, Pulled, One
  <2>4. Chain'
    BY <1>1, <2>2, <2>3 DEF Chain, Carries
  <2> QED
    BY <1>2, <1>4, <2>1, <2>4
<1>10. CASE start_header_fail
  <2> USE <1>10 DEF start_header_fail
  <2>1. SessionState' /\ Chain' /\ Outside' /\ DrainedAtEnd'
    BY <1>1 DEF SessionState, Chain, Outside, DrainedAtEnd, Carries
  <2> QED
    BY <1>2, <1>4, <2>1
(* Steps from one place inside of the session to another. *)
<1>11. CASE start_done \/ fill_begin \/ fill_check_open
  <2>1. UNCHANGED <<header, crypto, outVars>> /\ tpc \in InSession
          /\ tpc' \in {"open", "fill", "check_empty"}
    BY <1>11 DEF start_done, fill_begin, fill_check_open
  <2>2. Pulled' = Pulled
    BY <2>1 DEF Pulled
  <2>3. Chain'
    BY <1>1, <1>3, <2>1, <2>2 DEF Chain, AtPlace, Carries
  <2>4. SessionState' /\ Outside' /\ DrainedAtEnd'
    BY <1>1, <2>1 DEF SessionState, Outside, DrainedAtEnd, Carries
  <2> QED
    BY <1>2, <1>4, <2>1, <2>3, <2>4
<1>12. CASE fill_next
  <2> USE <1>12 DEF fill_next
  <2>1. transport \in Seq(Buffers) /\ Len(transport) \in Nat /\ Len(pouch) \in Nat
    BY DEF TypeInv, TypeOK, OutTypes
  <2>2. SessionState' /\ Outside' /\ DrainedAtEnd'
    BY <1>1 DEF SessionState, Outside, DrainedAtEnd, Carries
  <2>3. CASE transport = <<>>
    <3>1. Pulled' = Pulled
      BY <2>3 DEF Pulled
    <3>2. Chain'
      BY <1>1, <1>3, <2>3, <3>1 DEF Chain, AtPlace, Carries
    <3> QED
      BY <1>2, <1>4, <2>2, <3>2
  <2>4. CASE transport # <<>>
    <3>1. reader'.buf = transport[1] /\ reader' # NoBuf
      <4>1. Head(transport) \in Buffers /\ Head(transport) = transport[1]
        BY <2>1, <2>4
      <4>2. reader' \in Readers
        BY <2>4, <4>1, ConstantsAssumption DEF Readers
      <4> QED
        BY <2>4, <4>1, <4>2, NoBufAssumption
    <3>2. Len(transport) >= 1 /\ Len(transport') = Len(transport) - 1
            /\ \A i \in 1..Len(transport') : transport'[i] = transport[i + 1]
      BY <2>1, <2>4, EmptySeq, HeadTailProperties
    <3>3. Pulled = Len(pouch) /\ Pulled' = Len(pouch) + 1
      BY <2>1, <3>1 DEF Pulled, One
    <3>4. \A j \in 1..Len(transport) : AtPlace(transport[j], Len(pouch) + j)
      BY <3>3 DEF Chain
    <3>5. \A i \in 1..Len(transport') : AtPlace(transport'[i], Pulled' + i)
      <4> SUFFICES ASSUME NEW i \in 1..Len(transport')
                   PROVE  AtPlace(transport'[i], Pulled' + i)
        OBVIOUS
      <4>1. i + 1 \in 1..Len(transport) /\ Len(pouch) + (i + 1) = Pulled' + i
        BY <2>1, <3>2, <3>3
      <4>2. transport'[i] = transport[i + 1]
        BY <3>2
      <4> HIDE DEF fill_next
      <4> QED
        BY <3>4, <4>1, <4>2
    <3>6. AtPlace(reader'.buf, Len(pouch) + 1)
      <4>1. 1 \in 1..Len(transport)
        BY <2>1, <3>2
      <4> HIDE DEF fill_next
      <4> QED
        BY <3>1, <3>4, <4>1
    <3>7. Pulled' + Len(transport') = Pulled + Len(transport)
      BY <2>1, <3>2, <3>3
    <3>8. UNCHANGED <<pouch, header, crypto>> /\ tpc' = "fill"
      BY <2>4
    <3>9. Chain'
      BY <1>1, <1>3, <3>1, <3>5, <3>6, <3>7, <3>8 DEF Chain, AtPlace, Carries
    <3> QED
      BY <1>2, <1>4, <2>2, <3>9
  <2> QED
    BY <2>3, <2>4
<1>13. CASE \E n \in 1..(BufUnits - 1) : fill_copy_part(n)
  <2> PICK n \in 1..(BufUnits - 1) : fill_copy_part(n)
    BY <1>13
  <2> USE DEF fill_copy_part
  <2>1. reader'.buf = reader.buf /\ reader' # NoBuf
    <3>1. reader \in Readers /\ reader.left - n \in 1..BufUnits
      BY ConstantsAssumption DEF TypeInv, TypeOK, OutTypes, Readers
    <3>2. reader' \in Readers /\ reader'.buf = reader.buf
      BY <3>1 DEF Readers
    <3> QED
      BY <3>2, NoBufAssumption
  <2>2. Pulled' = Pulled
    BY <2>1 DEF Pulled, One
  <2>3. Chain'
    BY <1>1, <1>3, <2>1, <2>2 DEF Chain, AtPlace, Carries
  <2>4. SessionState' /\ Outside' /\ DrainedAtEnd'
    BY <1>1 DEF SessionState, Outside, DrainedAtEnd, Carries
  <2> QED
    BY <1>2, <1>4, <2>3, <2>4
<1>14. CASE fill_copy_rest
  <2> USE <1>14 DEF fill_copy_rest
  <2>1. reader.buf \in Buffers /\ pouch \in Seq(Buffers) /\ Len(pouch) \in Nat
          /\ transport \in Seq(Buffers)
    BY DEF TypeInv, TypeOK, OutTypes, Readers
  <2>2. Len(pouch') = Len(pouch) + 1 /\ pouch'[Len(pouch) + 1] = reader.buf
          /\ \A i \in 1..Len(pouch) : pouch'[i] = pouch[i]
    BY <2>1, AppendProperties
  <2>3. Pulled' = Pulled
    BY <2>1, <2>2 DEF Pulled, One
  <2>4. \A i \in 1..Len(pouch') : AtPlace(pouch'[i], i)
    BY <2>1, <2>2 DEF Chain
  <2>5. Chain'
    BY <1>1, <1>3, <2>3, <2>4 DEF Chain, AtPlace, Carries
  <2>6. PouchWellFormed'
    BY <2>1, <2>2, <2>4 DEF PouchWellFormed, AtPlace
  <2>7. SessionState' /\ Outside' /\ DrainedAtEnd'
    BY <1>1 DEF SessionState, Outside, DrainedAtEnd, Carries
  <2> QED
    BY <1>2, <2>5, <2>6, <2>7
<1>15. CASE fill_check_empty
  <2> USE <1>15 DEF fill_check_empty
  <2>1. Pulled' = Pulled
    BY DEF Pulled
  <2>2. Chain'
    BY <1>1, <1>3, <2>1 DEF Chain, AtPlace, Carries
  <2>3. SessionState' /\ Outside'
    BY <1>1 DEF SessionState, Outside, Carries
  <2>4. DrainedAtEnd'
    <3> SUFFICES ASSUME tpc' = "end"
                 PROVE  Len(pouch) = IF crypto.idx = 0 THEN 0 ELSE crypto.idx + 1
      BY DEF DrainedAtEnd
    <3>1. Pulled = Len(pouch) /\ Len(transport) = 0 /\ crypto.idx \in Nat /\ Len(pouch) \in Nat
      BY EmptySeq DEF Pulled, One, TypeInv, TypeOK, OutTypes, TransportTypes
    <3> QED
      BY <1>1, <1>3, <3>1 DEF Chain
  <2> QED
    BY <1>2, <1>4, <2>2, <2>3, <2>4
<1>16. CASE fill_end
  <2> USE <1>16 DEF fill_end, end_session
  <2>1. crypto'.idx = crypto.idx
    BY DEF crypto_session_end, TypeInv, TypeOK, TransportTypes
  <2>2. SessionState' /\ Chain' /\ Outside' /\ DrainedAtEnd'
    BY <1>1, <2>1 DEF SessionState, Chain, Outside, DrainedAtEnd, Carries
  <2> QED
    BY <1>2, <1>4, <2>2
<1>17. CASE finish_flush \/ finish_id \/ finish_clear
  <2>1. SessionState' /\ Chain' /\ Outside' /\ DrainedAtEnd'
    BY <1>1, <1>17 DEF finish_flush, finish_id, finish_clear, SessionState, Chain, Outside,
                       DrainedAtEnd, Carries
  <2> QED
    BY <1>2, <1>4, <1>17, <2>1 DEF finish_flush, finish_id, finish_clear
<1>18. CASE finish_end
  <2> USE <1>18 DEF finish_end, end_session
  <2>1. SessionState' /\ Chain' /\ Outside' /\ DrainedAtEnd'
    BY <1>1 DEF SessionState, Chain, Outside, DrainedAtEnd, Carries
  <2> QED
    BY <1>2, <1>4, <2>1
<1> QED
  BY <1>5, <1>6, <1>7, <1>8, <1>9, <1>10, <1>11, <1>12, <1>13, <1>14, <1>15, <1>16, <1>17,
     <1>18, <1>19 DEF pouch_uplink_start, pouch_uplink_fill, pouch_uplink_finish

(* SafeInv is inductive relative to TypeInv. *)
LEMMA SafeStep ==
    ASSUME Cooperative = TRUE
    PROVE  TypeInv /\ SafeInv /\ [Next]_vars => SafeInv'
<1> SUFFICES ASSUME TypeInv, SafeInv, [Next]_vars PROVE SafeInv'
  OBVIOUS
<1>1. CASE UNCHANGED vars
  BY <1>1, SessionFrame DEF vars, transportVars, session_is_active
<1>2. CASE dispatch_events
  BY <1>2, SessionFrame DEF dispatch_events, session_is_active
<1>3. CASE Next /\ ~dispatch_events
  BY <1>3, AppSafe, WorkerSafe, TransportSafe DEF Next
<1> QED
  BY <1>1, <1>2, <1>3

LEMMA Safe ==
    ASSUME Cooperative = TRUE
    PROVE  Spec => []SafeInv
  BY TypeInit, TypeStep, SafeInit, SafeStep, PTL DEF Spec

(* Every pouch the transport pulls, from any number of sessions, threads, entries
   and streams and whatever fails, is the header of its session and then the blocks
   encrypted in that session in the order of their indices. *)
THEOREM PouchesWellFormed ==
    ASSUME Cooperative = TRUE
    PROVE  Spec => []PouchWellFormed
<1>1. SafeInv => PouchWellFormed
  BY DEF SafeInv
<1> QED
  BY Safe, <1>1, PTL

(* pouch_uplink_finish, however early the transport calls it, leaves no header, no
   buffer being read and no encrypted block to the next session. *)
THEOREM NothingIsLeftOver ==
    ASSUME Cooperative = TRUE
    PROVE  Spec => []NothingLeftOver
<1>1. SafeInv => NothingLeftOver
  BY DEF SafeInv, Outside, NothingLeftOver
<1> QED
  BY Safe, <1>1, PTL

(* NO_MORE_DATA is returned only after the header and every block that was
   encrypted in the session have been pulled. *)
THEOREM SessionsDrained ==
    ASSUME Cooperative = TRUE
    PROVE  Spec => []DrainedAtEnd
<1>1. SafeInv => DrainedAtEnd
  BY DEF SafeInv
<1> QED
  BY Safe, <1>1, PTL
================================================================================
