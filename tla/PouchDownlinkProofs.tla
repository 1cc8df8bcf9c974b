-------------------------- MODULE PouchDownlinkProofs --------------------------
(***************************************************************************)
(* Theorems about PouchDownlink, for every value of its constants.         *)
(***************************************************************************)
EXTENDS PouchDownlink, SequenceFacts, SequenceTheorems, TLAPS

LOCAL INSTANCE SequencesExt

-----------------------------------------------------------------------------
(* The inductive invariant *)

(* The buffers and the pouch that a step of the transport relies on *)
PushState ==
    /\ tpc # "idle" \/ rest # <<>> => sending >= 1
    /\ tpc \in {"header", "crypto", "block"} => pouch_buf # NoBuf
    /\ tpc \in {"header", "crypto"} => ~pouch_header
    /\ tpc = "crypto" => Len(pouch_buf) >= HeaderUnits

(* Between two blocks the buffer has space, unless the block in it is too big. *)
Room ==
    (tpc \in {"idle", "push", "submit"} /\ pouch_header /\ pouch_buf \notin {NoBuf, <<>>}
        /\ BlockSize(pouch_buf) <= Capacity) => Len(pouch_buf) < Capacity

(* decrypt_blocks is pending only if there is a block for it: the transport's
   submission and the work's own come while the other does not run. *)
WorkState ==
    /\ decrypt_work => decrypt_q # <<>>
    /\ tpc = "submit" => decrypt_q # <<>> /\ dpc = "idle"
    /\ dpc # "idle" => ~decrypt_work
    /\ dpc \in {"decrypt", "put"} <=> dbuf # NoBuf
    /\ cpc = "deliver" <=> cbuf # NoBuf

(* A session with a key has an ID. *)
KeyState == downlink.key # NoKey => downlink.id \in Sessions

(* No buffer with an owner has been freed, and those without one were left behind
   by the start of another pouch. *)
Counted == bufs \in Nat /\ bufs >= Queued + One(pouch_buf) /\ bufs <= Queued + sending

Types == PushTypes /\ DecryptTypes /\ ConsumeTypes /\ SessionTypes /\ dropped \in BOOLEAN

Inv == Types /\ PushState /\ Room /\ WorkState /\ KeyState /\ Counted

-----------------------------------------------------------------------------
(* Sequences *)

LEMMA TakeType ==
    ASSUME NEW S, NEW s \in Seq(S), NEW n \in Nat, n <= Len(s)
    PROVE  Take(s, n) \in Seq(S) /\ Len(Take(s, n)) = n
<1>1. Len(s) \in Nat /\ \A i \in 1..n : s[i] \in S
  BY LenProperties, ElementOfSeq
<1>2. \A i \in 1..n : i \in 1..Len(s)
  BY <1>1
<1> QED
  BY <1>1, <1>2, SubSeqProperties DEF Take

LEMMA DropType ==
    ASSUME NEW S, NEW s \in Seq(S), NEW n \in Nat, n <= Len(s)
    PROVE  Drop(s, n) \in Seq(S) /\ Len(Drop(s, n)) = Len(s) - n
<1>1. Len(s) \in Nat
  BY LenProperties
<1> QED
  BY <1>1, SubSeqProperties DEF Drop

LEMMA Nonempty ==
    ASSUME NEW S, NEW s \in Seq(S)
    PROVE  s = <<>> <=> Len(s) = 0
  BY EmptySeq

(* A block that was assembled is a block, and what follows it is shorter. *)
LEMMA FirstBlock ==
    ASSUME NEW b \in Seq(Units), b # <<>>
    PROVE  /\ BlockSize(b) \in Nat \ {0}
           /\ BlockSize(b) <= Len(b) =>
                /\ Take(b, BlockSize(b)) \in Blocks
                /\ Drop(b, BlockSize(b)) \in Seq(Units)
                /\ Len(Drop(b, BlockSize(b))) < Len(b)
<1>1. Len(b) \in Nat \ {0}
  BY LenProperties, Nonempty
<1>2. b[1] \in Units
  BY <1>1, ElementOfSeq
<1>3. BlockSize(b) \in Nat \ {0}
  BY <1>2 DEF BlockSize, Units
<1>4. ASSUME BlockSize(b) <= Len(b)
      PROVE  /\ Take(b, BlockSize(b)) \in Blocks
             /\ Drop(b, BlockSize(b)) \in Seq(Units)
             /\ Len(Drop(b, BlockSize(b))) < Len(b)
  <2>1. Take(b, BlockSize(b)) \in Seq(Units) /\ Len(Take(b, BlockSize(b))) # 0
    BY <1>3, <1>4, TakeType
  <2>2. Drop(b, BlockSize(b)) \in Seq(Units)
        /\ Len(Drop(b, BlockSize(b))) = Len(b) - BlockSize(b)
    BY <1>3, <1>4, DropType
  <2> QED
    BY <1>1, <1>3, <2>1, <2>2, Nonempty DEF Blocks
<1> QED
  BY <1>3, <1>4

(* A buffer is not NULL. *)
LEMMA BlockNotNull == \A b \in Blocks : b # NoBuf /\ b \in Seq(Units) /\ b # <<>>
  BY DownlinkAssumption DEF Blocks

LEMMA BufferNotNull == <<>> \in Seq(Units) /\ \A b \in Seq(Units) : b # NoBuf
<1>1. <<>> \in Seq(Units)
  BY EmptySeq
<1> QED
  BY <1>1, DownlinkAssumption

LEMMA OneType == \A b : One(b) \in Nat /\ (One(b) = IF b = NoBuf THEN 0 ELSE 1)
  BY DEF One

(* A buffer that stays with its owner is still counted. *)
LEMMA OneSame ==
    ASSUME pouch_buf' = pouch_buf, bufs' = bufs, bufs \in Nat
    PROVE  bufs' \in Int /\ bufs' >= bufs + One(pouch_buf') - One(pouch_buf)
<1>1. One(pouch_buf) \in Nat /\ One(pouch_buf') = One(pouch_buf)
  BY DEF One
<1> QED
  BY <1>1

(* How the queues grow and shrink *)
LEMMA QueueType ==
    ASSUME NEW q \in Seq(Blocks)
    PROVE  /\ Len(q) \in Nat
           /\ \A b \in Blocks : Append(q, b) \in Seq(Blocks) /\ Len(Append(q, b)) = Len(q) + 1
                                /\ Append(q, b) # <<>>
           /\ q # <<>> => /\ Head(q) \in Blocks /\ Tail(q) \in Seq(Blocks)
                          /\ Len(Tail(q)) = Len(q) - 1
<1>1. Len(q) \in Nat
  BY LenProperties
<1>2. ASSUME NEW b \in Blocks
      PROVE  Append(q, b) \in Seq(Blocks) /\ Len(Append(q, b)) = Len(q) + 1
             /\ Append(q, b) # <<>>
  BY <1>1, AppendProperties
<1>3. ASSUME q # <<>>
      PROVE  /\ Head(q) \in Blocks /\ Tail(q) \in Seq(Blocks)
             /\ Len(Tail(q)) = Len(q) - 1
  BY <1>3, HeadTailProperties
<1> QED
  BY <1>1, <1>2, <1>3

-----------------------------------------------------------------------------
(* The invariant holds at first. *)

LEMMA InvInit == Init => Inv
<1> SUFFICES ASSUME Init PROVE Inv
  OBVIOUS
<1> USE DownlinkAssumption DEF Init
<1>1. PushTypes
  <2>1. Len(Pouches) \in Nat /\ packet \in Seq(Units) /\ rest \in Seq(Units)
    BY LenProperties, EmptySeq
  <2>2. pouch_header \in BOOLEAN
    BY Zenon
  <2> QED
    BY <2>1, <2>2 DEF PushTypes
<1>2. DecryptTypes /\ ConsumeTypes
  BY EmptySeq DEF DecryptTypes, ConsumeTypes
<1>3. SessionTypes /\ KeyState
  BY DEF SessionTypes, KeyState, NoSession
<1>4. PushState /\ Room /\ WorkState
  BY DEF PushState, Room, WorkState
<1>5. Counted
  BY EmptySeq DEF Counted, Queued, One
<1>6. dropped \in BOOLEAN
  BY Zenon
<1> QED
  BY <1>1, <1>2, <1>3, <1>4, <1>5, <1>6 DEF Inv, Types

-----------------------------------------------------------------------------
(* Transport *)

(* What a step of the transport does to the count of buffers *)
LEMMA CountStep ==
    ASSUME NEW b \in Nat, NEW c \in Int, NEW q \in Nat, NEW o \in Nat, NEW p \in Nat,
           NEW s \in Nat, NEW t \in Nat,
           b >= q + o, b <= q + s, c >= b + p - o, c <= b + t - s
    PROVE  c \in Nat /\ c >= q + p /\ c <= q + t
  OBVIOUS

LEMMA CountQueued ==
    ASSUME Len(decrypt_q) \in Nat, Len(decrypt_q') = Len(decrypt_q) + 1, Len(consume_q) \in Nat,
           dbuf' = dbuf, cbuf' = cbuf, consume_q' = consume_q
    PROVE  Queued \in Nat /\ Queued' = Queued + 1
<1>1. One(dbuf) \in Nat /\ One(cbuf) \in Nat
  BY OneType
<1>2. One(dbuf') = One(dbuf) /\ One(cbuf') = One(cbuf) /\ Len(consume_q') = Len(consume_q)
  OBVIOUS
<1> QED
  BY <1>1, <1>2 DEF Queued

(* Most steps of the transport touch only its own state and its buffer. *)
LEMMA PushFrame ==
    ASSUME Inv, tpc' # "submit",
           UNCHANGED <<decryptVars, consumeVars, sessionVars, decrypt_q, decrypt_work,
                       consume_q, consume_work>>,
           PushTypes', PushState', Room', dropped' \in BOOLEAN,
           sending' \in Nat, bufs' \in Int, bufs' >= bufs + One(pouch_buf') - One(pouch_buf),
           bufs' <= bufs + sending' - sending
    PROVE  Inv'
<1> USE DEF decryptVars, consumeVars, sessionVars
<1>1. DecryptTypes' /\ ConsumeTypes' /\ SessionTypes'
  BY DEF Inv, Types, DecryptTypes, ConsumeTypes, SessionTypes
<1>2. WorkState' /\ KeyState'
  BY DEF Inv, WorkState, KeyState
<1>3. Len(decrypt_q) \in Nat /\ Len(consume_q) \in Nat
  BY LenProperties DEF Inv, Types, DecryptTypes, ConsumeTypes
<1>4. Queued \in Nat /\ Queued' = Queued
  BY <1>3, OneType DEF Queued
<1>5. Counted'
  <2>1. sending \in Nat /\ One(pouch_buf) \in Nat /\ One(pouch_buf') \in Nat
    BY OneType, DownlinkAssumption DEF Inv, Types, PushTypes
  <2>2. bufs \in Nat /\ bufs >= Queued + One(pouch_buf) /\ bufs <= Queued + sending
    BY DEF Inv, Counted
  <2>3. bufs' \in Nat /\ bufs' >= Queued + One(pouch_buf') /\ bufs' <= Queued + sending'
    BY <1>4, <2>1, <2>2, CountStep
  <2> QED
    BY <1>4, <2>3 DEF Counted
<1> QED
  BY <1>1, <1>2, <1>5 DEF Inv, Types

LEMMA CallStep ==
    ASSUME Inv, NEW n \in 1..MaxPush, pouch_downlink_start(n) \/ pouch_downlink_push(n)
    PROVE  Inv'
<1> USE DownlinkAssumption DEF Inv, Types, PushTypes
<1>1. CASE pouch_downlink_start(n)
  <2> USE <1>1 DEF pouch_downlink_start
  <2>1. sending + 1 \in 1..Len(Pouches) /\ n \in Nat
    OBVIOUS
  <2>2. Pouches[sending + 1] \in [sess : Sessions, pid : Nat, wire : Seq(Units)]
    BY <2>1, ElementOfSeq
  <2>3. packet' \in Seq(Units) /\ rest' \in Seq(Units)
    BY <2>1, <2>2, TakeType, DropType
  <2>4. PushTypes'
    <3>1. pouch_buf' \in Seq(Units) \union {NoBuf}
      BY BufferNotNull
    <3>2. pouch_buf' # NoBuf => Len(pouch_buf') <= Capacity
      BY EmptySeq
    <3>3. pouch_header' \in BOOLEAN
      BY Zenon
    <3> QED
      BY <2>1, <2>3, <3>1, <3>2, <3>3
  <2>5. PushState' /\ Room'
    BY DEF PushState, Room
  <2>6. /\ sending' \in Nat /\ bufs' \in Int
        /\ bufs' >= bufs + One(pouch_buf') - One(pouch_buf)
        /\ bufs' <= bufs + sending' - sending
    <3>1. One(pouch_buf) \in Nat
      BY DEF One
    <3>2. CASE pouch_buf' = <<>> /\ bufs' = bufs + 1
      <4>1. One(pouch_buf') = 1
        BY <3>2, BufferNotNull DEF One
      <4> QED
        BY <3>1, <3>2, <4>1 DEF Counted
    <3>3. CASE pouch_buf' = NoBuf /\ UNCHANGED bufs
      <4>1. One(pouch_buf') = 0
        BY <3>3 DEF One
      <4> QED
        BY <3>1, <3>3, <4>1 DEF Counted
    <3> QED
      BY <3>2, <3>3
  <2>7. dropped' \in BOOLEAN
    BY Zenon
  <2> QED
    BY <2>4, <2>5, <2>6, <2>7, PushFrame
<1>2. CASE pouch_downlink_push(n)
  <2> USE <1>2 DEF pouch_downlink_push, TransportAt
  <2>1. packet' \in Seq(Units) /\ rest' \in Seq(Units)
    BY TakeType, DropType
  <2>2. rest # <<>>
    BY EmptySeq
  <2>3. PushTypes'
    BY <2>1
  <2>4. PushState' /\ Room'
    BY <2>2 DEF PushState, Room
  <2>5. /\ sending' \in Nat /\ bufs' \in Int
        /\ bufs' >= bufs + One(pouch_buf') - One(pouch_buf)
        /\ bufs' <= bufs + sending' - sending
    BY OneSame DEF Counted
  <2> QED
    BY <2>3, <2>4, <2>5, PushFrame
<1> QED
  BY <1>1, <1>2

(* The end of a packet, whether it was used up or is thrown away *)
LEMMA ReturnStep ==
    ASSUME Inv, push_end \/ push_no_space \/ push_header_incomplete
                \/ push_header_refused \/ push_header_no_key \/ push_block_too_big
    PROVE  Inv'
<1> USE DownlinkAssumption DEF Inv, Types, PushTypes
<1> USE DEF push_end, push_no_space, push_header_incomplete, push_header_refused,
            push_header_no_key, push_block_too_big, push_return, TransportAt
<1>1. PushTypes'
  BY EmptySeq
<1>2. PushState'
  BY DEF PushState
<1>3. Room'
  <2>1. CASE push_block_too_big
    <3>1. BlockSize(pouch_buf) \in Nat
      BY <2>1, FirstBlock DEF PushState
    <3> QED
      BY <2>1, <3>1 DEF Room, BlockSize
  <2>2. CASE push_end \/ push_no_space
    BY <2>2 DEF Room
  <2>3. CASE push_header_incomplete \/ push_header_refused \/ push_header_no_key
    BY <2>3 DEF Room, PushState
  <2> QED
    BY <2>1, <2>2, <2>3
<1>4. /\ sending' \in Nat /\ bufs' \in Int
      /\ bufs' >= bufs + One(pouch_buf') - One(pouch_buf)
      /\ bufs' <= bufs + sending' - sending
  BY OneSame DEF Counted
<1>5. dropped' \in BOOLEAN
  BY Zenon
<1>6. UNCHANGED <<decryptVars, consumeVars, sessionVars, decrypt_q, decrypt_work,
                  consume_q, consume_work>> /\ tpc' # "submit"
  OBVIOUS
<1> QED
  BY <1>1, <1>2, <1>3, <1>4, <1>5, <1>6, PushFrame

LEMMA WriteStep ==
    ASSUME Inv, push_write
    PROVE  Inv'
<1> USE DownlinkAssumption DEF Inv, Types, PushTypes, push_write, TransportAt
<1> DEFINE n == Least(Len(packet), Capacity - Len(pouch_buf))
<1>1. pouch_buf \in Seq(Units) /\ Len(pouch_buf) \in Nat /\ Len(packet) \in Nat
  BY LenProperties
<1>2. n \in Nat /\ n <= Len(packet) /\ n <= Capacity - Len(pouch_buf)
  BY <1>1 DEF Least
<1>3. /\ Take(packet, n) \in Seq(Units) /\ Len(Take(packet, n)) = n
      /\ Drop(packet, n) \in Seq(Units)
  BY <1>2, TakeType, DropType
<1>4. pouch_buf' \in Seq(Units) /\ Len(pouch_buf') = Len(pouch_buf) + n
  BY <1>1, <1>3, ConcatProperties, ZenonT(30)
<1>5. PushTypes'
  BY <1>1, <1>2, <1>3, <1>4
<1>6. pouch_buf' # NoBuf
  BY <1>4, BufferNotNull
<1>7. PushState' /\ Room'
  BY <1>6 DEF PushState, Room
<1>8. /\ sending' \in Nat /\ bufs' \in Int
      /\ bufs' >= bufs + One(pouch_buf') - One(pouch_buf)
      /\ bufs' <= bufs + sending' - sending
  BY <1>6 DEF Counted, One
<1> QED
  BY <1>5, <1>7, <1>8, PushFrame

LEMMA HeaderStep ==
    ASSUME Inv, push_header \/ downlink_session_start
    PROVE  Inv'
<1> USE DownlinkAssumption DEF Inv, Types, PushTypes, TransportAt
<1>1. CASE push_header
  <2> USE <1>1 DEF push_header
  <2>1. PushTypes' /\ PushState' /\ Room'
    BY DEF PushState, Room
  <2>2. /\ sending' \in Nat /\ bufs' \in Int
        /\ bufs' >= bufs + One(pouch_buf') - One(pouch_buf)
        /\ bufs' <= bufs + sending' - sending
    BY OneSame DEF Counted
  <2> QED
    BY <2>1, <2>2, PushFrame
<1>2. CASE downlink_session_start
  <2> USE <1>2 DEF downlink_session_start
  <2>1. pouch_buf \in Seq(Units) /\ Len(pouch_buf) \in Nat /\ HeaderUnits <= Len(pouch_buf)
    BY LenProperties DEF PushState
  <2>2. pouch_buf' \in Seq(Units) /\ Len(pouch_buf') = Len(pouch_buf) - HeaderUnits
    BY <2>1, DropType
  <2>3. PushTypes'
    BY <2>1, <2>2
  <2>4. pouch_buf' # NoBuf
    BY <2>2, BufferNotNull
  <2>5. PushState' /\ Room'
    BY <2>4 DEF PushState, Room
  <2>6. sending \in 1..Len(Pouches)
    BY DEF PushState
  <2>7. HeaderSession \in Sessions /\ Pouches[sending].pid \in Nat
    <3>1. Pouches[sending] \in [sess : Sessions, pid : Nat, wire : Seq(Units)]
      BY <2>6, ElementOfSeq
    <3> QED
      BY <3>1 DEF HeaderSession
  <2>8. SessionTypes' /\ KeyState'
    BY <2>7 DEF SessionTypes, KeyState
  <2>9. DecryptTypes' /\ ConsumeTypes'
    BY DEF DecryptTypes, ConsumeTypes, decryptVars, consumeVars
  <2>10. WorkState'
    BY DEF WorkState, decryptVars, consumeVars
  <2>11. Counted'
    BY <2>1, <2>4, BufferNotNull DEF Counted, Queued, One, decryptVars, consumeVars
  <2> QED
    BY <2>3, <2>5, <2>8, <2>9, <2>10, <2>11
<1> QED
  BY <1>1, <1>2

LEMMA BlockStep ==
    ASSUME Inv, push_block_incomplete \/ push_block \/ push_submit
    PROVE  Inv'
<1> USE DownlinkAssumption DEF Inv, Types, PushTypes, TransportAt
<1>1. CASE push_block_incomplete
  <2> USE <1>1 DEF push_block_incomplete
  <2>1. ASSUME pouch_buf # <<>>
        PROVE  Len(pouch_buf) \in Nat /\ BlockSize(pouch_buf) \in Nat
    BY <2>1, FirstBlock, LenProperties DEF PushState
  <2>2. PushTypes' /\ PushState'
    BY DEF PushState
  <2>3. Room'
    BY <2>1 DEF Room, BlockSize
  <2>4. /\ sending' \in Nat /\ bufs' \in Int
        /\ bufs' >= bufs + One(pouch_buf') - One(pouch_buf)
        /\ bufs' <= bufs + sending' - sending
    BY OneSame DEF Counted
  <2> QED
    BY <2>2, <2>3, <2>4, PushFrame
<1>2. CASE push_block
  <2> USE <1>2 DEF push_block
  <2> DEFINE size == BlockSize(pouch_buf)
  <2>1. pouch_buf \in Seq(Units) /\ pouch_buf # NoBuf /\ Len(pouch_buf) \in Nat
    BY LenProperties DEF PushState
  <2>2. /\ size \in Nat \ {0} /\ Take(pouch_buf, size) \in Blocks
        /\ Drop(pouch_buf, size) \in Seq(Units) /\ Len(Drop(pouch_buf, size)) < Len(pouch_buf)
    BY <2>1, FirstBlock
  <2>3. Len(Drop(pouch_buf, size)) \in Nat
    BY <2>2, LenProperties
  <2>4. PushTypes' /\ (pouch_buf' # NoBuf => Len(pouch_buf') < Capacity)
    BY <2>1, <2>2, <2>3
  <2>5. PushState' /\ Room'
    BY <2>4 DEF PushState, Room
  <2>6. PICK b \in Blocks : decrypt_q' = Append(decrypt_q, b)
    BY <2>1, <2>2 DEF Blocks
  <2>7. /\ decrypt_q' \in Seq(Blocks) /\ decrypt_q' # <<>>
        /\ Len(decrypt_q) \in Nat /\ Len(decrypt_q') = Len(decrypt_q) + 1
    BY <2>6, QueueType DEF DecryptTypes
  <2>8. DecryptTypes' /\ ConsumeTypes' /\ SessionTypes'
    BY <2>7 DEF DecryptTypes, ConsumeTypes, SessionTypes, decryptVars, consumeVars,
                sessionVars
  <2>9. WorkState' /\ KeyState'
    BY <2>7 DEF WorkState, KeyState, TransportRuns, decryptVars, consumeVars, sessionVars
  <2>10. Len(consume_q) \in Nat
    BY QueueType DEF ConsumeTypes
  <2>11. Queued \in Nat /\ Queued' = Queued + 1
    <3>1. dbuf' = dbuf /\ cbuf' = cbuf /\ consume_q' = consume_q
      BY DEF decryptVars, consumeVars
    <3> QED
      BY <2>7, <2>10, <3>1, CountQueued, Zenon
  <2>12. One(pouch_buf) = 1 /\ One(pouch_buf') \in {0, 1}
    BY <2>1, OneType
  <2>13. Counted'
    <3>1. CASE bufs' = bufs + 1
      BY <3>1, <2>11, <2>12 DEF Counted
    <3>2. CASE pouch_buf' = NoBuf /\ bufs' = bufs
      <4>1. One(pouch_buf') = 0
        BY <3>2, OneType
      <4> QED
        BY <3>2, <4>1, <2>11, <2>12 DEF Counted
    <3> QED
      BY <3>1, <3>2
  <2> QED
    BY <2>4, <2>5, <2>8, <2>9, <2>13
<1>3. CASE push_submit
  <2> USE <1>3 DEF push_submit, decryptVars, consumeVars, sessionVars
  <2>1. PushTypes' /\ PushState' /\ Room'
    BY DEF PushState, Room
  <2>2. DecryptTypes' /\ ConsumeTypes' /\ SessionTypes'
    BY DEF DecryptTypes, ConsumeTypes, SessionTypes
  <2>3. WorkState' /\ KeyState' /\ Counted'
    BY DEF WorkState, KeyState, Counted, Queued
  <2> QED
    BY <2>1, <2>2, <2>3
<1> QED
  BY <1>1, <1>2, <1>3

-----------------------------------------------------------------------------
(* Work queues *)

(* A step of the work queues leaves the transport alone, as does the uplink. *)
LEMMA QueueFrame ==
    ASSUME Inv, UNCHANGED pushVars,
           DecryptTypes', ConsumeTypes', SessionTypes', dropped' \in BOOLEAN,
           WorkState', KeyState', Counted'
    PROVE  Inv'
  BY DEF Inv, Types, PushTypes, PushState, Room, pushVars

(* The queues' lengths are numbers and what they hold are blocks. *)
LEMMA DecryptStep ==
    ASSUME Inv, decrypt_blocks \/ crypto_session_end
    PROVE  Inv'
<1> USE DownlinkAssumption DEF Inv, Types, consumeVars, sessionVars
<1>0. /\ Len(decrypt_q) \in Nat /\ Len(consume_q) \in Nat
      /\ One(pouch_buf) \in Nat /\ One(dbuf) \in Nat /\ One(cbuf) \in Nat /\ sending \in Nat
  BY QueueType, OneType DEF DecryptTypes, ConsumeTypes, PushTypes
<1>1. CASE crypto_session_end
  <2> USE <1>1 DEF crypto_session_end, decryptVars
  <2>1. SessionTypes' /\ KeyState'
    BY DEF SessionTypes, KeyState
  <2>2. DecryptTypes' /\ ConsumeTypes' /\ WorkState' /\ Counted'
    BY DEF DecryptTypes, ConsumeTypes, WorkState, Counted, Queued, pushVars
  <2> QED
    BY <2>1, <2>2, QueueFrame
<1>2. CASE decrypt_begin
  <2> USE <1>2 DEF decrypt_begin, DecryptAt, DecryptRuns, TransportBlocks
  <2>1. decrypt_q # <<>>
    BY DEF WorkState
  <2>2. /\ dbuf' \in Blocks /\ decrypt_q' \in Seq(Blocks)
        /\ Len(decrypt_q') = Len(decrypt_q) - 1
    BY <2>1, QueueType DEF DecryptTypes
  <2>3. dbuf' # NoBuf
    BY <2>2, BlockNotNull
  <2>4. DecryptTypes' /\ ConsumeTypes' /\ SessionTypes'
    BY <2>2 DEF DecryptTypes, ConsumeTypes, SessionTypes
  <2>5. WorkState' /\ KeyState'
    BY <2>3 DEF WorkState, KeyState, pushVars
  <2>6. /\ One(dbuf) = 0 /\ One(dbuf') = 1 /\ sending' = sending
        /\ One(pouch_buf') = One(pouch_buf) /\ One(cbuf') = One(cbuf)
    BY <2>3 DEF One, pushVars, WorkState
  <2>7. Counted'
    BY <1>0, <2>2, <2>6 DEF Counted, Queued
  <2> QED
    BY <2>4, <2>5, <2>7, QueueFrame
<1>3. CASE decrypt_block
  <2> USE <1>3 DEF decrypt_block, DecryptAt, DecryptRuns, TransportBlocks
  <2>1. dbuf \in Seq(Units) /\ dbuf # <<>>
    BY BlockNotNull DEF DecryptTypes
  <2>2. dbuf[1] \in Units
    BY <2>1, EmptySeq, ElementOfSeq
  <2>3. Pouches[dbuf[1].pouch] \in [sess : Sessions, pid : Nat, wire : Seq(Units)]
    BY <2>2, ElementOfSeq DEF Units
  <2>4. downlink.id \in Sessions
    BY <2>3 DEF Decryptable, KeyState
  <2>5. downlink.id.num \in Nat
    BY <2>4 DEF Sessions
  <2>6. SessionTypes' /\ KeyState'
    <3>1. server' \in [pid : Nat, seqnum : Nat]
      BY <2>5 DEF SessionTypes
    <3>2. /\ downlink' \in [flags : SUBSET {"active", "valid", "has_pouch"},
                            id : Sessions \union {NoKey}, key : Sessions \union {NoKey},
                            pid : Nat, idx : Nat]
          /\ downlink'.id = downlink.id
      <4> DEFINE f == downlink.flags \union {"valid", "has_pouch"}
      <4>1. f \in SUBSET {"active", "valid", "has_pouch"} /\ downlink.idx + 1 \in Nat
        BY DEF SessionTypes
      <4>2. downlink' = [downlink EXCEPT !.flags = f, !.idx = downlink.idx + 1]
        OBVIOUS
      <4> HIDE DEF f
      <4> QED
        BY <4>1, <4>2 DEF SessionTypes
    <3> QED
      BY <2>4, <3>1, <3>2 DEF SessionTypes, KeyState
  <2>7. DecryptTypes' /\ ConsumeTypes' /\ WorkState' /\ Counted'
    BY DEF DecryptTypes, ConsumeTypes, WorkState, Counted, Queued, pushVars
  <2> QED
    BY <2>6, <2>7, QueueFrame
<1>4. CASE decrypt_fail
  <2> USE <1>4 DEF decrypt_fail, DecryptAt, DecryptRuns, TransportBlocks
  <2>1. DecryptTypes' /\ ConsumeTypes' /\ SessionTypes'
    BY DEF DecryptTypes, ConsumeTypes, SessionTypes
  <2>2. WorkState' /\ KeyState'
    BY DEF WorkState, KeyState, pushVars
  <2>3. /\ One(dbuf) = 1 /\ One(dbuf') = 0
        /\ One(pouch_buf') = One(pouch_buf) /\ One(cbuf') = One(cbuf) /\ sending' = sending
    BY DEF One, pushVars
  <2>4. Counted'
    BY <1>0, <2>3 DEF Counted, Queued
  <2> QED
    BY <2>1, <2>2, <2>4, QueueFrame
<1>5. CASE decrypt_put
  <2> USE <1>5 DEF decrypt_put, DecryptAt, DecryptRuns, TransportBlocks
  <2>1. dbuf \in Blocks /\ dbuf # NoBuf
    BY DEF WorkState, DecryptTypes
  <2>2. consume_q' \in Seq(Blocks) /\ Len(consume_q') = Len(consume_q) + 1
    BY <2>1, QueueType DEF ConsumeTypes
  <2>3. DecryptTypes' /\ ConsumeTypes' /\ SessionTypes'
    BY <2>2 DEF DecryptTypes, ConsumeTypes, SessionTypes
  <2>4. WorkState' /\ KeyState'
    BY DEF WorkState, KeyState, pushVars
  <2>5. /\ One(dbuf) = 1 /\ One(dbuf') = 0
        /\ One(pouch_buf') = One(pouch_buf) /\ One(cbuf') = One(cbuf) /\ sending' = sending
    BY <2>1 DEF One, pushVars
  <2>6. Counted'
    BY <1>0, <2>2, <2>5 DEF Counted, Queued
  <2> QED
    BY <2>3, <2>4, <2>6, QueueFrame
<1>6. CASE decrypt_again
  <2> USE <1>6 DEF decrypt_again, DecryptAt, DecryptRuns, TransportBlocks
  <2>1. decrypt_work' \in BOOLEAN
    BY Zenon
  <2>2. DecryptTypes' /\ ConsumeTypes' /\ SessionTypes'
    BY <2>1 DEF DecryptTypes, ConsumeTypes, SessionTypes
  <2>3. WorkState' /\ KeyState' /\ Counted'
    BY DEF WorkState, KeyState, Counted, Queued, pushVars
  <2> QED
    BY <2>2, <2>3, QueueFrame
<1> QED
  BY <1>1, <1>2, <1>3, <1>4, <1>5, <1>6 DEF decrypt_blocks

LEMMA ConsumeStep ==
    ASSUME Inv, consume_blocks
    PROVE  Inv'
<1> USE DownlinkAssumption DEF Inv, Types, decryptVars, sessionVars, ConsumeAt, ConsumeRuns
<1>0. /\ Len(decrypt_q) \in Nat /\ Len(consume_q) \in Nat
      /\ One(pouch_buf) \in Nat /\ One(dbuf) \in Nat /\ One(cbuf) \in Nat /\ sending \in Nat
  BY QueueType, OneType DEF DecryptTypes, ConsumeTypes, PushTypes
<1>1. CASE consume_begin
  <2> USE <1>1 DEF consume_begin
  <2>1. CASE consume_q = <<>>
    <3>1. DecryptTypes' /\ ConsumeTypes' /\ SessionTypes'
      BY <2>1 DEF DecryptTypes, ConsumeTypes, SessionTypes
    <3>2. WorkState' /\ KeyState' /\ Counted'
      BY <2>1 DEF WorkState, KeyState, Counted, Queued, pushVars
    <3> QED
      BY <3>1, <3>2, QueueFrame
  <2>2. CASE consume_q # <<>>
    <3>1. /\ cbuf' \in Blocks /\ consume_q' \in Seq(Blocks)
          /\ Len(consume_q') = Len(consume_q) - 1
      BY <2>2, QueueType DEF ConsumeTypes
    <3>2. cbuf' # NoBuf
      BY <3>1, BlockNotNull
    <3>3. DecryptTypes' /\ ConsumeTypes' /\ SessionTypes'
      BY <2>2, <3>1 DEF DecryptTypes, ConsumeTypes, SessionTypes
    <3>4. WorkState' /\ KeyState'
      BY <3>2 DEF WorkState, KeyState, pushVars
    <3>5. /\ One(cbuf) = 0 /\ One(cbuf') = 1 /\ sending' = sending
          /\ One(pouch_buf') = One(pouch_buf) /\ One(dbuf') = One(dbuf)
      BY <2>2, <3>2 DEF One, pushVars, WorkState
    <3>6. Counted'
      BY <1>0, <2>2, <3>1, <3>5 DEF Counted, Queued
    <3> QED
      BY <3>3, <3>4, <3>6, QueueFrame
  <2> QED
    BY <2>1, <2>2
<1>2. CASE consume_deliver
  <2> USE <1>2 DEF consume_deliver
  <2>1. cbuf \in Blocks /\ cbuf # NoBuf
    BY DEF WorkState, ConsumeTypes
  <2>2. delivered' \in Seq(Blocks)
    BY <2>1, QueueType DEF ConsumeTypes
  <2>3. DecryptTypes' /\ ConsumeTypes' /\ SessionTypes'
    BY <2>2 DEF DecryptTypes, ConsumeTypes, SessionTypes
  <2>4. WorkState' /\ KeyState'
    BY DEF WorkState, KeyState, pushVars
  <2>5. /\ One(cbuf) = 1 /\ One(cbuf') = 0
        /\ One(pouch_buf') = One(pouch_buf) /\ One(dbuf') = One(dbuf) /\ sending' = sending
    BY <2>1 DEF One, pushVars
  <2>6. Counted'
    BY <1>0, <2>5 DEF Counted, Queued
  <2> QED
    BY <2>3, <2>4, <2>6, QueueFrame
<1>3. CASE consume_again
  <2> USE <1>3 DEF consume_again
  <2>1. consume_work' \in BOOLEAN
    BY Zenon
  <2>2. DecryptTypes' /\ ConsumeTypes' /\ SessionTypes'
    BY <2>1 DEF DecryptTypes, ConsumeTypes, SessionTypes
  <2>3. WorkState' /\ KeyState' /\ Counted'
    BY DEF WorkState, KeyState, Counted, Queued, pushVars
  <2> QED
    BY <2>2, <2>3, QueueFrame
<1> QED
  BY <1>1, <1>2, <1>3 DEF consume_blocks

-----------------------------------------------------------------------------
(* The theorems *)

LEMMA InvStep == Inv /\ [Next]_vars => Inv'
<1> SUFFICES ASSUME Inv, [Next]_vars PROVE Inv'
  OBVIOUS
<1>1. CASE UNCHANGED vars
  BY <1>1 DEF vars, pushVars, decryptVars, consumeVars, sessionVars, Inv, Types, PushTypes,
              DecryptTypes, ConsumeTypes, SessionTypes, PushState, Room, WorkState,
              KeyState, Counted, Queued
<1>2. CASE push_loop
  BY <1>2, ReturnStep, WriteStep, HeaderStep, BlockStep DEF push_loop
<1>3. CASE \E n \in 1..MaxPush : pouch_downlink_start(n) \/ pouch_downlink_push(n)
  BY <1>3, CallStep
<1>4. CASE decrypt_blocks \/ crypto_session_end
  BY <1>4, DecryptStep
<1>5. CASE consume_blocks
  BY <1>5, ConsumeStep
<1> QED
  BY <1>1, <1>2, <1>3, <1>4, <1>5 DEF Next

LEMMA Invariance == Spec => []Inv
  BY InvInit, InvStep, PTL DEF Spec

(* Every variable keeps its type for any pouches and any packets; the assembly
   buffer of pouch_downlink_push never holds more than its capacity, and the
   buffers of buf.c are never freed more often than allocated. *)
THEOREM DownlinkTypeCorrect == Spec => []TypeOK
<1>1. Inv => TypeOK
  BY DEF Inv, Types, Counted, TypeOK
<1> QED
  BY <1>1, Invariance, PTL

(* Whatever fails or is aborted, every buffer of a block is freed once, and each
   pouch leaves at most its assembly buffer behind (pouch_downlink_start). *)
THEOREM BlocksAreFreedOnce == Spec => []OneBufferPerPouch
<1>1. Inv => OneBufferPerPouch
  <2> SUFFICES ASSUME Inv PROVE OneBufferPerPouch
    OBVIOUS
  <2>1. /\ Len(decrypt_q) \in Nat /\ Len(consume_q) \in Nat
        /\ One(pouch_buf) \in Nat /\ One(dbuf) \in Nat /\ One(cbuf) \in Nat /\ sending \in Nat
    BY QueueType, OneType DEF Inv, Types, DecryptTypes, ConsumeTypes, PushTypes
  <2> QED
    BY <2>1 DEF Inv, Counted, Queued, OneBufferPerPouch
<1> QED
  BY <1>1, Invariance, PTL

(* decrypt_blocks always finds a block in its queue, whatever the transport
   pushes, aborts or fails to allocate. *)
THEOREM NullIsNeverDecrypted == Spec => []NullNeverDecrypted
<1>1. Inv => NullNeverDecrypted
  BY DEF Inv, WorkState, NullNeverDecrypted
<1> QED
  BY <1>1, Invariance, PTL

(* After the header, pouch_downlink_push finds space in its buffer for every
   packet, however the packets cut the blocks, unless a block is oversized. *)
THEOREM PacketsFindSpace == Spec => []SpaceLeft
<1>1. Inv => SpaceLeft
  BY DEF Inv, Room, SpaceLeft
<1> QED
  BY <1>1, Invariance, PTL

-----------------------------------------------------------------------------
(* The line of blocks from the assembly buffer to the handlers *)

(* A queue of the block that a work holds in a local variable *)
Hold(b) == IF b = NoBuf THEN <<>> ELSE <<b>>

(* Blocks delivered, the one being delivered, those to deliver, the one being
   decrypted, those to decrypt *)
LineOf(d, c, q, b, r) == (((d \o Hold(c)) \o q) \o Hold(b)) \o r

LEMMA Holds ==
    ASSUME NEW S, NoBuf \notin S, NEW s \in Seq(S), NEW b \in S
    PROVE  s \o Hold(NoBuf) = s /\ s \o Hold(b) = Append(s, b)
<1>1. s \o Hold(NoBuf) = s
  BY ConcatEmptySeq DEF Hold
<1>2. s \o Hold(b) = Append(s, b)
  <2>1. Hold(b) = <<b>>
    BY DEF Hold
  <2> QED
    BY <2>1, AppendIsConcat
<1> QED
  BY <1>1, <1>2

LEMMA HoldType ==
    ASSUME NEW S, NoBuf \notin S, NEW b \in S \union {NoBuf}
    PROVE  Hold(b) \in Seq(S)
  BY DEF Hold

LEMMA LineType ==
    ASSUME NEW S, NoBuf \notin S,
           NEW d \in Seq(S), NEW q \in Seq(S), NEW r \in Seq(S),
           NEW c \in S \union {NoBuf}, NEW b \in S \union {NoBuf}
    PROVE  /\ d \o Hold(c) \in Seq(S) /\ (d \o Hold(c)) \o q \in Seq(S)
           /\ ((d \o Hold(c)) \o q) \o Hold(b) \in Seq(S)
           /\ LineOf(d, c, q, b, r) \in Seq(S)
<1> DEFINE dc == d \o Hold(c)
           dq == dc \o q
           db == dq \o Hold(b)
<1>1. Hold(c) \in Seq(S) /\ Hold(b) \in Seq(S)
  BY HoldType
<1>2. dc \in Seq(S)
  BY <1>1, ConcatProperties
<1> HIDE DEF dc
<1>3. dq \in Seq(S)
  BY <1>2, ConcatProperties
<1> HIDE DEF dq
<1>4. db \in Seq(S)
  BY <1>1, <1>3, ConcatProperties
<1> HIDE DEF db
<1>5. db \o r \in Seq(S)
  BY <1>4, ConcatProperties
<1> QED
  BY <1>2, <1>3, <1>4, <1>5, Zenon DEF LineOf, dc, dq, db

(* The line stays the same when a block moves on in it: to the handlers, ... *)
LEMMA LineDeliver ==
    ASSUME NEW S, NoBuf \notin S, NEW d \in Seq(S), NEW c \in S, NEW q, NEW b, NEW r
    PROVE  LineOf(Append(d, c), NoBuf, q, b, r) = LineOf(d, c, q, b, r)
<1> DEFINE s == Append(d, c)
<1>1. s \in Seq(S) /\ d \o Hold(c) = s
  BY Holds, AppendProperties
<1> HIDE DEF s
<1>2. s \o Hold(NoBuf) = s
  BY <1>1, Holds
<1> QED
  BY <1>1, <1>2, Zenon DEF LineOf, s

(* ... from the queue of the consumer to its work, ... *)
LEMMA LineConsume ==
    ASSUME NEW S, NoBuf \notin S, NEW d \in Seq(S), NEW q \in Seq(S), q # <<>>,
           NEW b, NEW r
    PROVE  LineOf(d, Head(q), Tail(q), b, r) = LineOf(d, NoBuf, q, b, r)
<1>1. Head(q) \in S
  BY HeadTailProperties
<1>2. d \o Hold(Head(q)) = Append(d, Head(q)) /\ d \o Hold(NoBuf) = d
  BY <1>1, Holds
<1>3. d \o q = Append(d, Head(q)) \o Tail(q)
  BY ConcatMoveHead
<1> QED
  BY <1>2, <1>3, Zenon DEF LineOf

(* ... from the work that decrypts it to that queue, ... *)
LEMMA LinePut ==
    ASSUME NEW S, NoBuf \notin S, NEW d \in Seq(S), NEW q \in Seq(S),
           NEW c \in S \union {NoBuf}, NEW b \in S, NEW r
    PROVE  LineOf(d, c, Append(q, b), NoBuf, r) = LineOf(d, c, q, b, r)
<1> DEFINE dc == d \o Hold(c)
           dq == dc \o q
           s == Append(dq, b)
<1>1. dc \in Seq(S) /\ dq \in Seq(S)
  <2>1. Hold(c) \in Seq(S)
    BY HoldType
  <2>2. dc \in Seq(S)
    BY <2>1, ConcatProperties
  <2> HIDE DEF dc
  <2> QED
    BY <2>2, ConcatProperties
<1> HIDE DEF dc
<1>2. dc \o Append(q, b) = Append(dc \o q, b)
  BY <1>1, ConcatAppend
<1> HIDE DEF dq
<1>3. dq \o Hold(b) = s /\ s \in Seq(S)
  BY <1>1, Holds, AppendProperties
<1> HIDE DEF s
<1>4. s \o Hold(NoBuf) = s
  BY <1>3, Holds
<1> QED
  BY <1>2, <1>3, <1>4, Zenon DEF LineOf, dc, dq, s

(* ... and from the queue of blocks to decrypt to that work. *)
LEMMA LineDecrypt ==
    ASSUME NEW S, NoBuf \notin S, NEW d \in Seq(S), NEW q \in Seq(S),
           NEW c \in S \union {NoBuf}, NEW r \in Seq(S), r # <<>>
    PROVE  LineOf(d, c, q, Head(r), Tail(r)) = LineOf(d, c, q, NoBuf, r)
<1> DEFINE dq == (d \o Hold(c)) \o q
<1>1. dq \in Seq(S)
  BY LineType
<1>2. Head(r) \in S
  BY HeadTailProperties
<1> HIDE DEF dq
<1>3. dq \o Hold(Head(r)) = Append(dq, Head(r)) /\ dq \o Hold(NoBuf) = dq
  BY <1>1, <1>2, Holds
<1>4. dq \o r = Append(dq, Head(r)) \o Tail(r)
  BY <1>1, ConcatMoveHead
<1> QED
  BY <1>3, <1>4, Zenon DEF LineOf, dq

(* A block that joins the line joins it at its end. *)
LEMMA LineAppend ==
    ASSUME NEW S, NEW d, NEW c, NEW q, NEW b, NEW r \in Seq(S), NEW x \in S,
           ((d \o Hold(c)) \o q) \o Hold(b) \in Seq(S)
    PROVE  LineOf(d, c, q, b, Append(r, x)) = Append(LineOf(d, c, q, b, r), x)
<1> DEFINE db == ((d \o Hold(c)) \o q) \o Hold(b)
<1>1. db \in Seq(S)
  OBVIOUS
<1> HIDE DEF db
<1>2. db \o Append(r, x) = Append(db \o r, x)
  BY <1>1, ConcatAppend
<1> QED
  BY <1>2, Zenon DEF LineOf, db

LEMMA LineHold ==
    ASSUME NEW S, NoBuf \notin S, <<>> \in Seq(S), NEW d \in Seq(S), NEW q \in Seq(S),
           NEW c \in S \union {NoBuf}, NEW x \in S
    PROVE  LineOf(d, c, q, x, <<>>) = Append(LineOf(d, c, q, NoBuf, <<>>), x)
<1> DEFINE dq == (d \o Hold(c)) \o q
           s == Append(dq, x)
<1>1. dq \in Seq(S)
  BY LineType
<1> HIDE DEF dq
<1>2. dq \o Hold(x) = s /\ dq \o Hold(NoBuf) = dq /\ dq \o <<>> = dq /\ s \in Seq(S)
  BY <1>1, Holds, ConcatEmptySeq, AppendProperties
<1> HIDE DEF s
<1>3. s \o <<>> = s
  BY <1>2, ConcatEmptySeq
<1> QED
  BY <1>2, <1>3, Zenon DEF LineOf, dq, s

-----------------------------------------------------------------------------
(* No gaps *)

(* Blocks that were decrypted, in the order in which they were *)
Decrypted == LineOf(delivered, cbuf, consume_q, IF dpc = "put" THEN dbuf ELSE NoBuf, <<>>)

(* Block b is the next one after a in the same pouch. *)
Continues(a, b) ==
    /\ b[1].part = a[1].part + 1
    /\ Pouches[b[1].pouch].sess = Pouches[a[1].pouch].sess
    /\ Pouches[b[1].pouch].pid = Pouches[a[1].pouch].pid

Linked(s) ==
    \A i \in 1..Len(s) : s[i][1].part = 1 \/ (i > 1 /\ Continues(s[i - 1], s[i]))

(* The session stands where the last block that it decrypted left it. *)
SessionFollows(s) ==
    (downlink.idx > 0 /\ downlink.key # NoKey) =>
        /\ s # <<>>
        /\ s[Len(s)][1].part = downlink.idx
        /\ Pouches[s[Len(s)][1].pouch].sess = downlink.key
        /\ Pouches[s[Len(s)][1].pouch].pid = downlink.pid

(* A work that does not hold a block has given it away. *)
HoldState ==
    /\ cpc # "deliver" => cbuf = NoBuf
    /\ dpc \in {"idle", "again"} => dbuf = NoBuf

GapInv == HoldState /\ Linked(Decrypted) /\ SessionFollows(Decrypted)

LEMMA LinkedAppend ==
    ASSUME NEW S, NEW s \in Seq(S), NEW x \in S, Linked(s),
           x[1].part = 1 \/ (s # <<>> /\ Continues(s[Len(s)], x))
    PROVE  Linked(Append(s, x))
<1> DEFINE t == Append(s, x)
           n == Len(s)
<1>1. /\ n \in Nat /\ Len(t) = n + 1 /\ t[n + 1] = x
      /\ \A i \in 1..n : t[i] = s[i]
  BY AppendProperties, LenProperties
<1>2. s # <<>> => n > 0
  BY <1>1, EmptySeq
<1>3. \A i \in 1..n : s[i][1].part = 1 \/ (i > 1 /\ Continues(s[i - 1], s[i]))
  BY DEF Linked
<1> HIDE DEF t, n
<1>4. ASSUME NEW i \in 1..(n + 1)
      PROVE  t[i][1].part = 1 \/ (i > 1 /\ Continues(t[i - 1], t[i]))
  <2>1. CASE i \in 1..n
    <3>1. i > 1 => t[i - 1] = s[i - 1]
      BY <1>1, <2>1
    <3> QED
      BY <1>1, <1>3, <2>1, <3>1
  <2>2. CASE i = n + 1
    <3>1. n > 0 => t[n] = s[n] /\ i > 1 /\ i - 1 = n
      BY <1>1, <2>2
    <3> QED
      BY <1>1, <1>2, <2>2, <3>1 DEF n
  <2> QED
    BY <1>1, <2>1, <2>2
<1> QED
  BY <1>1, <1>4 DEF Linked, t

LEMMA LinkedPrefix ==
    ASSUME NEW S, NEW s \in Seq(S), NEW t \in Seq(S), Linked(s \o t)
    PROVE  Linked(s)
<1>1. /\ Len(s) \in Nat /\ Len(t) \in Nat /\ Len(s \o t) = Len(s) + Len(t)
      /\ \A i \in 1..Len(s) : (s \o t)[i] = s[i]
  BY LenProperties, ConcatProperties
<1> DEFINE l == s \o t
<1>2. Linked(l) /\ Len(l) >= Len(s) /\ Len(l) \in Nat /\ \A i \in 1..Len(s) : l[i] = s[i]
  BY <1>1
<1> HIDE DEF l
<1>3. ASSUME NEW i \in 1..Len(s)
      PROVE  s[i][1].part = 1 \/ (i > 1 /\ Continues(s[i - 1], s[i]))
  <2>1. l[i][1].part = 1 \/ (i > 1 /\ Continues(l[i - 1], l[i]))
    BY <1>1, <1>2 DEF Linked
  <2>2. l[i] = s[i] /\ (i > 1 => l[i - 1] = s[i - 1])
    BY <1>1, <1>2
  <2> QED
    BY <2>1, <2>2
<1> QED
  BY <1>3 DEF Linked

(* What the line is made of *)
LEMMA LineTypes ==
    ASSUME Inv
    PROVE  /\ NoBuf \notin Blocks /\ <<>> \in Seq(Blocks)
           /\ delivered \in Seq(Blocks) /\ consume_q \in Seq(Blocks) /\ decrypt_q \in Seq(Blocks)
           /\ cbuf \in Blocks \union {NoBuf} /\ dbuf \in Blocks \union {NoBuf}
           /\ (IF dpc = "put" THEN dbuf ELSE NoBuf) \in Blocks \union {NoBuf}
           /\ Decrypted \in Seq(Blocks)
<1>1. /\ NoBuf \notin Blocks /\ <<>> \in Seq(Blocks)
      /\ delivered \in Seq(Blocks) /\ consume_q \in Seq(Blocks) /\ decrypt_q \in Seq(Blocks)
      /\ cbuf \in Blocks \union {NoBuf} /\ dbuf \in Blocks \union {NoBuf}
      /\ (IF dpc = "put" THEN dbuf ELSE NoBuf) \in Blocks \union {NoBuf}
  BY BlockNotNull, EmptySeq DEF Inv, Types, DecryptTypes, ConsumeTypes
<1>2. Decrypted \in Seq(Blocks)
  BY <1>1, LineType DEF Decrypted
<1> QED
  BY <1>1, <1>2

LEMMA GapSame ==
    ASSUME GapInv, HoldState', Decrypted' = Decrypted,
           downlink' = downlink \/ downlink'.idx = 0 \/ downlink'.key = NoKey
    PROVE  GapInv'
<1>1. Linked(Decrypted)' /\ SessionFollows(Decrypted)'
  BY DEF GapInv, Linked, Continues, SessionFollows
<1> QED
  BY <1>1 DEF GapInv

LEMMA GapPush ==
    ASSUME Inv, GapInv,
           \/ push_loop \/ crypto_session_end
           \/ \E n \in 1..MaxPush : pouch_downlink_start(n) \/ pouch_downlink_push(n)
    PROVE  GapInv'
<1>1. UNCHANGED <<dpc, dbuf, cpc, cbuf, delivered, consume_q>>
  BY DEF push_loop, push_end, push_no_space, push_write, push_header_incomplete,
         push_header_refused, push_header, push_header_no_key, downlink_session_start,
         push_block_incomplete, push_block_too_big, push_block, push_submit,
         crypto_session_end, pouch_downlink_start, pouch_downlink_push, decryptVars,
         consumeVars
<1>2. downlink' = downlink \/ downlink'.idx = 0 \/ downlink'.key = NoKey
  <2>1. CASE downlink_session_start
    BY <2>1 DEF downlink_session_start
  <2>2. CASE crypto_session_end
    BY <2>2 DEF crypto_session_end, Inv, Types, SessionTypes
  <2>3. CASE ~downlink_session_start /\ ~crypto_session_end
    <3> USE DEF sessionVars
    <3>1. push_loop => UNCHANGED downlink
      BY <2>3 DEF push_loop, push_end, push_no_space, push_write, push_header_incomplete,
             push_header_refused, push_header, push_header_no_key, push_block_incomplete,
             push_block_too_big, push_block, push_submit
    <3>2. \A n \in 1..MaxPush :
              pouch_downlink_start(n) \/ pouch_downlink_push(n) => UNCHANGED downlink
      BY DEF pouch_downlink_start, pouch_downlink_push
    <3> QED
      BY <2>3, <3>1, <3>2
  <2> QED
    BY <2>1, <2>2, <2>3
<1>3. HoldState' /\ Decrypted' = Decrypted
  BY <1>1 DEF GapInv, HoldState, Decrypted, LineOf, Hold
<1> QED
  BY <1>2, <1>3, GapSame

LEMMA GapDecrypt ==
    ASSUME Inv, GapInv, decrypt_blocks
    PROVE  GapInv'
<1> USE DEF DecryptAt, consumeVars, sessionVars
<1>1. CASE decrypt_begin \/ decrypt_fail \/ decrypt_again
  <2>1. /\ dpc # "put" /\ dpc' # "put"
        /\ UNCHANGED <<cpc, cbuf, delivered, consume_q, downlink>>
    BY <1>1 DEF decrypt_begin, decrypt_fail, decrypt_again
  <2>2. Decrypted' = Decrypted
    BY <2>1 DEF Decrypted, LineOf, Hold
  <2>3. HoldState'
    BY <1>1, <2>1 DEF decrypt_begin, decrypt_fail, decrypt_again, GapInv, HoldState
  <2> QED
    BY <2>1, <2>2, <2>3, GapSame
<1>2. CASE decrypt_put
  <2> USE <1>2 DEF decrypt_put
  <2>1. dbuf \in Blocks
    BY LineTypes DEF Inv, WorkState
  <2>2. Decrypted' = LineOf(delivered, cbuf, Append(consume_q, dbuf), NoBuf, <<>>)
    BY DEF Decrypted
  <2>3. Decrypted = LineOf(delivered, cbuf, consume_q, dbuf, <<>>)
    BY DEF Decrypted
  <2>4. Decrypted' = Decrypted
    BY <2>1, <2>2, <2>3, LineTypes, LinePut
  <2>5. HoldState'
    BY DEF GapInv, HoldState
  <2> QED
    BY <2>4, <2>5, GapSame
<1>3. CASE decrypt_block
  <2> USE <1>3 DEF decrypt_block
  <2> DEFINE s == Decrypted
  <2>1. dbuf \in Blocks
    BY LineTypes
  <2>2. s = LineOf(delivered, cbuf, consume_q, NoBuf, <<>>) /\ s \in Seq(Blocks)
    BY LineTypes DEF Decrypted
  <2>3. Decrypted' = Append(s, dbuf)
    <3>1. Decrypted' = LineOf(delivered, cbuf, consume_q, dbuf, <<>>)
      BY DEF Decrypted
    <3>2. LineOf(delivered, cbuf, consume_q, dbuf, <<>>)
            = Append(LineOf(delivered, cbuf, consume_q, NoBuf, <<>>), dbuf)
      <4>1. /\ NoBuf \notin Blocks /\ <<>> \in Seq(Blocks) /\ delivered \in Seq(Blocks)
            /\ consume_q \in Seq(Blocks) /\ cbuf \in Blocks \union {NoBuf}
        BY LineTypes
      <4> HIDE <1>3 DEF decrypt_block, Blocks
      <4> QED
        BY <2>1, <4>1, LineHold
    <3> HIDE DEF s
    <3> QED
      BY <2>2, <3>1, <3>2, Zenon
  <2>4. /\ downlink.key = Pouches[dbuf[1].pouch].sess
        /\ downlink.pid = Pouches[dbuf[1].pouch].pid
        /\ downlink.idx = dbuf[1].part - 1
    BY DEF Decryptable
  <2>5. /\ dbuf[1].part \in Nat /\ downlink.key # NoKey
        /\ downlink.idx \in Nat /\ downlink'.key = downlink.key
        /\ downlink'.pid = downlink.pid /\ downlink'.idx = downlink.idx + 1
    <3>1. dbuf[1] \in Units
      BY <2>1, BlockNotNull, EmptySeq, ElementOfSeq
    <3>2. Pouches[dbuf[1].pouch] \in [sess : Sessions, pid : Nat, wire : Seq(Units)]
      BY <3>1, ElementOfSeq, DownlinkAssumption DEF Units
    <3> QED
      BY <2>4, <3>1, <3>2, DownlinkAssumption DEF Units, Inv, Types, SessionTypes
  <2>6. dbuf[1].part = 1 \/ (s # <<>> /\ Continues(s[Len(s)], dbuf))
    <3>1. CASE downlink.idx = 0
      BY <2>4, <2>5, <3>1
    <3>2. CASE downlink.idx > 0
      <4>1. SessionFollows(s)
        BY DEF GapInv
      <4> HIDE DEF s
      <4> QED
        BY <2>4, <2>5, <3>2, <4>1, SMTT(30) DEF SessionFollows, Continues
    <3> QED
      BY <2>5, <3>1, <3>2
  <2>7. Linked(Append(s, dbuf))
    <3>1. Linked(s)
      BY DEF GapInv
    <3> HIDE DEF s
    <3> QED
      BY <2>1, <2>2, <2>6, <3>1, LinkedAppend
  <2>8. SessionFollows(Decrypted)'
    <3> DEFINE t == Append(s, dbuf)
    <3>1. t # <<>> /\ t[Len(t)] = dbuf
      <4> HIDE DEF s
      <4> QED
        BY <2>1, <2>2, AppendProperties
    <3> HIDE DEF t
    <3> QED
      BY <2>3, <2>4, <2>5, <3>1 DEF SessionFollows, t
  <2>9. HoldState' /\ Linked(Decrypted)'
    BY <2>3, <2>7 DEF GapInv, HoldState, Linked, Continues
  <2> QED
    BY <2>8, <2>9 DEF GapInv
<1> QED
  BY <1>1, <1>2, <1>3 DEF decrypt_blocks

LEMMA GapConsume ==
    ASSUME Inv, GapInv, consume_blocks
    PROVE  GapInv'
<1> USE DEF ConsumeAt, decryptVars, sessionVars
<1> DEFINE b == IF dpc = "put" THEN dbuf ELSE NoBuf
<1>1. UNCHANGED <<dpc, dbuf, downlink>>
  BY DEF consume_blocks, consume_begin, consume_deliver, consume_again
<1>2. /\ Decrypted = LineOf(delivered, cbuf, consume_q, b, <<>>)
      /\ Decrypted' = LineOf(delivered', cbuf', consume_q', b, <<>>)
  BY <1>1 DEF Decrypted
<1> HIDE DEF b
<1>3. HoldState' /\ Decrypted' = Decrypted
  <2>1. CASE consume_begin /\ consume_q # <<>>
    <3>1. /\ delivered' = delivered /\ cbuf = NoBuf /\ cbuf' = Head(consume_q)
          /\ consume_q' = Tail(consume_q) /\ cpc' = "deliver"
      BY <2>1 DEF consume_begin, GapInv, HoldState
    <3>2. LineOf(delivered, Head(consume_q), Tail(consume_q), b, <<>>)
            = LineOf(delivered, NoBuf, consume_q, b, <<>>)
      BY <2>1, LineTypes, LineConsume
    <3> QED
      BY <1>1, <1>2, <3>1, <3>2 DEF GapInv, HoldState
  <2>2. CASE consume_deliver
    <3>1. /\ cbuf \in Blocks /\ delivered' = Append(delivered, cbuf) /\ cbuf' = NoBuf
          /\ consume_q' = consume_q
      BY <2>2, LineTypes DEF consume_deliver, Inv, WorkState
    <3>2. LineOf(Append(delivered, cbuf), NoBuf, consume_q, b, <<>>)
            = LineOf(delivered, cbuf, consume_q, b, <<>>)
      BY <3>1, LineTypes, LineDeliver
    <3> QED
      BY <1>1, <1>2, <3>1, <3>2 DEF GapInv, HoldState
  <2>3. CASE consume_again \/ (consume_begin /\ consume_q = <<>>)
    <3>1. UNCHANGED <<delivered, cbuf, consume_q>> /\ cpc # "deliver"
      BY <2>3 DEF consume_again, consume_begin
    <3> QED
      BY <1>1, <1>2, <3>1 DEF GapInv, HoldState
  <2> QED
    BY <2>1, <2>2, <2>3 DEF consume_blocks
<1> QED
  BY <1>1, <1>3, GapSame

LEMMA GapInit == Init => GapInv
<1> SUFFICES ASSUME Init PROVE GapInv
  OBVIOUS
<1>1. HoldState
  BY DEF Init, HoldState
<1>2. Decrypted = <<>>
  BY DEF Init, Decrypted, LineOf, Hold
<1>3. Linked(<<>>)
  BY DEF Linked
<1>4. SessionFollows(Decrypted)
  BY DEF Init, NoSession, SessionFollows
<1> QED
  BY <1>1, <1>2, <1>3, <1>4 DEF GapInv

LEMMA GapStep == Inv /\ GapInv /\ [Next]_vars => GapInv'
<1> SUFFICES ASSUME Inv, GapInv, [Next]_vars PROVE GapInv'
  OBVIOUS
<1>1. CASE UNCHANGED vars
  <2>1. Decrypted' = Decrypted /\ HoldState' /\ downlink' = downlink
    BY <1>1 DEF vars, decryptVars, consumeVars, sessionVars, Decrypted, LineOf, Hold, GapInv,
                HoldState
  <2> QED
    BY <2>1, GapSame
<1>2. CASE push_loop \/ crypto_session_end
           \/ \E n \in 1..MaxPush : pouch_downlink_start(n) \/ pouch_downlink_push(n)
  BY <1>2, GapPush
<1>3. CASE decrypt_blocks
  BY <1>3, GapDecrypt
<1>4. CASE consume_blocks
  BY <1>4, GapConsume
<1> QED
  BY <1>1, <1>2, <1>3, <1>4 DEF Next

LEMMA GapFree == Inv /\ GapInv => NoGaps
<1> SUFFICES ASSUME Inv, GapInv PROVE NoGaps
  OBVIOUS
<1> DEFINE b == IF dpc = "put" THEN dbuf ELSE NoBuf
           dc == delivered \o Hold(cbuf)
           dq == dc \o consume_q
           db == dq \o Hold(b)
<1>1. /\ delivered \in Seq(Blocks) /\ consume_q \in Seq(Blocks) /\ <<>> \in Seq(Blocks)
      /\ Hold(cbuf) \in Seq(Blocks) /\ Hold(b) \in Seq(Blocks)
  BY LineTypes, HoldType
<1>2. dc \in Seq(Blocks) /\ dq \in Seq(Blocks) /\ db \in Seq(Blocks)
  BY LineTypes, LineType
<1>3. Linked(db \o <<>>)
  BY DEF GapInv, Decrypted, LineOf
<1> HIDE DEF db
<1>4. Linked(db)
  BY <1>1, <1>2, <1>3, LinkedPrefix
<1> HIDE DEF dq
<1>5. Linked(dq)
  BY <1>1, <1>2, <1>4, LinkedPrefix DEF db
<1> HIDE DEF dc
<1>6. Linked(dc)
  BY <1>1, <1>2, <1>5, LinkedPrefix DEF dq
<1>7. Linked(delivered)
  BY <1>1, <1>2, <1>6, LinkedPrefix DEF dc
<1>8. DOMAIN delivered = 1..Len(delivered)
  BY <1>1, LenProperties
<1> QED
  BY <1>7, <1>8 DEF Linked, Continues, NoGaps

(* Whatever is discarded, aborted, derived again or delivered twice: what the
   handlers see of a pouch has no hole and no block out of turn. *)
THEOREM DeliveryHasNoGaps == Spec => []NoGaps
<1>1. Init => Inv /\ GapInv
  BY InvInit, GapInit
<1>2. Inv /\ GapInv /\ [Next]_vars => (Inv /\ GapInv)'
  BY InvStep, GapStep
<1> QED
  BY <1>1, <1>2, GapFree, PTL DEF Spec

-----------------------------------------------------------------------------
(* Bytes *)

LEMMA TakeDrop ==
    ASSUME NEW S, NEW s \in Seq(S), NEW n \in Nat, n <= Len(s)
    PROVE  Take(s, n) \o Drop(s, n) = s
<1>1. Len(s) \in Nat
  BY LenProperties
<1>2. /\ Take(s, n) \in Seq(S) /\ Len(Take(s, n)) = n
      /\ \A i \in 1..n : Take(s, n)[i] = s[i]
  BY <1>1, TakeType, SubSeqProperties DEF Take
<1>3. /\ Drop(s, n) \in Seq(S) /\ Len(Drop(s, n)) = Len(s) - n
      /\ \A i \in 1..(Len(s) - n) : Drop(s, n)[i] = s[n + i]
  BY <1>1, DropType, SubSeqProperties DEF Drop
<1> DEFINE a == Take(s, n)
           b == Drop(s, n)
           t == a \o b
<1> HIDE DEF a, b
<1>4. /\ t \in Seq(S) /\ Len(t) = Len(a) + Len(b)
      /\ \A i \in 1..(Len(a) + Len(b)) : t[i] = IF i <= Len(a) THEN a[i] ELSE b[i - Len(a)]
  BY <1>2, <1>3, ConcatProperties DEF a, b
<1> HIDE DEF t
<1>5. ASSUME NEW i \in 1..Len(s) PROVE t[i] = s[i]
  <2>1. i \in 1..(Len(a) + Len(b)) /\ Len(a) = n
    BY <1>1, <1>2, <1>3 DEF a, b
  <2>2. CASE i <= n
    BY <1>1, <1>2, <1>4, <2>1, <2>2 DEF a
  <2>3. CASE i > n
    <3>1. i - n \in 1..(Len(s) - n) /\ n + (i - n) = i
      BY <1>1, <2>3
    <3> QED
      BY <1>1, <1>3, <1>4, <2>1, <2>3, <3>1 DEF b
  <2> QED
    BY <1>1, <2>2, <2>3
<1>6. t = s
  BY <1>1, <1>2, <1>3, <1>4, <1>5, SeqEqual DEF a, b
<1> QED
  BY <1>6 DEF t, a, b

(* What is left after the first n elements, for any n *)
LEMMA DropAny ==
    ASSUME NEW S, NEW s \in Seq(S), NEW n \in Nat
    PROVE  Drop(s, n) \in Seq(S) /\ (Len(s) <= n => Drop(s, n) = <<>>)
<1>1. Len(s) \in Nat
  BY LenProperties
<1>2. ASSUME Len(s) <= n PROVE Drop(s, n) = <<>>
  BY <1>1, <1>2 DEF Drop
<1> QED
  BY <1>1, <1>2, DropType, EmptySeq

LEMMA DropConcat ==
    ASSUME NEW S, NEW s \in Seq(S), NEW t \in Seq(S), NEW n \in Nat, n <= Len(s)
    PROVE  Drop(s \o t, n) = Drop(s, n) \o t
<1> DEFINE l == s \o t
           a == Drop(l, n)
           b == Drop(s, n)
           r == b \o t
<1>1. /\ Len(s) \in Nat /\ Len(t) \in Nat
      /\ l \in Seq(S) /\ Len(l) = Len(s) + Len(t)
      /\ \A i \in 1..(Len(s) + Len(t)) : l[i] = IF i <= Len(s) THEN s[i] ELSE t[i - Len(s)]
  BY LenProperties, ConcatProperties
<1> HIDE DEF l
<1>2. /\ a \in Seq(S) /\ Len(a) = Len(l) - n
      /\ \A i \in 1..(Len(l) - n) : a[i] = l[n + i]
  BY <1>1, DropType, SubSeqProperties DEF Drop
<1>3. /\ b \in Seq(S) /\ Len(b) = Len(s) - n
      /\ \A i \in 1..(Len(s) - n) : b[i] = s[n + i]
  BY <1>1, DropType, SubSeqProperties DEF Drop
<1> HIDE DEF a, b
<1>4. /\ r \in Seq(S) /\ Len(r) = Len(b) + Len(t)
      /\ \A i \in 1..(Len(b) + Len(t)) : r[i] = IF i <= Len(b) THEN b[i] ELSE t[i - Len(b)]
  BY <1>3, ConcatProperties
<1> HIDE DEF r
<1>5. Len(a) = Len(r) /\ Len(a) \in Nat
  BY <1>1, <1>2, <1>3, <1>4
<1>6. ASSUME NEW i \in 1..Len(a) PROVE a[i] = r[i]
  <2>1. /\ i \in 1..(Len(l) - n) /\ n + i \in 1..(Len(s) + Len(t))
        /\ i \in 1..(Len(b) + Len(t)) /\ a[i] = l[n + i]
    BY <1>1, <1>2, <1>3
  <2>2. CASE i <= Len(s) - n
    BY <1>1, <1>3, <1>4, <2>1, <2>2
  <2>3. CASE i > Len(s) - n
    <3>1. (n + i) - Len(s) = i - Len(b)
      BY <1>1, <1>3
    <3> QED
      BY <1>1, <1>3, <1>4, <2>1, <2>3, <3>1
  <2> QED
    BY <1>1, <2>2, <2>3
<1>7. a = r
  BY <1>2, <1>4, <1>5, <1>6, SeqEqual
<1> QED
  BY <1>7 DEF a, b, l, r

(* The front of a packet moves into the buffer. *)
LEMMA TakeDropConcat ==
    ASSUME NEW S, NEW b \in Seq(S), NEW s \in Seq(S), NEW n \in Nat, n <= Len(s)
    PROVE  (b \o Take(s, n)) \o Drop(s, n) = b \o s
<1> DEFINE t == Take(s, n)
           d == Drop(s, n)
<1>1. t \in Seq(S) /\ d \in Seq(S)
  BY TakeType, DropType
<1>0. t \o d = s
  BY TakeDrop
<1> HIDE DEF t, d
<1>2. (b \o t) \o d = b \o (t \o d)
  BY <1>1, ConcatAssociative
<1> QED
  BY <1>0, <1>2 DEF t, d

(* The header at the front of the buffer is trimmed. *)
LEMMA DropFront ==
    ASSUME NEW S, NEW b \in Seq(S), NEW p \in Seq(S), NEW r \in Seq(S),
           NEW n \in Nat, n <= Len(b)
    PROVE  Drop((b \o p) \o r, n) = (Drop(b, n) \o p) \o r
<1> DEFINE bp == b \o p
<1>1. bp \in Seq(S) /\ Len(bp) = Len(b) + Len(p) /\ Len(b) \in Nat /\ Len(p) \in Nat
  BY ConcatProperties, LenProperties
<1>2. Drop(bp, n) = Drop(b, n) \o p
  BY DropConcat
<1> HIDE DEF bp
<1>3. n <= Len(bp)
  BY <1>1
<1>4. Drop(bp \o r, n) = Drop(bp, n) \o r
  BY <1>1, <1>3, DropConcat
<1> QED
  BY <1>2, <1>4 DEF bp

LEMMA BlocksAreBytes == \A s \in Seq(Blocks) : s \in Seq(Seq(Units))
<1>1. Blocks \subseteq Seq(Units)
  BY DEF Blocks
<1> DEFINE T == Seq(Units)
<1> HIDE DEF T
<1>2. \A s \in Seq(Blocks) : s \in Seq(T)
  <2> HIDE DEF Blocks
  <2> QED
    BY <1>1 DEF T
<1> QED
  BY <1>2 DEF T

LEMMA HoldBytes ==
    ASSUME NEW b \in Blocks \union {NoBuf}
    PROVE  FlattenSeq(Hold(b)) = Bytes(b) /\ Bytes(b) \in Seq(Units)
<1>1. CASE b = NoBuf
  BY <1>1, FlattenEmpty, EmptySeq DEF Hold, Bytes
<1>2. CASE b # NoBuf
  <2>1. Hold(b) = <<b>> /\ Bytes(b) = b
    BY <1>2 DEF Hold, Bytes
  <2> QED
    BY <1>2, <2>1, FlattenOne DEF Blocks
<1> QED
  BY <1>1, <1>2

LEMMA FlattenBlocks ==
    ASSUME NEW s \in Seq(Blocks), NEW t \in Seq(Blocks)
    PROVE  /\ FlattenSeq(s) \in Seq(Units) /\ FlattenSeq(s \o t) = FlattenSeq(s) \o FlattenSeq(t)
<1>1. s \in Seq(Seq(Units)) /\ t \in Seq(Seq(Units))
  BY BlocksAreBytes
<1> QED
  BY <1>1, FlattenType, FlattenConcat

(* Every block that left the transport's buffer, in the order in which it did *)
Line == LineOf(delivered, cbuf, consume_q, dbuf, decrypt_q)

(* Pushed are the bytes of these blocks. *)
LEMMA PushedIsLine ==
    ASSUME Inv
    PROVE  Pushed = FlattenSeq(Line) /\ Line \in Seq(Blocks) /\ Pushed \in Seq(Units)
<1>1. /\ NoBuf \notin Blocks
      /\ delivered \in Seq(Blocks) /\ consume_q \in Seq(Blocks) /\ decrypt_q \in Seq(Blocks)
      /\ cbuf \in Blocks \union {NoBuf} /\ dbuf \in Blocks \union {NoBuf}
  BY LineTypes
<1>2. Hold(cbuf) \in Seq(Blocks) /\ Hold(dbuf) \in Seq(Blocks)
  BY <1>1, HoldType
<1> DEFINE dc == delivered \o Hold(cbuf)
           dq == dc \o consume_q
           db == dq \o Hold(dbuf)
<1>3. /\ dc \in Seq(Blocks) /\ dq \in Seq(Blocks) /\ db \in Seq(Blocks)
      /\ Line \in Seq(Blocks) /\ Line = db \o decrypt_q
  <2> HIDE DEF Blocks
  <2> QED
    BY <1>1, LineType DEF Line, LineOf
<1>4. FlattenSeq(dc) = FlattenSeq(delivered) \o Bytes(cbuf)
  BY <1>1, <1>2, FlattenBlocks, HoldBytes, ZenonT(30)
<1>5. FlattenSeq(dq) = FlattenSeq(dc) \o FlattenSeq(consume_q)
  <2> HIDE DEF dc
  <2> QED
    BY <1>1, <1>3, FlattenBlocks
<1>6. FlattenSeq(db) = FlattenSeq(dq) \o Bytes(dbuf)
  <2>1. dq \in Seq(Blocks) /\ FlattenSeq(Hold(dbuf)) = Bytes(dbuf)
    BY <1>1, <1>3, HoldBytes
  <2> HIDE DEF dq
  <2>2. FlattenSeq(dq \o Hold(dbuf)) = FlattenSeq(dq) \o FlattenSeq(Hold(dbuf))
    BY <1>2, <2>1, FlattenBlocks
  <2> QED
    BY <2>1, <2>2
<1>7. FlattenSeq(Line) = FlattenSeq(db) \o FlattenSeq(decrypt_q)
  <2> HIDE DEF db
  <2> QED
    BY <1>1, <1>3, FlattenBlocks
<1>8. FlattenSeq(Line) \in Seq(Units)
  <2> HIDE DEF db
  <2> QED
    BY <1>3, FlattenBlocks
<1> QED
  BY <1>3, <1>4, <1>5, <1>6, <1>7, <1>8, Zenon DEF Pushed

(* The body of a pouch is what follows its header. *)
Body(n) == Drop(Pouches[n].wire, HeaderUnits)

LEMMA WireType ==
    ASSUME NEW n \in 1..Len(Pouches)
    PROVE  Pouches[n].wire \in Seq(Units) /\ Body(n) \in Seq(Units)
<1>1. Pouches[n] \in [sess : Sessions, pid : Nat, wire : Seq(Units)]
  BY ElementOfSeq, DownlinkAssumption
<1>2. Pouches[n].wire \in Seq(Units)
  BY <1>1
<1> QED
  BY <1>2, DropAny, DownlinkAssumption DEF Body

LEMMA NextBody ==
    ASSUME NEW n \in 1..Len(Pouches)
    PROVE  Bodies(n) = Bodies(n - 1) \o Body(n) /\ Bodies(n - 1) \in Seq(Units)
<1> DEFINE T == Seq(Units)
           s == [p \in 1..(n - 1) |-> Body(p)]
           t == [p \in 1..n |-> Body(p)]
<1>1. Len(Pouches) \in Nat /\ n - 1 \in Nat /\ n \in Nat
  BY LenProperties, DownlinkAssumption
<1>2. \A p \in 1..n : Body(p) \in T
  BY <1>1, WireType
<1> HIDE DEF T
<1>3. s \in Seq(T) /\ Len(s) = n - 1 /\ t \in Seq(T) /\ Len(t) = n
  BY <1>1, <1>2
<1>4. t = Append(s, Body(n))
  <2> DEFINE a == Append(s, Body(n))
  <2>1. /\ a \in Seq(T) /\ Len(a) = n /\ a[n] = Body(n)
        /\ \A i \in 1..(n - 1) : a[i] = s[i]
    BY <1>1, <1>2, <1>3, AppendProperties
  <2>2. \A i \in 1..n : a[i] = t[i]
    <3> HIDE DEF a
    <3> QED
      BY <1>1, <2>1
  <2> HIDE DEF a, t
  <2> QED
    BY <1>3, <2>1, <2>2, SeqEqual
<1>5. Bodies(n) = FlattenSeq(t) /\ Bodies(n - 1) = FlattenSeq(s)
  BY DEF Bodies, Body
<1> HIDE DEF s, t
<1> QED
  BY <1>1, <1>2, <1>3, <1>4, <1>5, FlattenAppend, FlattenType, SMTT(30) DEF T

LEMMA NoBodies == Bodies(0) = <<>>
<1>1. [p \in 1..0 |-> Drop(Pouches[p].wire, HeaderUnits)] = <<>>
  OBVIOUS
<1> QED
  BY <1>1, FlattenEmpty, Zenon DEF Bodies

-----------------------------------------------------------------------------
(* No byte is lost, repeated or moved. *)

(* What the transport has of the pouch and has not queued *)
Assembling == (Bytes(pouch_buf) \o packet) \o rest

InOrder ==
    /\ sending = 0 => Line = <<>>
    /\ sending > 0 =>
          IF pouch_header THEN FlattenSeq(Line) \o Assembling = Bodies(sending)
            ELSE FlattenSeq(Line) = Bodies(sending - 1) /\ Assembling = Pouches[sending].wire

(* A header that is cut short has used up its packet. *)
PacketState ==
    /\ tpc = "idle" => packet = <<>>
    /\ tpc \in {"block", "submit"} => pouch_header
    /\ tpc = "header" => packet = <<>> \/ Len(pouch_buf) = Capacity

OrderInv == PacketState /\ (~dropped => InOrder)

LEMMA OrderSame ==
    ASSUME OrderInv, PacketState', ~dropped' => ~dropped,
           ~dropped' => UNCHANGED <<Line, Assembling, sending, pouch_header>>
    PROVE  OrderInv'
  BY DEF OrderInv, InOrder

LEMMA OrderInit == Init => OrderInv
  BY DEF Init, OrderInv, PacketState, InOrder, Line, LineOf, Hold

LEMMA OrderCall ==
    ASSUME Inv, OrderInv, NEW n \in 1..MaxPush,
           pouch_downlink_start(n) \/ pouch_downlink_push(n)
    PROVE  OrderInv'
<1> USE DEF TransportAt
<1>1. PacketState'
  BY DEF pouch_downlink_start, pouch_downlink_push, PacketState
<1>2. Line' = Line
  BY DEF pouch_downlink_start, pouch_downlink_push, decryptVars, consumeVars, Line, LineOf, Hold
<1>3. CASE pouch_downlink_start(n)
  <2> USE <1>3 DEF pouch_downlink_start
  <2> SUFFICES ASSUME ~dropped' PROVE InOrder'
    BY <1>1 DEF OrderInv
  <2>1. ~dropped /\ rest = <<>> /\ pouch_buf \in {NoBuf, <<>>} /\ packet = <<>>
    BY DEF OrderInv, PacketState
  <2>2. Assembling = <<>>
    BY <2>1 DEF Assembling, Bytes
  <2>3. sending + 1 \in 1..Len(Pouches) /\ sending \in Nat
    BY DownlinkAssumption, LenProperties DEF Inv, Types, PushTypes
  <2>4. FlattenSeq(Line) \in Seq(Units)
    BY PushedIsLine
  <2>5. FlattenSeq(Line) = Bodies(sending)
    <3>1. CASE sending = 0
      BY <2>1, <3>1, NoBodies, FlattenEmpty DEF OrderInv, InOrder
    <3>2. CASE sending > 0 /\ pouch_header
      <4>1. FlattenSeq(Line) \o <<>> = Bodies(sending)
        BY <2>1, <2>2, <3>2 DEF OrderInv, InOrder
      <4> QED
        BY <2>4, <4>1, ConcatEmptySeq
    <3>3. CASE sending > 0 /\ ~pouch_header
      <4>1. FlattenSeq(Line) = Bodies(sending - 1) /\ Pouches[sending].wire = <<>>
        BY <2>1, <2>2, <3>3 DEF OrderInv, InOrder
      <4>2. sending \in 1..Len(Pouches)
        BY <2>3, <3>3 DEF Inv, Types, PushTypes
      <4>3. Body(sending) = <<>>
        <5>1. <<>> \in Seq(Units) /\ Len(<<>>) = 0 /\ HeaderUnits \in Nat /\ 0 <= HeaderUnits
          BY EmptySeq, DownlinkAssumption
        <5>2. Drop(<<>>, HeaderUnits) = <<>>
          BY <5>1, DropAny
        <5> QED
          BY <4>1, <5>2 DEF Body
      <4>4. Bodies(sending) = FlattenSeq(Line) \o <<>>
        BY <4>1, <4>2, <4>3, NextBody
      <4> QED
        BY <2>4, <4>4, ConcatEmptySeq
    <3> QED
      BY <2>3, <3>1, <3>2, <3>3
  <2> DEFINE wire == Pouches[sending + 1].wire
  <2>6. Assembling' = wire
    <3>1. wire \in Seq(Units) /\ n \in Nat /\ n <= Len(wire)
      BY <2>3, WireType
    <3>2. Bytes(pouch_buf') = <<>>
      BY DEF Bytes
    <3>3. packet' = Take(wire, n) /\ rest' = Drop(wire, n)
      OBVIOUS
    <3> HIDE <1>3 DEF wire, pouch_downlink_start
    <3>4. Take(wire, n) \in Seq(Units) /\ Take(wire, n) \o Drop(wire, n) = wire
      BY <3>1, TakeType, TakeDrop
    <3>5. <<>> \o Take(wire, n) = Take(wire, n)
      BY <3>4, ConcatEmptySeq
    <3> QED
      BY <3>2, <3>3, <3>4, <3>5 DEF Assembling
  <2>7. sending' = sending + 1 /\ sending' > 0 /\ sending' - 1 = sending /\ ~pouch_header'
    BY <2>3
  <2>8. FlattenSeq(Line') = Bodies(sending' - 1) /\ Assembling' = Pouches[sending'].wire
    BY <1>2, <2>5, <2>6, <2>7, Zenon
  <2> HIDE <1>3 DEF pouch_downlink_start, Bodies
  <2> QED
    BY <2>7, <2>8 DEF InOrder
<1>4. CASE pouch_downlink_push(n)
  <2> USE <1>4 DEF pouch_downlink_push
  <2>1. rest \in Seq(Units) /\ n \in Nat /\ n <= Len(rest) /\ packet = <<>>
    BY DEF Inv, Types, PushTypes, OrderInv, PacketState
  <2>2. Bytes(pouch_buf) \in Seq(Units)
    BY EmptySeq DEF Inv, Types, PushTypes, Bytes
  <2>4. (Bytes(pouch_buf) \o Take(rest, n)) \o Drop(rest, n) = Bytes(pouch_buf) \o rest
    <3> DEFINE b == Bytes(pouch_buf)
    <3> HIDE DEF b, pouch_downlink_push
    <3> QED
      BY <2>1, <2>2, TakeDropConcat DEF b
  <2>5. Bytes(pouch_buf) \o <<>> = Bytes(pouch_buf)
    BY <2>2, ConcatEmptySeq
  <2>6. Bytes(pouch_buf') = Bytes(pouch_buf) /\ packet' = Take(rest, n) /\ rest' = Drop(rest, n)
    BY DEF Bytes
  <2>7. Assembling' = Assembling
    BY <2>1, <2>4, <2>5, <2>6, Zenon DEF Assembling
  <2> QED
    BY <1>1, <1>2, <2>7, OrderSame
<1> QED
  BY <1>3, <1>4

(* Steps that move no bytes, and steps that discard some *)
LEMMA OrderStay ==
    ASSUME Inv, OrderInv,
           \/ push_end \/ push_no_space \/ push_header_incomplete \/ push_header_refused
           \/ push_header \/ push_header_no_key \/ push_block_incomplete
           \/ push_block_too_big \/ push_submit \/ crypto_session_end
    PROVE  OrderInv'
<1> USE DEF push_end, push_no_space, push_header_incomplete, push_header_refused,
            push_header, push_header_no_key, push_block_incomplete, push_block_too_big,
            push_submit, crypto_session_end, push_return, TransportAt, pushVars
<1>1. PacketState'
  BY DEF OrderInv, PacketState
<1>2. Line' = Line
  BY DEF decryptVars, consumeVars, Line, LineOf, Hold
<1>3. UNCHANGED <<sending, pouch_header, pouch_buf, rest>>
  OBVIOUS
<1>4. dropped' \/ (packet' = packet /\ dropped' = dropped)
  <2>1. CASE push_header_incomplete
    <3>1. Len(pouch_buf) # Capacity
      BY <2>1, DownlinkAssumption DEF Inv, Types, PushTypes, PushState
    <3> QED
      BY <2>1, <3>1 DEF OrderInv, PacketState
  <2> QED
    BY <2>1
<1>5. ~dropped' => Assembling' = Assembling
  BY <1>3, <1>4 DEF Assembling, Bytes
<1> QED
  BY <1>1, <1>2, <1>3, <1>4, <1>5, OrderSame

LEMMA OrderWrite ==
    ASSUME Inv, OrderInv, push_write
    PROVE  OrderInv'
<1> USE DEF push_write, TransportAt
<1> DEFINE n == Least(Len(packet), Capacity - Len(pouch_buf))
<1>1. /\ pouch_buf \in Seq(Units) /\ packet \in Seq(Units) /\ rest \in Seq(Units)
      /\ Len(pouch_buf) \in Nat /\ Len(packet) \in Nat
  BY LenProperties DEF Inv, Types, PushTypes
<1>2. /\ n \in Nat /\ n <= Len(packet) /\ Capacity \in Nat
      /\ n = Len(packet) \/ n = Capacity - Len(pouch_buf)
  BY <1>1, DownlinkAssumption DEF Least
<1>3. pouch_buf' = pouch_buf \o Take(packet, n) /\ packet' = Drop(packet, n)
  OBVIOUS
<1> HIDE DEF n
<1>4. /\ Take(packet, n) \in Seq(Units) /\ Len(Take(packet, n)) = n
      /\ Drop(packet, n) \in Seq(Units) /\ Len(Drop(packet, n)) = Len(packet) - n
  BY <1>1, <1>2, TakeType, DropType
<1>5. pouch_buf' \in Seq(Units) /\ Len(pouch_buf') = Len(pouch_buf) + n
  <2> DEFINE t == Take(packet, n)
  <2> HIDE DEF t, push_write
  <2>1. pouch_buf \o t \in Seq(Units) /\ Len(pouch_buf \o t) = Len(pouch_buf) + Len(t)
    BY <1>1, <1>4, ConcatProperties DEF t
  <2> QED
    BY <1>3, <1>4, <2>1 DEF t
<1>6. packet' = <<>> \/ Len(pouch_buf') = Capacity
  BY <1>1, <1>2, <1>3, <1>4, <1>5, Nonempty
<1>7. PacketState'
  BY <1>6 DEF OrderInv, PacketState
<1>8. Line' = Line /\ rest' = rest
  BY DEF decryptVars, consumeVars, Line, LineOf, Hold
<1>9. Bytes(pouch_buf') = pouch_buf' /\ Bytes(pouch_buf) = pouch_buf
  BY <1>1, <1>5, BufferNotNull DEF Bytes
<1>10. (pouch_buf \o Take(packet, n)) \o Drop(packet, n) = pouch_buf \o packet
  <2> HIDE DEF push_write
  <2> QED
    BY <1>1, <1>2, TakeDropConcat
<1>11. Assembling' = Assembling
  BY <1>3, <1>8, <1>9, <1>10, Zenon DEF Assembling
<1> QED
  BY <1>7, <1>8, <1>11, OrderSame

LEMMA OrderHeader ==
    ASSUME Inv, OrderInv, downlink_session_start
    PROVE  OrderInv'
<1> USE DEF downlink_session_start, TransportAt
<1>1. PacketState'
  BY DEF PacketState
<1>2. Line' = Line /\ UNCHANGED <<packet, rest, sending, dropped>>
  BY DEF decryptVars, consumeVars, Line, LineOf, Hold
<1> SUFFICES ASSUME ~dropped PROVE InOrder'
  BY <1>1, <1>2 DEF OrderInv
<1>3. /\ pouch_buf \in Seq(Units) /\ packet \in Seq(Units) /\ rest \in Seq(Units)
      /\ HeaderUnits \in Nat /\ HeaderUnits <= Len(pouch_buf)
      /\ sending \in 1..Len(Pouches) /\ ~pouch_header /\ pouch_buf # NoBuf
  BY DownlinkAssumption DEF Inv, Types, PushTypes, PushState
<1>4. /\ FlattenSeq(Line) = Bodies(sending - 1)
      /\ (pouch_buf \o packet) \o rest = Pouches[sending].wire
  BY <1>3 DEF OrderInv, InOrder, Assembling, Bytes
<1> DEFINE b == Drop(pouch_buf, HeaderUnits)
<1>5. b \in Seq(Units) /\ Bytes(b) = b /\ pouch_buf' = b
  BY <1>3, DropType, BufferNotNull DEF Bytes
<1>6. Drop((pouch_buf \o packet) \o rest, HeaderUnits) = (b \o packet) \o rest
  <2> HIDE DEF downlink_session_start
  <2> QED
    BY <1>3, DropFront, SMTT(30)
<1> HIDE DEF b
<1>8. Assembling' = Body(sending)
  BY <1>2, <1>4, <1>5, <1>6, Zenon DEF Assembling, Body
<1>9. Bodies(sending) = FlattenSeq(Line) \o Body(sending)
  BY <1>3, <1>4, NextBody
<1>10. pouch_header' /\ sending' = sending /\ sending # 0
  BY <1>3
<1> HIDE DEF downlink_session_start
<1> QED
  BY <1>2, <1>8, <1>9, <1>10 DEF InOrder, Bodies

LEMMA OrderBlock ==
    ASSUME Inv, OrderInv, push_block
    PROVE  OrderInv'
<1> USE DEF push_block, TransportAt
<1>1. PacketState' /\ pouch_header
  BY DEF OrderInv, PacketState
<1>2. UNCHANGED <<packet, rest, sending, pouch_header, dropped>>
  OBVIOUS
<1> SUFFICES ASSUME ~dropped PROVE InOrder'
  BY <1>1, <1>2 DEF OrderInv
<1>3. /\ pouch_buf \in Seq(Units) /\ packet \in Seq(Units) /\ rest \in Seq(Units)
      /\ sending \in 1..Len(Pouches) /\ pouch_buf # NoBuf /\ pouch_buf \in Blocks
  BY DownlinkAssumption, LenProperties DEF Inv, Types, PushTypes, PushState, Blocks
<1>4. PICK x \in Blocks, y \in Seq(Units) :
          decrypt_q' = Append(decrypt_q, x) /\ Bytes(pouch_buf') = y /\ x \o y = pouch_buf
  <2> DEFINE size == BlockSize(pouch_buf)
  <2>1. /\ size \in Nat /\ Take(pouch_buf, size) \in Blocks
        /\ Drop(pouch_buf, size) \in Seq(Units) /\ size <= Len(pouch_buf)
    BY <1>3, FirstBlock
  <2> HIDE DEF size
  <2>2. CASE decrypt_q' = Append(decrypt_q, Take(pouch_buf, size))
             /\ pouch_buf' = Drop(pouch_buf, size)
    <3>1. Bytes(pouch_buf') = Drop(pouch_buf, size)
      BY <2>1, <2>2, BufferNotNull DEF Bytes
    <3>2. Take(pouch_buf, size) \o Drop(pouch_buf, size) = pouch_buf
      BY <1>3, <2>1, TakeDrop
    <3> HIDE DEF push_block
    <3> QED
      BY <2>1, <2>2, <3>1, <3>2
  <2>3. CASE decrypt_q' = Append(decrypt_q, pouch_buf) /\ pouch_buf' = NoBuf
    <3>1. Bytes(pouch_buf') = <<>> /\ <<>> \in Seq(Units)
      BY <2>3, EmptySeq DEF Bytes
    <3>2. pouch_buf \o <<>> = pouch_buf
      BY <1>3, ConcatEmptySeq
    <3> HIDE DEF push_block
    <3> QED
      BY <1>3, <2>3, <3>1, <3>2
  <2> QED
    BY <2>2, <2>3 DEF size
<1>0. x \in Blocks /\ y \in Seq(Units)
  BY <1>4
<1>5. Line' = Append(Line, x)
  <2>1. Line' = LineOf(delivered, cbuf, consume_q, dbuf, Append(decrypt_q, x))
    BY <1>4 DEF Line, decryptVars, consumeVars
  <2>2. LineOf(delivered, cbuf, consume_q, dbuf, Append(decrypt_q, x)) = Append(Line, x)
    <3>1. /\ NoBuf \notin Blocks /\ delivered \in Seq(Blocks) /\ consume_q \in Seq(Blocks)
          /\ decrypt_q \in Seq(Blocks)
          /\ cbuf \in Blocks \union {NoBuf} /\ dbuf \in Blocks \union {NoBuf}
      BY LineTypes
    <3> HIDE DEF push_block, Blocks
    <3>2. LineOf(delivered, cbuf, consume_q, dbuf, Append(decrypt_q, x))
            = Append(LineOf(delivered, cbuf, consume_q, dbuf, decrypt_q), x)
      <4>1. ((delivered \o Hold(cbuf)) \o consume_q) \o Hold(dbuf) \in Seq(Blocks)
        BY <3>1, LineType
      <4> QED
        BY <1>0, <3>1, <4>1, LineAppend
    <3> QED
      BY <3>2 DEF Line
  <2> QED
    BY <2>1, <2>2
<1> HIDE DEF push_block
<1> DEFINE f == FlattenSeq(Line)
<1>6. f \in Seq(Units) /\ FlattenSeq(Line') = f \o x /\ x \in Seq(Units)
  <2>1. f \in Seq(Units) /\ Line \in Seq(Seq(Units)) /\ x \in Seq(Units)
    BY PushedIsLine, BlocksAreBytes, BlockNotNull
  <2> QED
    BY <1>5, <2>1, FlattenAppend
<1>7. Assembling = ((x \o y) \o packet) \o rest /\ Assembling' = (y \o packet) \o rest
  <2>1. Bytes(pouch_buf) = x \o y
    BY <1>3, <1>4 DEF Bytes
  <2> QED
    BY <1>2, <1>4, <2>1, Zenon DEF Assembling
<1>8. f \o Assembling = Bodies(sending)
  BY <1>1, <1>3 DEF OrderInv, InOrder
<1> HIDE DEF f
<1>9. (f \o x) \o ((y \o packet) \o rest) = f \o (((x \o y) \o packet) \o rest)
  <2>1. /\ f \in Seq(Units) /\ x \in Seq(Units) /\ y \in Seq(Units)
        /\ packet \in Seq(Units) /\ rest \in Seq(Units)
    BY <1>0, <1>3, <1>6
  <2> DEFINE yp == y \o packet
             z == yp \o rest
  <2>2. (x \o y) \o packet = x \o yp
    BY <2>1, ConcatAssociative, SMTT(30)
  <2>3. yp \in Seq(Units)
    BY <2>1, ConcatProperties
  <2> HIDE DEF yp
  <2>4. (x \o yp) \o rest = x \o z
    BY <2>1, <2>3, ConcatAssociative, SMTT(30)
  <2>5. z \in Seq(Units)
    BY <2>1, <2>3, ConcatProperties
  <2> HIDE DEF z
  <2>6. (f \o x) \o z = f \o (x \o z)
    BY <2>1, <2>5, ConcatAssociative, SMTT(30)
  <2> QED
    BY <2>2, <2>4, <2>6, Zenon DEF yp, z
<1>10. FlattenSeq(Line') \o Assembling' = Bodies(sending)
  BY <1>6, <1>7, <1>8, <1>9, Zenon
<1>11. sending # 0
  BY <1>3
<1> QED
  BY <1>1, <1>2, <1>10, <1>11 DEF InOrder, Bodies

(* The work queues move blocks along the line or discard them. *)
LEMMA OrderWork ==
    ASSUME Inv, GapInv, OrderInv, decrypt_blocks \/ consume_blocks
    PROVE  OrderInv'
<1> USE DEF DecryptAt, ConsumeAt
<1>1. UNCHANGED <<pouch_buf, pouch_header, tpc, packet, sending, rest>>
  BY DEF decrypt_blocks, consume_blocks, decrypt_begin, decrypt_block, decrypt_fail,
         decrypt_put, decrypt_again, consume_begin, consume_deliver, consume_again, pushVars
<1>2. PacketState' /\ Assembling' = Assembling
  BY <1>1 DEF OrderInv, PacketState, Assembling, Bytes
<1>3. (~dropped' => ~dropped) /\ (~decrypt_fail => dropped' = dropped)
  BY DEF decrypt_blocks, consume_blocks, decrypt_begin, decrypt_block, decrypt_fail,
         decrypt_put, decrypt_again, consume_begin, consume_deliver, consume_again
<1>4. /\ NoBuf \notin Blocks /\ delivered \in Seq(Blocks) /\ consume_q \in Seq(Blocks)
      /\ decrypt_q \in Seq(Blocks)
      /\ cbuf \in Blocks \union {NoBuf} /\ dbuf \in Blocks \union {NoBuf}
  BY LineTypes
<1>5. ~dropped' => Line' = Line
  <2> HIDE DEF Blocks
  <2>1. CASE decrypt_begin
    <3>1. /\ dbuf = NoBuf /\ decrypt_q # <<>> /\ dbuf' = Head(decrypt_q)
          /\ decrypt_q' = Tail(decrypt_q) /\ UNCHANGED <<delivered, cbuf, consume_q>>
      BY <2>1 DEF decrypt_begin, Inv, WorkState, GapInv, HoldState, consumeVars
    <3>2. LineOf(delivered, cbuf, consume_q, Head(decrypt_q), Tail(decrypt_q))
            = LineOf(delivered, cbuf, consume_q, NoBuf, decrypt_q)
      BY <1>4, <3>1, LineDecrypt
    <3> QED
      BY <3>1, <3>2 DEF Line
  <2>2. CASE decrypt_fail
    BY <2>2 DEF decrypt_fail
  <2>3. CASE decrypt_put
    <3>1. /\ dbuf \in Blocks /\ dbuf' = NoBuf /\ consume_q' = Append(consume_q, dbuf)
          /\ UNCHANGED <<delivered, cbuf, decrypt_q>>
      BY <1>4, <2>3 DEF decrypt_put, Inv, WorkState, consumeVars
    <3>2. LineOf(delivered, cbuf, Append(consume_q, dbuf), NoBuf, decrypt_q)
            = LineOf(delivered, cbuf, consume_q, dbuf, decrypt_q)
      BY <1>4, <3>1, LinePut
    <3> QED
      BY <3>1, <3>2 DEF Line
  <2>4. CASE consume_begin /\ consume_q # <<>>
    <3>1. /\ cbuf = NoBuf /\ cbuf' = Head(consume_q) /\ consume_q' = Tail(consume_q)
          /\ UNCHANGED <<delivered, dbuf, decrypt_q>>
      BY <2>4 DEF consume_begin, GapInv, HoldState, decryptVars
    <3>2. LineOf(delivered, Head(consume_q), Tail(consume_q), dbuf, decrypt_q)
            = LineOf(delivered, NoBuf, consume_q, dbuf, decrypt_q)
      BY <1>4, <2>4, LineConsume
    <3> QED
      BY <3>1, <3>2 DEF Line
  <2>5. CASE consume_deliver
    <3>1. /\ cbuf \in Blocks /\ delivered' = Append(delivered, cbuf) /\ cbuf' = NoBuf
          /\ UNCHANGED <<consume_q, dbuf, decrypt_q>>
      BY <1>4, <2>5 DEF consume_deliver, Inv, WorkState, decryptVars
    <3>2. LineOf(Append(delivered, cbuf), NoBuf, consume_q, dbuf, decrypt_q)
            = LineOf(delivered, cbuf, consume_q, dbuf, decrypt_q)
      BY <1>4, <3>1, LineDeliver
    <3> QED
      BY <3>1, <3>2 DEF Line
  <2>6. CASE decrypt_block \/ decrypt_again \/ consume_again
             \/ (consume_begin /\ consume_q = <<>>)
    <3>1. UNCHANGED <<delivered, cbuf, consume_q, dbuf, decrypt_q>>
      BY <2>6 DEF decrypt_block, decrypt_again, consume_again, consume_begin, decryptVars,
                  consumeVars
    <3> QED
      BY <3>1 DEF Line, LineOf, Hold
  <2> QED
    BY <2>1, <2>2, <2>3, <2>4, <2>5, <2>6 DEF decrypt_blocks, consume_blocks
<1> QED
  BY <1>1, <1>2, <1>3, <1>5, OrderSame

LEMMA OrderStep == Inv /\ GapInv /\ OrderInv /\ [Next]_vars => OrderInv'
<1> SUFFICES ASSUME Inv, GapInv, OrderInv, [Next]_vars PROVE OrderInv'
  OBVIOUS
<1>1. CASE UNCHANGED vars
  <2>1. /\ PacketState' /\ dropped' = dropped
        /\ UNCHANGED <<Line, Assembling, sending, pouch_header>>
    BY <1>1 DEF vars, pushVars, decryptVars, consumeVars, Line, LineOf, Hold, Assembling,
                Bytes, OrderInv, PacketState
  <2> QED
    BY <2>1, OrderSame
<1>2. CASE \E n \in 1..MaxPush : pouch_downlink_start(n) \/ pouch_downlink_push(n)
  BY <1>2, OrderCall
<1>3. CASE push_loop \/ crypto_session_end
  BY <1>3, OrderStay, OrderWrite, OrderHeader, OrderBlock DEF push_loop
<1>4. CASE decrypt_blocks \/ consume_blocks
  BY <1>4, OrderWork
<1> QED
  BY <1>1, <1>2, <1>3, <1>4 DEF Next

(* As long as nothing is discarded, the bytes that the handlers got, that wait in
   the queues and that are left of the packets are the bytes of the pouches, in
   their order, for pouches, blocks and packets of any length. *)
THEOREM BytesStayInOrder == Spec => []BytesInOrder
<1>1. Init => Inv /\ GapInv /\ OrderInv
  BY InvInit, GapInit, OrderInit
<1>2. Inv /\ GapInv /\ OrderInv /\ [Next]_vars => (Inv /\ GapInv /\ OrderInv)'
  BY InvStep, GapStep, OrderStep
<1>3. Inv /\ OrderInv => BytesInOrder
  <2> SUFFICES ASSUME Inv, OrderInv PROVE BytesInOrder
    OBVIOUS
  <2>1. Pushed = FlattenSeq(Line)
    BY PushedIsLine
  <2> HIDE DEF Bodies, Pushed
  <2> QED
    BY <2>1 DEF OrderInv, InOrder, Assembling, BytesInOrder
<1> QED
  BY <1>1, <1>2, <1>3, PTL DEF Spec
================================================================================
