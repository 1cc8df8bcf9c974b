----------------------------- MODULE BleGattProofs -----------------------------
(***************************************************************************)
(* What BleGatt's invariants say holds for every value of its constants:   *)
(* certificates, values and packets of any length, any number of           *)
(* connections that are lost at any point, and any memory failures.        *)
(***************************************************************************)
EXTENDS BleGatt, SequenceTheorems, TLAPS

LOCAL INSTANCE SequencesExt

-----------------------------------------------------------------------------
(* The packetizer *)

(* p goes on with a value that the receiver has old of: put together they are
   the whole value, or p has not sent its FIRST packet. *)
Continues(old, p, whole) ==
    /\ p \in Packetizers /\ whole \in Seq(Units)
    /\ p.is_first => p.left = whole
    /\ ~p.is_first => old \in Seq(Units) /\ whole = old \o p.left

(* What packetizer.c takes off the value is its beginning, the rest is kept, and
   LAST is set when nothing is kept. *)
LEMMA GetSplits ==
    ASSUME NEW p \in Packetizers, NEW room \in Nat \ {0}
    PROVE  /\ Get(p, room).packet.first = p.is_first
           /\ Get(p, room).packet.last \in BOOLEAN
           /\ Get(p, room).packet.data \in Seq(Units)
           /\ Get(p, room).next \in Packetizers
           /\ Get(p, room).next.is_first = FALSE
           /\ p.left = Get(p, room).packet.data \o Get(p, room).next.left
           /\ Get(p, room).packet.last => Get(p, room).packet.data = p.left
<1> DEFINE s == p.left
           n == IF room >= Len(s) THEN Len(s) ELSE room
           front == SubSeq(s, 1, n)
           back  == SubSeq(s, n + 1, Len(s))
<1>1. s \in Seq(Units) /\ p.is_first \in BOOLEAN
  BY DEF Packetizers
<1>2. Len(s) \in Nat /\ n \in 0..Len(s)
  BY <1>1, LenProperties
<1>3. front \in Seq(Units) /\ back \in Seq(Units)
  BY <1>1, <1>2, SubSeqProperties
<1>4. s = front \o back
  <2>1. SubSeq(s, 1, Len(s)) = s
    BY <1>1, SubSeqFull
  <2>2. 1 \in 1..Len(s) + 1 /\ n \in 1 - 1..Len(s) /\ Len(s) \in n..Len(s)
    BY <1>2
  <2> HIDE DEF n, s
  <2>3. SubSeq(s, 1, n) \o SubSeq(s, n + 1, Len(s)) = SubSeq(s, 1, Len(s))
    BY <1>1, <2>2, ConcatAdjacentSubSeq
  <2> QED
    BY <2>1, <2>3
<1>5. n = Len(s) => front = s
  BY <1>1, SubSeqFull
<1>6. Get(p, room) = [packet |-> [first |-> p.is_first, last |-> n = Len(s), data |-> front],
                      next   |-> [left |-> back, is_first |-> FALSE]]
  BY DEF Get
<1> HIDE DEF front, back, n
<1>7. /\ Get(p, room).packet.first = p.is_first
      /\ Get(p, room).packet.last = (n = Len(s))
      /\ Get(p, room).packet.data = front
      /\ Get(p, room).next.left = back /\ Get(p, room).next.is_first = FALSE
      /\ Get(p, room).next = [left |-> back, is_first |-> FALSE]
  BY <1>6
<1>8. Get(p, room).next \in Packetizers
  BY <1>3, <1>7 DEF Packetizers
<1> QED
  BY <1>3, <1>4, <1>5, <1>7, <1>8

(* A packet is decoded onto what the packets before it left, and the sender and
   the receiver still have the whole value between them. *)
LEMMA DecodeContinues ==
    ASSUME NEW old, NEW p, NEW whole, NEW room \in Nat \ {0}, Continues(old, p, whole)
    PROVE  /\ Decode(old, Get(p, room).packet, NoValue) \in Seq(Units)
           /\ Continues(Decode(old, Get(p, room).packet, NoValue), Get(p, room).next, whole)
           /\ Get(p, room).packet.last =>
                  Decode(old, Get(p, room).packet, NoValue) = whole
<1> DEFINE pkt == Get(p, room).packet
           nxt == Get(p, room).next
           d   == Decode(old, pkt, NoValue)
<1>0. SUFFICES /\ d \in Seq(Units)
               /\ Continues(d, nxt, whole)
               /\ pkt.last => d = whole
  OBVIOUS
<1>1. p \in Packetizers /\ whole \in Seq(Units)
  BY DEF Continues
<1>2. /\ pkt.first = p.is_first /\ pkt.last \in BOOLEAN /\ pkt.data \in Seq(Units)
      /\ nxt \in Packetizers /\ nxt.is_first = FALSE
      /\ p.left = pkt.data \o nxt.left
      /\ pkt.last => pkt.data = p.left
  BY <1>1, GetSplits
<1> HIDE DEF pkt, nxt, d
<1>3. nxt.left \in Seq(Units) /\ p.is_first \in BOOLEAN
  BY <1>1, <1>2 DEF Packetizers
<1>4. CASE p.is_first
  <2>1. d = pkt.data /\ p.left = whole
    BY <1>2, <1>4 DEF Decode, Continues, d
  <2>2. d \in Seq(Units) /\ whole = d \o nxt.left
    BY <1>2, <2>1, Zenon
  <2> QED
    BY <1>1, <1>2, <2>1, <2>2, Zenon DEF Continues
<1>5. CASE ~p.is_first
  <2>1. old \in Seq(Units) /\ old # NoValue /\ whole = old \o p.left
    BY <1>5, NoValueAssumption DEF Continues
  <2>2. d = old \o pkt.data
    BY <1>2, <1>5, <2>1 DEF Decode, d
  <2>3. d \in Seq(Units)
    BY <1>2, <2>1, <2>2, ConcatProperties
  <2>4. whole = d \o nxt.left
    <3>1. (old \o pkt.data) \o nxt.left = old \o (pkt.data \o nxt.left)
      <4>1. old \in Seq(Units) /\ pkt.data \in Seq(Units) /\ nxt.left \in Seq(Units)
        BY <1>2, <1>3, <2>1
      <4> DEFINE a == pkt.data
                 b == nxt.left
      <4>2. a \in Seq(Units) /\ b \in Seq(Units)
        BY <4>1
      <4> HIDE DEF a, b
      <4>3. (old \o a) \o b = old \o (a \o b)
        BY <4>1, <4>2, ConcatAssociative
      <4> QED
        BY <4>3 DEF a, b
    <3> QED
      BY <1>2, <2>1, <2>2, <3>1, Zenon
  <2>5. pkt.last => d = whole
    BY <1>2, <2>1, <2>2, Zenon
  <2> QED
    BY <1>1, <1>2, <2>3, <2>4, <2>5, Zenon DEF Continues
<1> QED
  BY <1>3, <1>4, <1>5

(* What a receiver has of a value is a prefix of it. *)
LEMMA PartIsPrefix ==
    ASSUME NEW s \in Seq(Units), NEW rest \in Seq(Units), NEW whole, whole = s \o rest
    PROVE  IsPrefix(s, whole)
<1>1. Len(s) \in Nat /\ Len(rest) \in Nat /\ Len(whole) = Len(s) + Len(rest)
  BY ConcatProperties, LenProperties
<1>2. SubSeq(s, 1, Len(s)) = s
  BY SubSeqFull
<1>3. SubSeq(whole, 1, Len(s)) = s
  BY SubSeqOfConcat1, <1>1, <1>2
<1> QED
  BY <1>1, <1>2, <1>3 DEF IsPrefix

LEMMA BytesType ==
    ASSUME NEW name \in ServerCerts \union Pouches \union {"device", "flags"}, NEW n \in Nat
    PROVE  Bytes(name, n) \in Seq(Units)
<1>1. \A i \in 1..n : <<name, i>> \in Units
  BY DEF Units
<1> QED
  BY <1>1, IsASeq DEF Bytes

LEMMA NewContinues ==
    ASSUME NEW old, NEW whole \in Seq(Units)
    PROVE  Continues(old, NewPacketizer(whole), whole) /\ NewPacketizer(whole).is_first = TRUE
  BY DEF Continues, NewPacketizer, Packetizers

-----------------------------------------------------------------------------
(* The inductive invariant *)

Received == [data : Seq(Units) \union {NoValue}, want : Seq(Units) \union {NoValue}]

ReadTypes ==
    /\ packetizer \in [Characteristics -> Packetizers \union {NoValue}]
    /\ rx \in [Characteristics -> Received]
    /\ got \in [Characteristics -> Received \union {NoValue}]

(* The packetizers outlive a connection: one that is kept has sent its FIRST
   packet, and only a gateway that got it goes on with the same value. *)
ReadState ==
    \A c \in Characteristics :
        /\ packetizer[c] # NoValue => packetizer[c].is_first = FALSE
        /\ rx[c].data # NoValue =>
               packetizer[c] # NoValue /\ Continues(rx[c].data, packetizer[c], rx[c].want)
        /\ got[c] # NoValue => got[c].data = got[c].want

WriteTypes ==
    /\ sending \in [cert : Packetizers \union {NoValue}, pouch : Packetizers \union {NoValue}]
    /\ upload \in Seq(Units) \union {NoValue} /\ pushed \in Seq(Units)

(* What is left of a value that is being written completes what the node has. *)
WriteState ==
    /\ sending.cert # NoValue =>
           \E c \in ServerCerts : Continues(upload, sending.cert, Certificate(c))
    /\ sending.pouch # NoValue =>
           \E p \in Pouches : Continues(pushed, sending.pouch, Bytes(p, PouchUnits))

CertTypes ==
    /\ server_cert \in [key : ServerCerts \cup {NoCert}, serial : ServerCerts \cup {NoCert}]
    /\ conn \in {"down", "up", "closing"} /\ cloud \in ServerCerts
    /\ faults \in 0..MaxFaults /\ rotations \in 0..MaxRotations

ReadInv  == ReadTypes /\ ReadState
WriteInv == WriteTypes /\ WriteState /\ WritesArePrefixes
BleInv   == CertTypes /\ KeyMatchesSerial /\ ReadInv /\ WriteInv

LEMMA Lengths ==
    /\ SerialUnits \in Nat /\ CertUnits \in Nat /\ DeviceUnits \in Nat /\ PouchUnits \in Nat
    /\ \A room \in 1..MaxPayload : room \in Nat \ {0}
  BY BleAssumption

LEMMA CertificateType == \A c \in ServerCerts : Certificate(c) \in Seq(Units)
  BY BytesType, Lengths DEF Certificate

LEMMA CertificatesDiffer ==
    ASSUME NEW c, NEW d, Certificate(c) = Certificate(d)
    PROVE  c = d
<1>1. 1 \in 1..CertUnits
  BY BleAssumption
<1>2. Certificate(c)[1] = <<c, 1>> /\ Certificate(d)[1] = <<d, 1>>
  BY <1>1 DEF Certificate, Bytes
<1> QED
  BY <1>2

LEMMA ValueType ==
    ASSUME CertTypes, NEW c \in Characteristics
    PROVE  Value(c) \in Seq(Units)
<1>1. server_cert.serial \in ServerCerts \union {NoCert}
  BY DEF CertTypes
<1>2. Serial(server_cert.serial) \in Seq(Units)
  <2>1. CASE server_cert.serial = NoCert
    BY <2>1, EmptySeq DEF Serial
  <2>2. CASE server_cert.serial # NoCert
    BY <1>1, <2>2, BytesType, Lengths DEF Serial
  <2> QED
    BY <2>1, <2>2
<1>3. Bytes("device", DeviceUnits) \in Seq(Units)
  BY BytesType, Lengths
<1>4. <<<<"flags", 1>>>> \o Serial(server_cert.serial) \in Seq(Units)
  <2> DEFINE f == <<<<"flags", 1>>>>
  <2>1. f \in Seq(Units)
    <3>1. <<"flags", 1>> \in Units
      BY DEF Units
    <3> QED
      BY <3>1
  <2> HIDE DEF f
  <2>2. f \o Serial(server_cert.serial) \in Seq(Units)
    BY <1>2, <2>1, ConcatProperties
  <2> QED
    BY <2>2 DEF f
<1>5. CASE c = "serial"
  BY <1>2, <1>5 DEF Value
<1>6. CASE c = "info"
  BY <1>4, <1>6 DEF Value
<1>7. CASE c = "device"
  BY <1>3, <1>7 DEF Value
<1> QED
  BY <1>5, <1>6, <1>7 DEF Characteristics

-----------------------------------------------------------------------------
(* Reads *)

LEMMA ReadStep ==
    ASSUME CertTypes, ReadInv, NEW c \in Characteristics, NEW room \in 1..MaxPayload,
           read(c, room)
    PROVE  ReadInv'
<1> DEFINE p    == Opened(c)
           pkt  == Get(p, room).packet
           nxt  == Get(p, room).next
           want == IF pkt.first THEN Value(c) ELSE rx[c].want
           data == Decode(rx[c].data, pkt, NoValue)
<1>0. room \in Nat \ {0} /\ Value(c) \in Seq(Units)
  BY Lengths, ValueType
<1>1. /\ packetizer' = [packetizer EXCEPT ![c] = IF pkt.last THEN NoValue ELSE nxt]
      /\ rx' = [rx EXCEPT ![c] = IF pkt.last THEN Nothing ELSE [data |-> data, want |-> want]]
      /\ got' = [got EXCEPT ![c] = IF ~pkt.last THEN got[c]
                                   ELSE IF data = NoValue THEN NoValue
                                   ELSE [data |-> data, want |-> want]]
      /\ got[c] = NoValue
  <2>1. got \in [Characteristics -> Received \union {NoValue}]
    BY DEF ReadInv, ReadTypes
  <2>2. /\ packetizer' = [packetizer EXCEPT ![c] = IF pkt.last THEN NoValue ELSE nxt]
        /\ pkt.last => /\ rx' = [rx EXCEPT ![c] = Nothing]
                       /\ got' = [got EXCEPT ![c] = IF data = NoValue THEN NoValue
                                             ELSE [data |-> data, want |-> want]]
        /\ ~pkt.last => rx' = [rx EXCEPT ![c] = [data |-> data, want |-> want]] /\ got' = got
        /\ got[c] = NoValue
    BY Zenon DEF read
  <2> HIDE DEF p, pkt, nxt, want, data
  <2>3. got = [got EXCEPT ![c] = got[c]]
    BY <2>1
  <2>4. CASE pkt.last
    BY <2>2, <2>4
  <2>5. CASE ~pkt.last
    BY <2>2, <2>3, <2>5
  <2> QED
    BY <2>4, <2>5
<1>2. p \in Packetizers /\ (packetizer[c] = NoValue => p = NewPacketizer(Value(c)))
      /\ (packetizer[c] # NoValue => p = packetizer[c] /\ p.is_first = FALSE)
  BY <1>0 DEF Opened, NewPacketizer, Packetizers, ReadInv, ReadTypes, ReadState
<1>3. /\ pkt.first = p.is_first /\ pkt.last \in BOOLEAN
      /\ nxt \in Packetizers /\ nxt.is_first = FALSE /\ nxt # NoValue
  BY <1>0, <1>2, GetSplits, NoValueAssumption
<1>4. rx[c] \in Received /\ rx[c].data \in Seq(Units) \union {NoValue}
      /\ rx[c].want \in Seq(Units) \union {NoValue}
  BY DEF ReadInv, ReadTypes, Received
<1>5. /\ data \in Seq(Units) \union {NoValue} /\ want \in Seq(Units) \union {NoValue}
      /\ data # NoValue => Continues(data, nxt, want) /\ (pkt.last => data = want)
  <2>1. CASE packetizer[c] # NoValue /\ rx[c].data = NoValue
    <3>1. data = NoValue
      <4> HIDE DEF pkt
      <4> QED
        BY <1>2, <1>3, <2>1 DEF Decode
    <3>2. want = rx[c].want
      BY <1>2, <1>3, <2>1
    <3> HIDE DEF pkt, nxt, data, want
    <3> QED
      BY <1>4, <3>1, <3>2
  <2>2. CASE packetizer[c] # NoValue /\ rx[c].data # NoValue
    <3>1. Continues(rx[c].data, p, rx[c].want) /\ want = rx[c].want
      BY <1>2, <1>3, <2>2 DEF ReadInv, ReadState
    <3>2. data \in Seq(Units) /\ Continues(data, nxt, rx[c].want)
          /\ (pkt.last => data = rx[c].want)
      BY <1>0, <3>1, DecodeContinues
    <3> HIDE DEF pkt, nxt, data, want, p
    <3> QED
      BY <1>4, <3>1, <3>2
  <2>3. CASE packetizer[c] = NoValue
    <3>1. Continues(rx[c].data, p, Value(c)) /\ p.is_first = TRUE
      BY <1>0, <1>2, <2>3, NewContinues
    <3>2. want = Value(c)
      BY <1>3, <3>1
    <3>3. data \in Seq(Units) /\ Continues(data, nxt, Value(c))
          /\ (pkt.last => data = Value(c))
      BY <1>0, <3>1, DecodeContinues
    <3> HIDE DEF pkt, nxt, data, want, p
    <3> QED
      BY <1>0, <3>2, <3>3
  <2> QED
    BY <2>1, <2>2, <2>3
<1> HIDE DEF p, pkt, nxt, want, data
<1>6. /\ packetizer \in [Characteristics -> Packetizers \union {NoValue}]
      /\ rx \in [Characteristics -> Received]
      /\ got \in [Characteristics -> Received \union {NoValue}]
  BY DEF ReadInv, ReadTypes
<1>7. [data |-> data, want |-> want] \in Received /\ Nothing \in Received
      /\ Nothing.data = NoValue
  BY <1>5 DEF Received, Nothing
<1>8. ReadTypes'
  BY <1>1, <1>3, <1>6, <1>7 DEF ReadTypes
<1>9. ReadState'
  <2> SUFFICES ASSUME NEW d \in Characteristics
               PROVE  /\ packetizer'[d] # NoValue => packetizer'[d].is_first = FALSE
                      /\ rx'[d].data # NoValue =>
                             /\ packetizer'[d] # NoValue
                             /\ Continues(rx'[d].data, packetizer'[d], rx'[d].want)
                      /\ got'[d] # NoValue => got'[d].data = got'[d].want
    BY DEF ReadState
  <2>1. CASE d # c
    <3>1. packetizer'[d] = packetizer[d] /\ rx'[d] = rx[d] /\ got'[d] = got[d]
      BY <1>1, <1>6, <2>1
    <3> QED
      BY <3>1 DEF ReadInv, ReadState
  <2>2. CASE d = c /\ pkt.last
    <3>1. packetizer'[d] = NoValue /\ rx'[d] = Nothing
          /\ got'[d] = IF data = NoValue THEN NoValue ELSE [data |-> data, want |-> want]
      BY <1>1, <1>6, <2>2
    <3> QED
      BY <1>5, <1>7, <2>2, <3>1
  <2>3. CASE d = c /\ ~pkt.last
    <3>1. packetizer'[d] = nxt /\ rx'[d] = [data |-> data, want |-> want]
          /\ got'[d] = NoValue
      BY <1>1, <1>6, <2>3
    <3>2. rx'[d].data = data /\ rx'[d].want = want
      BY <3>1
    <3> QED
      BY <1>3, <1>5, <3>1, <3>2
  <2> QED
    BY <2>1, <2>2, <2>3
<1> QED
  BY <1>8, <1>9 DEF ReadInv

(* A gateway that forgets what it has, or what it has read *)
LEMMA Forget ==
    ASSUME ReadInv, packetizer' = packetizer,
           \/ rx' = rx
           \/ rx' = [c \in Characteristics |-> Nothing],
           \/ got' = got
           \/ got' = [c \in Characteristics |-> NoValue]
    PROVE  ReadInv'
<1>1. Nothing \in Received /\ Nothing.data = NoValue
  BY DEF Nothing, Received
<1>2. ReadTypes'
  BY <1>1 DEF ReadInv, ReadTypes
<1>3. \A c \in Characteristics :
          /\ rx'[c] = rx[c] \/ rx'[c] = Nothing
          /\ got'[c] = got[c] \/ got'[c] = NoValue
  OBVIOUS
<1>4. ReadState'
  BY <1>1, <1>3 DEF ReadInv, ReadState
<1> QED
  BY <1>2, <1>4 DEF ReadInv

-----------------------------------------------------------------------------
(* Writes *)

LEMMA ContinuesIsPrefix ==
    ASSUME NEW old, NEW p, NEW whole, Continues(old, p, whole), p.is_first = FALSE
    PROVE  IsPrefix(old, whole)
<1>1. old \in Seq(Units) /\ p.left \in Seq(Units) /\ whole = old \o p.left
  BY DEF Continues, Packetizers
<1> QED
  BY <1>1, PartIsPrefix

LEMMA CertWriteStep ==
    ASSUME WriteInv, NEW room \in 1..MaxPayload, server_cert_write(room)
    PROVE  WriteInv'
<1> DEFINE pkt == Get(sending.cert, room).packet
           nxt == Get(sending.cert, room).next
           up  == Decode(upload, pkt, NoValue)
<1>0. room \in Nat \ {0}
  BY Lengths
<1>1. /\ sending.cert # NoValue /\ pushed' = pushed
      /\ pkt.last => upload' = NoValue /\ sending' = [sending EXCEPT !.cert = NoValue]
      /\ ~pkt.last => upload' = up /\ sending' = [sending EXCEPT !.cert = nxt]
  BY Zenon DEF server_cert_write, uploaded
<1>2. PICK c \in ServerCerts : Continues(upload, sending.cert, Certificate(c))
  BY <1>1 DEF WriteInv, WriteState
<1>3. /\ up \in Seq(Units) /\ Continues(up, nxt, Certificate(c))
      /\ pkt.last \in BOOLEAN /\ nxt \in Packetizers /\ nxt.is_first = FALSE
  <2>1. sending.cert \in Packetizers
    BY <1>2 DEF Continues
  <2> QED
    BY <1>0, <1>2, <2>1, DecodeContinues, GetSplits
<1> HIDE DEF pkt, nxt, up
<1>4. IsPrefix(up, Certificate(c))
  BY <1>3, ContinuesIsPrefix
<1>5. /\ sending \in [cert : Packetizers \union {NoValue}, pouch : Packetizers \union {NoValue}]
      /\ upload \in Seq(Units) \union {NoValue} /\ pushed \in Seq(Units)
  BY DEF WriteInv, WriteTypes
<1>6. /\ sending'.pouch = sending.pouch
      /\ pkt.last => sending'.cert = NoValue
      /\ ~pkt.last => sending'.cert = nxt
  BY <1>1, <1>5
<1>7. WriteTypes'
  BY <1>1, <1>3, <1>5 DEF WriteTypes
<1>8. WriteState'
  <2>1. sending'.cert # NoValue => Continues(upload', sending'.cert, Certificate(c))
    BY <1>1, <1>3, <1>6
  <2>2. sending'.pouch # NoValue =>
            \E p \in Pouches : Continues(pushed', sending'.pouch, Bytes(p, PouchUnits))
    BY <1>1, <1>6 DEF WriteInv, WriteState
  <2> QED
    BY <2>1, <2>2 DEF WriteState
<1>9. WritesArePrefixes'
  <2>1. IsPart(upload', Certificate(c))
    BY <1>1, <1>3, <1>4 DEF IsPart
  <2> QED
    BY <1>1, <2>1 DEF WriteInv, WritesArePrefixes
<1> QED
  BY <1>7, <1>8, <1>9 DEF WriteInv

LEMMA PouchWriteStep ==
    ASSUME WriteInv, NEW room \in 1..MaxPayload, downlink_write(room)
    PROVE  WriteInv'
<1> DEFINE pkt == Get(sending.pouch, room).packet
           nxt == Get(sending.pouch, room).next
           new == Decode(pushed, pkt, NoValue)
<1>0. room \in Nat \ {0} /\ pushed \in Seq(Units) /\ pushed # NoValue
  BY Lengths, NoValueAssumption DEF WriteInv, WriteTypes
<1>1. /\ sending.pouch # NoValue /\ upload' = upload
      /\ pushed' = (IF pkt.first THEN <<>> ELSE pushed) \o pkt.data
      /\ sending' = [sending EXCEPT !.pouch = IF pkt.last THEN NoValue ELSE nxt]
  BY Zenon DEF downlink_write
<1>2. PICK p \in Pouches : Continues(pushed, sending.pouch, Bytes(p, PouchUnits))
  BY <1>1 DEF WriteInv, WriteState
<1>3. /\ new \in Seq(Units) /\ Continues(new, nxt, Bytes(p, PouchUnits))
      /\ pkt.last \in BOOLEAN /\ nxt \in Packetizers /\ nxt.is_first = FALSE
      /\ pkt.data \in Seq(Units) /\ pkt.first \in BOOLEAN
  <2>1. sending.pouch \in Packetizers /\ sending.pouch.is_first \in BOOLEAN
    BY <1>2 DEF Continues, Packetizers
  <2> QED
    BY <1>0, <1>2, <2>1, DecodeContinues, GetSplits
<1> HIDE DEF pkt, nxt, new
<1>4. pushed' = new
  <2>1. CASE pkt.first
    BY <1>1, <1>3, <2>1, ConcatEmptySeq DEF Decode, new
  <2>2. CASE ~pkt.first
    BY <1>0, <1>1, <2>2 DEF Decode, new
  <2> QED
    BY <2>1, <2>2
<1>5. /\ sending \in [cert : Packetizers \union {NoValue}, pouch : Packetizers \union {NoValue}]
      /\ upload \in Seq(Units) \union {NoValue}
  BY DEF WriteInv, WriteTypes
<1>6. /\ sending'.cert = sending.cert
      /\ sending'.pouch = IF pkt.last THEN NoValue ELSE nxt
  BY <1>1, <1>5
<1>7. WriteTypes'
  BY <1>1, <1>3, <1>4, <1>5 DEF WriteTypes
<1>8. WriteState'
  <2>1. sending'.pouch # NoValue => Continues(pushed', sending'.pouch, Bytes(p, PouchUnits))
    BY <1>3, <1>4, <1>6
  <2>2. sending'.cert # NoValue =>
            \E c \in ServerCerts : Continues(upload', sending'.cert, Certificate(c))
    BY <1>1, <1>6 DEF WriteInv, WriteState
  <2> QED
    BY <2>1, <2>2 DEF WriteState
<1>9. WritesArePrefixes'
  <2>1. IsPrefix(pushed', Bytes(p, PouchUnits))
    BY <1>3, <1>4, ContinuesIsPrefix
  <2> QED
    BY <1>1, <2>1 DEF WriteInv, WritesArePrefixes
<1> QED
  BY <1>7, <1>8, <1>9 DEF WriteInv

(* The gateway begins to write, gives up, or writes nothing. *)
LEMMA SendingStep ==
    ASSUME CertTypes, WriteInv,
           \/ begin_upload \/ (\E p \in Pouches : begin_pouch(p))
           \/ disconnected \/ server_cert_write_no_memory
           \/ UNCHANGED <<upload, pushed, sending>>
    PROVE  WriteInv'
<1>0. /\ sending \in [cert : Packetizers \union {NoValue}, pouch : Packetizers \union {NoValue}]
      /\ upload \in Seq(Units) \union {NoValue} /\ pushed \in Seq(Units)
      /\ cloud \in ServerCerts
  BY DEF WriteInv, WriteTypes, CertTypes
<1>1. pushed' = pushed /\ (upload' = upload \/ upload' = NoValue)
  BY DEF begin_upload, begin_pouch, disconnected, server_cert_write_no_memory
<1>2. /\ sending'.cert = NoValue \/ (sending'.cert = sending.cert /\ upload' = upload)
             \/ sending'.cert = NewPacketizer(Certificate(cloud))
      /\ sending'.pouch = NoValue \/ sending'.pouch = sending.pouch
             \/ \E p \in Pouches : sending'.pouch = NewPacketizer(Bytes(p, PouchUnits))
      /\ sending' = [cert |-> sending'.cert, pouch |-> sending'.pouch]
  <2>1. CASE begin_upload
    BY <1>0, <2>1 DEF begin_upload
  <2>2. CASE \E p \in Pouches : begin_pouch(p)
    BY <1>0, <2>2 DEF begin_pouch
  <2>3. CASE disconnected \/ server_cert_write_no_memory
    BY <1>0, <2>3 DEF disconnected, server_cert_write_no_memory
  <2>4. CASE UNCHANGED <<upload, pushed, sending>>
    BY <1>0, <2>4
  <2> QED
    BY <2>1, <2>2, <2>3, <2>4
<1>3. sending'.cert # NoValue =>
          \E c \in ServerCerts : Continues(upload', sending'.cert, Certificate(c))
  BY <1>0, <1>2, CertificateType, NewContinues DEF WriteInv, WriteState
<1>4. sending'.pouch # NoValue =>
          \E p \in Pouches : Continues(pushed', sending'.pouch, Bytes(p, PouchUnits))
  <2>1. \A p \in Pouches : Bytes(p, PouchUnits) \in Seq(Units)
    BY BytesType, Lengths
  <2> QED
    BY <1>1, <1>2, <2>1, NewContinues DEF WriteInv, WriteState
<1>5. WriteTypes'
  <2>1. /\ sending'.cert \in Packetizers \union {NoValue}
        /\ sending'.pouch \in Packetizers \union {NoValue}
    BY <1>3, <1>4 DEF Continues
  <2> QED
    BY <1>0, <1>1, <1>2, <2>1 DEF WriteTypes
<1>6. WritesArePrefixes'
  BY <1>1 DEF WriteInv, WritesArePrefixes, IsPart
<1> QED
  BY <1>3, <1>4, <1>5, <1>6 DEF WriteInv, WriteState

-----------------------------------------------------------------------------
(* The certificate store *)

LEMMA SetKeepsPair ==
    ASSUME CertTypes, KeyMatchesSerial, NEW bytes
    PROVE  /\ cert_server_set(bytes).cert
                  \in [key : ServerCerts \cup {NoCert}, serial : ServerCerts \cup {NoCert}]
           /\ cert_server_set(bytes).cert.key = cert_server_set(bytes).cert.serial
           /\ cert_server_set(bytes).cert.key # NoCert =>
                  Kind[cert_server_set(bytes).cert.key] = "good"
<1> DEFINE set == cert_server_set(bytes)
<1>1. set.cert = server_cert \/ \E c \in ServerCerts :
                                    Kind[c] = "good" /\ set.cert = [key |-> c, serial |-> c]
  <2>1. CASE \E c \in ServerCerts : bytes = Certificate(c) /\ Kind[c] # "unparsable"
    <3> DEFINE c == CHOOSE c \in ServerCerts : bytes = Certificate(c)
    <3>1. c \in ServerCerts /\ Kind[c] # "unparsable"
      <4>1. c \in ServerCerts /\ bytes = Certificate(c)
        BY <2>1
      <4> HIDE DEF c
      <4> QED
        BY <2>1, <4>1, CertificatesDiffer
    <3>2. set = CASE Kind[c] = "untrusted"  -> [err |-> "EPERM", cert |-> server_cert]
                  [] Kind[c] = "longserial" -> [err |-> "0", cert |-> server_cert]
                  [] Kind[c] = "rsa"        -> [err |-> "EIO", cert |-> server_cert]
                  [] Kind[c] = "good"       -> [err |-> "0", cert |-> store_cert(c)]
      BY <2>1 DEF cert_server_set
    <3> HIDE DEF c, set
    <3> QED
      BY <3>1, <3>2, BleAssumption DEF store_cert
  <2>2. CASE ~\E c \in ServerCerts : bytes = Certificate(c) /\ Kind[c] # "unparsable"
    BY <2>2 DEF cert_server_set
  <2> QED
    BY <2>1, <2>2
<1> HIDE DEF set
<1>2. /\ set.cert \in [key : ServerCerts \cup {NoCert}, serial : ServerCerts \cup {NoCert}]
      /\ set.cert.key = set.cert.serial
      /\ set.cert.key # NoCert => Kind[set.cert.key] = "good"
  <2>1. CASE set.cert = server_cert
    BY <2>1 DEF CertTypes, KeyMatchesSerial
  <2>2. ASSUME NEW c \in ServerCerts, Kind[c] = "good", set.cert = [key |-> c, serial |-> c]
        PROVE  /\ set.cert \in [key : ServerCerts \cup {NoCert}, serial : ServerCerts \cup {NoCert}]
               /\ set.cert.key = set.cert.serial
               /\ set.cert.key # NoCert => Kind[set.cert.key] = "good"
    <3>1. set.cert.key = c /\ set.cert.serial = c
      BY <2>2
    <3> QED
      BY <2>2, <3>1
  <2> QED
    BY <1>1, <2>1, <2>2
<1> QED
  BY <1>2 DEF set

LEMMA CertStep ==
    ASSUME CertTypes, KeyMatchesSerial, [Next]_vars
    PROVE  CertTypes' /\ KeyMatchesSerial'
<1>0. MaxFaults \in Nat /\ MaxRotations \in Nat
  BY BleAssumption
<1>1. \/ server_cert' = server_cert
      \/ \E bytes : server_cert' = cert_server_set(bytes).cert
  <2>1. CASE \E room \in 1..MaxPayload : server_cert_write(room)
    <3>1. PICK room \in 1..MaxPayload : server_cert_write(room)
      BY <2>1
    <3> DEFINE bytes == uploaded(Get(sending.cert, room).packet)
    <3>2. server_cert' = server_cert \/ server_cert' = cert_server_set(bytes).cert
      BY <3>1, Zenon DEF server_cert_write
    <3> QED
      BY <3>2
  <2>2. CASE ~\E room \in 1..MaxPayload : server_cert_write(room)
    BY <2>2 DEF Next, vars, connected, disconnected, Rotate, info_read,
                server_cert_serial_read, device_cert_read, read, begin_upload,
                server_cert_write_no_memory, begin_pouch, downlink_write
  <2> QED
    BY <2>1, <2>2
<1>2. /\ server_cert'
             \in [key : ServerCerts \cup {NoCert}, serial : ServerCerts \cup {NoCert}]
      /\ KeyMatchesSerial'
  <2>1. CASE server_cert' = server_cert
    BY <2>1 DEF CertTypes, KeyMatchesSerial
  <2>2. ASSUME NEW bytes, server_cert' = cert_server_set(bytes).cert
        PROVE  server_cert' \in [key : ServerCerts \cup {NoCert}, serial : ServerCerts \cup {NoCert}]
               /\ KeyMatchesSerial'
    BY <2>2, SetKeepsPair DEF KeyMatchesSerial
  <2> QED
    BY <1>1, <2>1, <2>2
<1>3. /\ conn' \in {"down", "up", "closing"} /\ cloud' \in ServerCerts
      /\ faults' \in 0..MaxFaults /\ rotations' \in 0..MaxRotations
  <2>0. /\ conn \in {"down", "up", "closing"} /\ cloud \in ServerCerts
        /\ faults \in 0..MaxFaults /\ rotations \in 0..MaxRotations
    BY DEF CertTypes
  <2>1. CASE \E room \in 1..MaxPayload : server_cert_write(room)
    <3>1. PICK room \in 1..MaxPayload : server_cert_write(room)
      BY <2>1
    <3>2. /\ conn' = "closing" \/ conn' = conn
          /\ UNCHANGED <<cloud, faults, rotations>>
      BY <3>1, Zenon DEF server_cert_write
    <3> QED
      BY <2>0, <3>2
  <2>2. CASE UNCHANGED vars \/ connected \/ disconnected \/ Rotate
    BY <1>0, <2>0, <2>2 DEF vars, connected, disconnected, Rotate
  <2>3. CASE begin_upload \/ server_cert_write_no_memory \/ \E p \in Pouches : begin_pouch(p)
    BY <1>0, <2>0, <2>3 DEF begin_upload, server_cert_write_no_memory, begin_pouch
  <2>4. CASE \E room \in 1..MaxPayload :
                 \/ info_read(room) \/ server_cert_serial_read(room) \/ device_cert_read(room)
                 \/ downlink_write(room)
    <3>1. UNCHANGED <<conn, cloud, faults, rotations>>
      BY <2>4 DEF info_read, server_cert_serial_read, device_cert_read, read, downlink_write
    <3> QED
      BY <2>0, <3>1
  <2> QED
    BY <2>1, <2>2, <2>3, <2>4 DEF Next
<1> QED
  BY <1>2, <1>3 DEF CertTypes

LEMMA ReadInvStep ==
    ASSUME CertTypes, ReadInv, [Next]_vars
    PROVE  ReadInv'
<1>1. CASE \E room \in 1..MaxPayload :
               info_read(room) \/ server_cert_serial_read(room) \/ device_cert_read(room)
  BY <1>1, ReadStep DEF info_read, server_cert_serial_read, device_cert_read, Characteristics
<1>2. CASE \E room \in 1..MaxPayload : server_cert_write(room)
  <2>1. PICK room \in 1..MaxPayload : server_cert_write(room)
    BY <1>2
  <2>2. /\ UNCHANGED <<packetizer, rx>>
        /\ got' = got \/ got' = [c \in Characteristics |-> NoValue]
    BY <2>1, Zenon DEF server_cert_write
  <2> QED
    BY <2>2, Forget
<1>3. CASE disconnected
  BY <1>3, Forget DEF disconnected
<1>4. CASE \/ UNCHANGED vars \/ connected \/ Rotate \/ begin_upload
           \/ server_cert_write_no_memory \/ (\E p \in Pouches : begin_pouch(p))
           \/ \E room \in 1..MaxPayload : downlink_write(room)
  <2>1. UNCHANGED <<packetizer, rx, got>>
    BY <1>4 DEF vars, connected, Rotate, begin_upload, server_cert_write_no_memory,
                begin_pouch, downlink_write
  <2> QED
    BY <2>1, Forget
<1> QED
  BY <1>1, <1>2, <1>3, <1>4 DEF Next

LEMMA WriteInvStep ==
    ASSUME CertTypes, WriteInv, [Next]_vars
    PROVE  WriteInv'
<1>1. CASE \E room \in 1..MaxPayload : server_cert_write(room)
  BY <1>1, CertWriteStep
<1>2. CASE \E room \in 1..MaxPayload : downlink_write(room)
  BY <1>2, PouchWriteStep
<1>3. CASE \/ begin_upload \/ (\E p \in Pouches : begin_pouch(p))
           \/ disconnected \/ server_cert_write_no_memory
  BY <1>3, SendingStep
<1>4. CASE \/ UNCHANGED vars \/ connected \/ Rotate
           \/ \E room \in 1..MaxPayload :
                  info_read(room) \/ server_cert_serial_read(room) \/ device_cert_read(room)
  <2>1. UNCHANGED <<upload, pushed, sending>>
    BY <1>4 DEF vars, connected, Rotate, info_read, server_cert_serial_read,
                device_cert_read, read
  <2> QED
    BY <2>1, SendingStep
<1> QED
  BY <1>1, <1>2, <1>3, <1>4 DEF Next

LEMMA BleInit == Init => BleInv
<1> SUFFICES ASSUME Init PROVE BleInv
  OBVIOUS
<1> USE DEF Init
<1>1. CertTypes /\ KeyMatchesSerial
  BY BleAssumption DEF CertTypes, KeyMatchesSerial
<1>2. ReadInv
  BY DEF ReadInv, ReadTypes, ReadState, Received, Nothing
<1>3. WriteTypes /\ WriteState
  BY EmptySeq DEF WriteTypes, WriteState
<1>4. WritesArePrefixes
  BY DEF WritesArePrefixes, IsPart
<1> QED
  BY <1>1, <1>2, <1>3, <1>4 DEF BleInv, WriteInv

LEMMA BleStep == BleInv /\ [Next]_vars => BleInv'
  BY CertStep, ReadInvStep, WriteInvStep DEF BleInv

-----------------------------------------------------------------------------
(* The node's state has the shape the handlers and cert.c give it. *)
THEOREM BleTypeCorrect == Spec => []TypeOK
<1>1. BleInv => TypeOK
  <2> SUFFICES ASSUME BleInv PROVE TypeOK
    OBVIOUS
  <2>1. /\ DOMAIN packetizer = Characteristics
        /\ \A c \in Characteristics :
               packetizer[c] # NoValue => packetizer[c].is_first \in BOOLEAN
    BY DEF BleInv, ReadInv, ReadTypes, ReadState
  <2> QED
    BY <2>1 DEF TypeOK, BleInv, CertTypes
<1> QED
  BY BleInit, BleStep, <1>1, PTL DEF Spec

(* Whatever the lengths of values and packets and wherever connections are lost, a
   gateway that puts a value together, FIRST to LAST, has the value the node had
   when info_read, server_cert_serial_read or device_cert_read answered FIRST. *)
THEOREM ValuesAreNotTorn == Spec => []NoTornValue
<1>1. BleInv => NoTornValue
  <2> SUFFICES ASSUME BleInv, NEW c \in Characteristics
               PROVE  /\ rx[c].data # NoValue => IsPrefix(rx[c].data, rx[c].want)
                      /\ got[c] # NoValue => got[c].data = got[c].want
    BY DEF NoTornValue
  <2>1. rx[c].data # NoValue => IsPrefix(rx[c].data, rx[c].want)
    <3>1. rx[c].data # NoValue =>
              /\ Continues(rx[c].data, packetizer[c], rx[c].want)
              /\ packetizer[c].is_first = FALSE
      BY DEF BleInv, ReadInv, ReadState
    <3> QED
      BY <3>1, ContinuesIsPrefix
  <2> QED
    BY <2>1 DEF BleInv, ReadInv, ReadState
<1> QED
  BY BleInit, BleStep, <1>1, PTL DEF Spec

(* server_cert_write and downlink_write hold the beginning of one certificate and
   of one pouch, whatever uploads were cut off before. *)
THEOREM WritesStayPrefixes == Spec => []WritesArePrefixes
<1>1. BleInv => WritesArePrefixes
  BY DEF BleInv, WriteInv
<1> QED
  BY BleInit, BleStep, <1>1, PTL DEF Spec

(* The key of cert_server_key_get and the serial number the gateway is told are
   those of one certificate that cert_server_set accepted. *)
THEOREM KeyAndSerialAreOnePair == Spec => []KeyMatchesSerial
<1>1. BleInv => KeyMatchesSerial
  BY DEF BleInv
<1> QED
  BY BleInit, BleStep, <1>1, PTL DEF Spec
================================================================================
