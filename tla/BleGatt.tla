------------------------------- MODULE BleGatt -------------------------------
(***************************************************************************)
(* The Golioth GATT service of a node and the certificate store behind it. *)
(* A gateway connects, reads the info, serial and device certificate       *)
(* characteristics packet by packet, uploads a server certificate when the *)
(* node's is not the cloud's, and writes downlink pouches.  Handlers run in *)
(* Bluetooth's receive thread, so each is one step, but nothing in the node *)
(* notices that a connection is gone: packetizers and the upload buffer    *)
(* stay as they are, and the next gateway meets them.                      *)
(***************************************************************************)
EXTENDS Integers, Sequences, Packetizer

LOCAL INSTANCE SequencesExt

CONSTANTS
    ServerCerts,     \* the server certificates the cloud may have
    Kind,            \* for each: "good", "unparsable", "untrusted", "longserial" or "rsa"
    NoCert,          \* no server certificate has been stored
    NoValue,         \* NULL, or nothing at the gateway
    Pouches,         \* the downlink pouches
    SerialUnits, CertUnits, DeviceUnits, PouchUnits,   \* lengths, in units
    MaxPayload,      \* bound: units in a packet
    MaxFaults,       \* bound: lost connections and failed allocations
    MaxRotations     \* bound: changes of the cloud's certificate

ASSUME BleAssumption ==
    /\ Kind \in [ServerCerts -> {"good", "unparsable", "untrusted", "longserial", "rsa"}]
    /\ NoCert \notin ServerCerts
    /\ {SerialUnits, CertUnits, DeviceUnits, PouchUnits, MaxPayload} \subseteq Nat \ {0}
    /\ MaxFaults \in Nat /\ MaxRotations \in Nat

Characteristics == {"info", "serial", "device"}

VARIABLES
    server_cert,   \* cert.c: [key, serial], the certificate each of them came from
    packetizer,    \* per characteristic that is read
    upload,        \* server_cert_chrc_ctx.cert: bytes uploaded so far, or NULL
    pushed,        \* bytes given to pouch_downlink_push since pouch_downlink_start
    conn,          \* "down", "up", or "closing": bt_conn_disconnect was called
    cloud,         \* the certificate the cloud wants the node to have
    rx,            \* the gateway: what it has of each value since its FIRST packet
    got,           \* values it has read whole on this connection, with what it should have read
    sending,       \* the upload and the downlink it is writing
    faults, rotations

vars == <<server_cert, packetizer, upload, pushed, conn, cloud, rx, got, sending,
          faults, rotations>>

(* n units of the thing called name *)
Bytes(name, n) == [i \in 1..n |-> <<name, i>>]
Certificate(c) == Bytes(c, CertUnits)
Serial(c)      == IF c = NoCert THEN <<>> ELSE Bytes(c, SerialUnits)

(* The units of everything that is sent, and packetizers over them *)
Units       == (ServerCerts \union Pouches \union {"device", "flags"}) \X Nat
Packetizers == [left : Seq(Units), is_first : BOOLEAN]

ASSUME NoValueAssumption == NoValue \notin Packetizers \union Seq(Units)

(* pouch_server_certificate_serial_get, build_info_data and
   pouch_device_certificate_get.  The device certificate is set before the node
   advertises and does not change. *)
Value(c) ==
    CASE c = "serial" -> Serial(server_cert.serial)
      [] c = "info"   -> <<<<"flags", 1>>>> \o Serial(server_cert.serial)
      [] c = "device" -> Bytes("device", DeviceUnits)

(* The gateway has nothing of a value. *)
Nothing == [data |-> NoValue, want |-> NoValue]

Init ==
    /\ server_cert = [key |-> NoCert, serial |-> NoCert]
    /\ packetizer = [c \in Characteristics |-> NoValue]
    /\ upload = NoValue /\ pushed = <<>>
    /\ conn = "down" /\ cloud \in ServerCerts
    /\ rx = [c \in Characteristics |-> Nothing]
    /\ got = [c \in Characteristics |-> NoValue]
    /\ sending = [cert |-> NoValue, pouch |-> NoValue]
    /\ faults = 0 /\ rotations = 0

(***************************************************************************)
(* Connections                                                             *)
(***************************************************************************)
connected ==
    /\ conn = "down"
    /\ conn' = "up"
    /\ UNCHANGED <<server_cert, packetizer, upload, pushed, cloud, rx, got, sending,
                   faults, rotations>>

(* The gateway forgets; the node does not. *)
disconnected ==
    /\ \/ conn = "closing" /\ UNCHANGED faults
       \/ conn = "up" /\ faults < MaxFaults /\ faults' = faults + 1
    /\ conn' = "down"
    /\ rx' = [c \in Characteristics |-> Nothing]
    /\ got' = [c \in Characteristics |-> NoValue]
    /\ sending' = [cert |-> NoValue, pouch |-> NoValue]
    /\ UNCHANGED <<server_cert, packetizer, upload, pushed, cloud, rotations>>

Rotate ==
    /\ rotations < MaxRotations
    /\ rotations' = rotations + 1
    /\ cloud' \in ServerCerts \ {cloud}
    /\ UNCHANGED <<server_cert, packetizer, upload, pushed, conn, rx, got, sending, faults>>

(***************************************************************************)
(* Reads                                                                   *)
(***************************************************************************)

(* Mutant: the rest of the value is taken from the value as it is now. *)
OpenedLive(c) ==
    IF packetizer[c] = NoValue THEN NewPacketizer(Value(c))
    ELSE [packetizer[c] EXCEPT
              !.left = SubSeq(Value(c), Len(Value(c)) - Len(@) + 1, Len(Value(c)))]

(* The packetizer a read goes on with, or a new one over the current value *)
Opened(c) == IF packetizer[c] = NoValue THEN NewPacketizer(Value(c)) ELSE packetizer[c]

(* Mutant: the packetizer is not freed after its last packet. *)
read_without_finish(c, room) ==
    LET r    == Get(Opened(c), room)
        want == IF r.packet.first THEN Value(c) ELSE rx[c].want
        data == Decode(rx[c].data, r.packet, NoValue)
    IN  /\ conn # "down" /\ got[c] = NoValue
        /\ packetizer' = [packetizer EXCEPT ![c] = r.next]
        /\ rx' = [rx EXCEPT ![c] = IF r.packet.last THEN Nothing
                                   ELSE [data |-> data, want |-> want]]
        /\ got' = [got EXCEPT ![c] = IF r.packet.last /\ data # NoValue
                                     THEN [data |-> data, want |-> want] ELSE NoValue]
        /\ UNCHANGED <<server_cert, upload, pushed, conn, cloud, sending, faults, rotations>>

(* info_read, server_cert_serial_read and device_cert_read, and what the gateway
   makes of the answer: it takes note of the value the node has when it reads a
   FIRST packet. *)
read(c, room) ==
    LET r    == Get(Opened(c), room)
        want == IF r.packet.first THEN Value(c) ELSE rx[c].want
        data == Decode(rx[c].data, r.packet, NoValue)
    IN  /\ conn # "down" /\ got[c] = NoValue
        /\ packetizer' = [packetizer EXCEPT ![c] = IF r.packet.last THEN NoValue ELSE r.next]
        /\ IF r.packet.last
           THEN /\ rx' = [rx EXCEPT ![c] = Nothing]
                /\ got' = [got EXCEPT ![c] = IF data = NoValue THEN NoValue
                                             ELSE [data |-> data, want |-> want]]
           ELSE /\ rx' = [rx EXCEPT ![c] = [data |-> data, want |-> want]]
                /\ UNCHANGED got
        /\ UNCHANGED <<server_cert, upload, pushed, conn, cloud, sending, faults, rotations>>

info_read(room) == read("info", room)
server_cert_serial_read(room) == read("serial", room)
device_cert_read(room) == read("device", room)

(***************************************************************************)
(* The server certificate is written.                                      *)
(***************************************************************************)

(* Mutants: the serial number is not copied; it is not even allocated. *)
store_key_only(c) == [server_cert EXCEPT !.key = c]

store_no_serial(c) == [key |-> c, serial |-> NoValue]

(* extract_pubkey and the copy of the serial number: both, or none of them *)
store_cert(c) == [key |-> c, serial |-> c]

(* cert_server_set and its error code.  A serial number that is too long is
   not an error of its own: nothing is stored and 0 is returned. *)
cert_server_set(bytes) ==
    IF \E c \in ServerCerts : bytes = Certificate(c) /\ Kind[c] # "unparsable"
    THEN LET c == CHOOSE c \in ServerCerts : bytes = Certificate(c)
         IN  CASE Kind[c] = "untrusted"  -> [err |-> "EPERM", cert |-> server_cert]
               [] Kind[c] = "longserial" -> [err |-> "0", cert |-> server_cert]
               [] Kind[c] = "rsa"        -> [err |-> "EIO", cert |-> server_cert]
               [] Kind[c] = "good"       -> [err |-> "0", cert |-> store_cert(c)]
    ELSE [err |-> "EIO", cert |-> server_cert]

(* The gateway has read a serial number that is not the cloud's. *)
WantsUpload ==
    /\ conn = "up" /\ sending.cert = NoValue
    /\ \/ got["serial"] # NoValue /\ got["serial"].data # Serial(cloud)
       \/ got["info"] # NoValue /\ Tail(got["info"].data) # Serial(cloud)

begin_upload ==
    /\ WantsUpload
    /\ sending' = [sending EXCEPT !.cert = NewPacketizer(Certificate(cloud))]
    /\ UNCHANGED <<server_cert, packetizer, upload, pushed, conn, cloud, rx, got, faults, rotations>>

(* Mutant: FIRST goes on with the buffer of an upload that was cut off. *)
uploaded_on_top(pkt) ==
    IF upload = NoValue THEN Decode(upload, pkt, NoValue) ELSE upload \o pkt.data

(* What the upload buffer is after a packet: FIRST allocates a new one. *)
uploaded(pkt) == Decode(upload, pkt, NoValue)

(* server_cert_write.  Once the upload is over, the gateway reads again. *)
server_cert_write(room) ==
    LET r   == Get(sending.cert, room)
        set == cert_server_set(uploaded(r.packet))
    IN  /\ conn # "down" /\ sending.cert # NoValue
        /\ IF r.packet.last
           THEN /\ server_cert' = set.cert
                /\ conn' = IF set.err # "0" THEN "closing" ELSE conn
                /\ upload' = NoValue
                /\ sending' = [sending EXCEPT !.cert = NoValue]
                /\ got' = [c \in Characteristics |-> NoValue]
           ELSE /\ upload' = uploaded(r.packet)
                /\ sending' = [sending EXCEPT !.cert = r.next]
                /\ UNCHANGED <<server_cert, conn, got>>
        /\ UNCHANGED <<packetizer, pushed, cloud, rx, faults, rotations>>

(* malloc fails on a FIRST packet; the gateway is told and gives up. *)
server_cert_write_no_memory ==
    /\ conn # "down" /\ sending.cert # NoValue /\ sending.cert.is_first
    /\ faults < MaxFaults
    /\ faults' = faults + 1
    /\ upload' = NoValue
    /\ sending' = [sending EXCEPT !.cert = NoValue]
    /\ UNCHANGED <<server_cert, packetizer, pushed, conn, cloud, rx, got, rotations>>

(***************************************************************************)
(* A pouch is written.                                                     *)
(***************************************************************************)
begin_pouch(p) ==
    /\ conn = "up" /\ sending.pouch = NoValue
    /\ sending' = [sending EXCEPT !.pouch = NewPacketizer(Bytes(p, PouchUnits))]
    /\ UNCHANGED <<server_cert, packetizer, upload, pushed, conn, cloud, rx, got, faults, rotations>>

(* downlink_write: pouch_downlink_start on FIRST, pouch_downlink_push always;
   pouch_downlink_finish does nothing. *)
downlink_write(room) ==
    LET r == Get(sending.pouch, room)
    IN  /\ conn # "down" /\ sending.pouch # NoValue
        /\ pushed' = (IF r.packet.first THEN <<>> ELSE pushed) \o r.packet.data
        /\ sending' = [sending EXCEPT !.pouch = IF r.packet.last THEN NoValue ELSE r.next]
        /\ UNCHANGED <<server_cert, packetizer, upload, conn, cloud, rx, got, faults, rotations>>

(***************************************************************************)
(* Specification                                                           *)
(***************************************************************************)
Next ==
    \/ connected \/ disconnected \/ Rotate
    \/ \E room \in 1..MaxPayload :
           info_read(room) \/ server_cert_serial_read(room) \/ device_cert_read(room)
    \/ begin_upload
    \/ \E room \in 1..MaxPayload : server_cert_write(room)
    \/ server_cert_write_no_memory
    \/ \E p \in Pouches : begin_pouch(p)
    \/ \E room \in 1..MaxPayload : downlink_write(room)

(* A gateway that keeps coming back, reads the info characteristic and finishes
   the upload it began.  It need not read or write anything else. *)
Fairness ==
    /\ WF_vars(connected)
    /\ WF_vars(conn = "closing" /\ disconnected)
    /\ WF_vars(\E room \in 1..MaxPayload : info_read(room))
    /\ WF_vars(begin_upload)
    /\ WF_vars(\E room \in 1..MaxPayload : server_cert_write(room))

Spec == Init /\ [][Next]_vars /\ Fairness

(***************************************************************************)
(* Properties                                                              *)
(***************************************************************************)
IsPart(bytes, whole) == bytes = NoValue \/ IsPrefix(bytes, whole)

(* The state of the node has the shape the handlers of the characteristics and
   cert.c give it. *)
TypeOK ==
    /\ server_cert \in [key : ServerCerts \cup {NoCert}, serial : ServerCerts \cup {NoCert}]
    /\ DOMAIN packetizer = Characteristics
    /\ \A c \in Characteristics :
           packetizer[c] # NoValue => packetizer[c].is_first \in BOOLEAN
    /\ conn \in {"down", "up", "closing"} /\ cloud \in ServerCerts
    /\ faults \in 0..MaxFaults /\ rotations \in 0..MaxRotations

(* A value that a gateway puts together from the packets of one connection
   (info_read, server_cert_serial_read, device_cert_read), FIRST to LAST, is the
   value the node had when it read FIRST: neither the rest of a value that an
   earlier gateway left half read, nor a mixture of two certificates' serials. *)
NoTornValue ==
    \A c \in Characteristics :
        /\ rx[c].data # NoValue => IsPrefix(rx[c].data, rx[c].want)
        /\ got[c] # NoValue => got[c].data = got[c].want

(* server_cert_write only ever appends to the beginning of the same certificate,
   whatever was left in the buffer by an upload that was cut off, so that it
   stays within CONFIG_POUCH_SERVER_CERT_MAX_LEN without a check; likewise
   downlink_write hands pouch_downlink_push the beginning of a single pouch. *)
WritesArePrefixes ==
    /\ \E c \in ServerCerts : IsPart(upload, Certificate(c))
    /\ pushed = <<>> \/ \E p \in Pouches : IsPrefix(pushed, Bytes(p, PouchUnits))

(* Sessions are keyed with cert_server_key_get while the gateway is told
   pouch_server_certificate_serial_get: both are always those of one
   certificate, one that cert_server_set found acceptable. *)
KeyMatchesSerial ==
    /\ server_cert.key = server_cert.serial
    /\ server_cert.key # NoCert => Kind[server_cert.key] = "good"

(* The node ends up with the cloud's certificate: an upload that is cut off, or
   refused for want of memory, or preceded by a certificate the node rejects,
   and a packetizer left over by an earlier connection, only delay it. *)
Provisioned ==
    <>[](Kind[cloud] = "good" => server_cert = [key |-> cloud, serial |-> cloud])
================================================================================
