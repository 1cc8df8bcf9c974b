# Pouch node: TLA+ models, checks and proofs

Pouch is a non-IP protocol between devices and the cloud. This repository is the
device's side (a Zephyr module) with a Bluetooth GATT transport, Golioth's services on top
and an example application. This directory models it from the GATT characteristics up to the
application, checks the models with TLC and proves their safety properties with TLAPS.

## 1. Inventory

| Component | State | Operations | Interaction |
|---|---|---|---|
| `src/uplink.c` | session flags, header, session id, processing queue and work item, transport queue and reader | `process_blocks`, `pouch_uplink_close`, `start`, `fill`, `finish` | application threads enqueue, the system work queue encrypts, the transport pulls |
| `src/entry.c` | the open entry block and its mutex | `pouch_uplink_entry_write`, `entry_block_close`, `pouch_downlink_block_push` | enqueues blocks to the uplink; hands downlink blocks to handlers |
| `src/stream.c` | stream ID counter, count of open streams, the streams | open, write, close, valid | a stream belongs to one session id |
| `src/block.c`, `src/buf.c` | number of buffers, slist queues, buffer views | alloc, free, finish, trim, queue | used everywhere |
| `src/saead/*`, `src/crypto_saead.c` | an uplink and a downlink session (flags, key, pouch and block index), the server's last numbers | session start and end, pouch start, encrypt, decrypt | the end of the uplink ends both |
| `src/header.c` | none | create | header of the session |
| `src/pouch.c` | event queue and its work item | emit, dispatch | Pouch work queue calls the application |
| `src/downlink.c` | assembly buffer, header flag, decrypt and consume queues and work items | start, push, finish, `decrypt_blocks`, `consume_blocks` | transport pushes, system work queue decrypts, Pouch work queue delivers |
| `src/crypto_none.c` | none | | the variant without encryption |
| `src/cert.c` | device certificate, server key and serial number | set, get | written through a characteristic; the key goes into sessions, the serial number to the gateway |
| `src/transport/ble_gatt/*`, `lib/pouch_ble_gatt_common` | a packetizer per characteristic that is read, the upload buffer of the server certificate | GATT reads and writes | drive `start`, `fill`, `push`, `finish` and `cert_server_set`; know nothing of connections |
| `golioth_sdk/dispatch.c` | last service seen, a stream ID per service | start and data of the downlink, `golioth_sync_to_cloud` | entries and streams to services |
| `golioth_sdk/ota.c`, `ota_upper.c` | download (ID, version, offset); target and state of each component | manifest, component, report | the application decides to download and writes to flash |
| `golioth_sdk/settings*.c`, `lib/zcbor_utils` | settings version | settings, report | call the application's handlers |
| `examples/ble_gatt` | advertising, delayed work, session flag of the sensor, flash context | event handler, work handlers, `main` | writes and closes the uplink on SESSION_START, asks for the next session on SESSION_END |

What is hard in it: three kinds of threads share queues and flags without locks; flags
are tested and acted on later; a work item that is submitted while it is pending runs once;
a session can be finished by the transport at any time; every allocation can fail; packets
cut headers and blocks anywhere. `PROJECT.json` lists these places as hazards, each with
the properties aimed at it. What makes each part correct:

* uplink: a pouch is one header and then consecutive blocks of one key; blocks keep the
  order in which they were written and stay framed; buffers have one owner; nothing of one
  session gets into the next; the end of data is announced exactly when all was pulled.
* downlink: bytes keep their order through buffer and queues; no block is delivered out of
  turn; the assembly buffer neither overflows nor gets stuck; no run on an empty queue;
  queued blocks are delivered.
* characteristics and certificates: a gateway reads values that are whole, whatever an
  earlier one left behind; key and serial number are those of one accepted certificate.
* services: data reaches the service its path names; only whole images are installed; what is
  reported to the cloud is what was applied; the node catches up.
* application: it sees every session begin and end, closes the one it was told of, sends its
  readings once and in the order it took them (as far as its two threads let it), and asks for
  the next session.

## 2. Modules

`PouchUplink` models `uplink.c`, `entry.c`'s writer, `stream.c`, the uplink session of
`saead/` and the event queue in one module, because the interesting orders of steps run
across them. Variables carry the names of the C state (`flags`, `header`, `processing`,
`transport`, `reader`, `block`, `mut`, `stream_id`, `bufs`, ...); `pc`, `wpc`, `tpc` say
where an application thread, `process_blocks` and the transport are. A step is one atomic
or queue operation or kernel call. A function with several such operations is several
actions that follow each other (`finish_flush`, `finish_id`, `finish_clear`,
`finish_end`), so other actors can come in between wherever the scheduling allows. So is a
condition that reads several places: `process_blocks` reads the session flag, the pouch flag and
the queue in `process_loop`, `process_loop_open` and `process_loop_queue`, and looks at CLOSING
and sets CLOSED in `process_exit` and `process_close`. Taking a block off the queue and
encrypting it is one step, since nobody else takes blocks or looks at that queue's head.
Payloads are item numbers; whether an item fits in a block is a free choice. A buffer is
a value; moving it between variables moves ownership, and `bufs` is `buf.c`'s counter.

`PouchDownlink` models `downlink.c` and the downlink session. Bytes are units labelled with
the pouch, part and place they come from, so that what arrives can be compared with what
was sent. A block decrypts if it is whole and key, pouch ID and index are the ones it was
encrypted with; the chained tag is covered by the index, as the index only advances with
the block before. The session of a device can never be named by the server, because
`saead_uplink_session_start` always picks a random ID and only sequential ones are reusable.

`UplinkService` is what the uplink promises, in five variables: a line of blocks, sessions
that deliver from its front, a close that a session needs to end. Its constant `Cooperative`
distinguishes two services: without it, a block may also be lost while there is no session, and a
session may end without a close (see Scheduling). `PouchUplink` instantiates it
with a refinement mapping (`ServiceSession` from the place the transport is in, the line from
everything in block, queues and reader) and `ImplementsService` says that every behaviour of the
one is a behaviour of the other.

`ExampleNode` is the composition of the example application, the event queue, the uplink
characteristic and the uplink. The uplink in it is `UplinkService`: every step that calls it is
one of that module's actions. The handler of SESSION_START is one action per call that another
thread could come in between (flag, sensor, mutex, write, mutex and write of each service's
status, close, submit). Readings are numbered; an entry block is the sequence of entries in it,
readings of the handler, of the periodic report, or a status. A write finds the block full or
not, a free choice as soon as it has `BlockEntries` entries; a full one is submitted, by
whichever thread found it, and the entry goes to a new block. Events carry the number of their
session, which the program's do not, so that the application's view can be compared with the
uplink's. `golioth_ota_set_status` and the services' own state are in `GoliothSdk`.

`Packetizer` has the packets as operators. `BleGatt` models the info, serial, device and
server certificate and downlink characteristics with `cert.c`. Handlers run in one thread to
their end, so each is one action; a gateway (external) sends and reads packets of any size,
and disconnects anywhere. Values are sequences of units that name what they belong to. A
certificate has a kind: accepted, not parsable, not trusted, a serial number that is too long,
or a key that is no EC key.

`GoliothSdk` models what happens to delivered blocks: `entry.c`'s parser, `dispatch.c`, OTA
with the example's `fw_update.c`, settings with the CBOR helper. All of it runs on the Pouch
work queue, a block at a time, so a block is one action. The cloud (external) sends what the
last report calls for: a manifest if the version is not the desired one, a component if it is
DOWNLOADING, settings if their version is another. Pouches arrive as `PouchDownlink`'s `NoGaps`
has it: in order, and perhaps not to the end (`Cut`). `flash_context` says whether
`flash_img_init` has been called since boot: it is called at offset 0 only, and a write without
it fails. `PowerLoss` and the reboot empty the RAM, `flash_context` with it, and keep the flash. `Boot` gives the values the declarations give.

`MCPouchUplink`, `MCPouchDownlink`, `MCBleGatt`, `MCGoliothSdk` give TLC its instances
(`ExampleNode` needs none). The theorems are in `PouchUplinkProofs`, `PouchUplinkService` and
`PouchUplinkOrder` (each extends the one before), `PouchDownlinkProofs`, `BleGattProofs`,
`GoliothSdkProofs` and `ExampleNodeProofs`; `SequenceFacts` has the lemmas about numbers and
sequences that they share.

### Scheduling

By default Zephyr's system work queue and Bluetooth's receive thread are cooperative: they
run until they block, which the transport does between its calls and while a key agreement
waits for the crypto driver. The Pouch work queue and the application are preemptible and
may be interrupted anywhere. `Cooperative = TRUE` is this scheduling; `FALSE` lets all
actors of the uplink interleave at every step, as on a transport with a preemptible thread.
That costs the uplink two of its promises. A run of `process_blocks` that was submitted late may
read SESSION_ACTIVE just before the transport ends and finishes the session, then find the
cleared flags of an open pouch, take a block that was left over and free it, as there is no crypto
session (`uplink.c:70`). And if the transport finishes between the check of CLOSING and the
setting of CLOSED (`uplink.c:87`), CLOSED is left for the next session, which ends at once.
`MayAbort => Cooperative` is assumed, since `pouch_uplink_finish` empties its queue in one
step of the model: in the middle of an open pouch `process_blocks` could append to the list
meanwhile. `PouchDownlink` is modelled on the cooperative scheduling only.
A single queue operation is one step; that an unlocked list survives two preempting
producers is not shown here (hazard at `buf.c:113`).

## 3. Runs

| Run | Kind | What it shows |
|---|---|---|
| `uplink_safety` | pass | cooperative scheduling, 2 threads (symmetric), 2 items, 1 stream, 2 sessions, buffers of 2 units, failures and aborts, about 1.8 million states: `TypeOK`, `PouchWellFormed`, `InOrderOnce`, `StreamFraming`, `BuffersOwnedOnce`, `NothingLeftOver`, `DrainedAtEnd`, and the refinement `ImplementsService` |
| `uplink_preempt` | pass | full interleaving, 2 threads (symmetric), 2 entries, 2 sessions, no failures, about 870,000 states: `InOrderOnce`, `BuffersOwnedOnce`, `NothingInFlight`, and `ImplementsService` for the service of preempting threads |
| `uplink_live` | pass | full interleaving, no failures, 1 session, about 500,000 states: the liveness properties `CloseEndsSession`, `NoLostWakeup` |
| `uplink_start_loses` | violation of `NothingLost` | a block written before the session is freed unsent if `process_blocks` runs during the start |
| `uplink_stream_split` | violation of `StreamInOnePouch` | a stream's block goes out in the session after its own |
| `downlink_resent` | pass | 6 pouches: one sent twice, an oversized block, a changed algorithm, a session of the device; packets of 1 to 4 units, buffer of 3, failures, aborts, uplink ending, about 1 million states: `TypeOK`, `BytesInOrder`, `NoGaps`, `SpaceLeft`, `NullNeverDecrypted`, `OneBufferPerPouch`, and `BlocksReachHandlers` |
| `downlink_all_delivered` | violation of `AllDelivered` | the last blocks of a pouch stay in the buffer |
| `ble_gatt` | pass | 2 certificates that are accepted and 4 that are not, packets of 1 or 2 units, 2 faults (lost connections, no memory), 1 change of the cloud's certificate, about 190,000 states: `TypeOK`, `NoTornValue`, `WritesArePrefixes`, `KeyMatchesSerial`, and `Provisioned` |
| `golioth_sdk` | pass | 2 firmware versions of 2 units, 2 settings versions, 2 faults (cuts, power losses, flash errors, marks by the application), about 120,000 states: `TypeOK`, `WholeImage`, `RoutedByPath`, `SettingsApplied`, and `CaughtUp` |
| `example_node` | pass | event queue of 2, blocks of 2 entries or more, 2 sessions, 2 periodic readings, 1 cut, about 370,000 states: `TypeOK`, `EventsMatchSession`, `CloseInOwnSession`, `NoStaleClose`, `ReadingsInOrder`, and `SessionsEnd`, `SyncRequestedAgain` |
| `sdk_routed` | violation of `RoutedByPath` | the stream ID of a component that was cut off is used for an unknown path, whose data is written to flash |
| `sdk_image` | violation of `WholeImage` | components of 3 units: the first is written, the application marks the component idle and the second is dropped, a manifest marks it for download again, the third is appended to the first and the upgrade requested |

In the uplink and downlink runs deadlock is not checked: application and transport may stop
calling, and the bounds end every behaviour. What the liveness properties check instead is that
nothing queued is stuck. The other runs check for deadlock.

Bounds. Two threads are what a race for the mutex, or between a stream and a close, needs;
two items are what order needs, an entry and a piece of a stream or two of one kind; two
sessions are what anything left over needs, such as the flags that a late `process_blocks`
leaves behind. The events that the uplink emits are put in a queue without
waiting, and no step of the uplink looks at that queue, so `uplink_safety` and `uplink_preempt`
give it no room (every event is dropped at once), which keeps its contents from multiplying the
states; `uplink_live` has one with room, and what the application makes of the events is
`ExampleNode`'s subject. A downlink
buffer of 3 units with blocks of 1 to 3 and packets of 1 to 4 has every relation between block
end, packet end and buffer end. In the model a new block of a stream always has space, which
needs `CONFIG_POUCH_BLOCK_SIZE` above the longest path (255 bytes and 3); the default is 512.
In `ble_gatt` every value takes one, two or three packets, so that a connection can break before,
in the middle of and after each, twice; one change of certificate while a value is half read is
what tears it. In `golioth_sdk` a component of two blocks has a first that is not the last; two
faults are a cut and what spoils the recovery from it. `sdk_image` has three blocks: one that
initialises the flash, one that is dropped and one that comes after. In `example_node` the
application can lag two events behind, which takes two sessions; a queue of two events is the
smallest that suffices (one is not enough: START of the next session is dropped while END of the
last one waits). A session writes a reading and two status entries, so that blocks of two entries
are pushed out by every writer, in the middle of a session and by what the last one left; two
periodic readings are enough to fill a block between the handler's reading of the pin and its
write, so that the older reading goes out in the later block.

Restrictions of `golioth_sdk` that name what the code relies on: the cloud does not use the ID of
a stream that was cut off before the node restarts (`ReuseIds = FALSE`; `sdk_routed` shows why),
and sends no manifest between the blocks of a component (`Interleaved = FALSE`; `sdk_image` shows
why). It sends settings in an entry and not in a stream of several blocks (`Fragments = FALSE`):
`settings_downlink` decodes every block as a map of its own, and `SettingsApplied` does not hold
otherwise. A settings message has its version before the settings.

Fairness. `uplink_live` assumes strong fairness of the work queue and of a thread inside
a call (they get the CPU again and again, as the transport waits for the gateway between
calls; a mutex is handed to a waiter) and weak fairness of a transport that has started a
session: the gateway keeps reading until it is told the end. Nothing makes the application
call. `downlink_resent` assumes weak fairness of the work queues and of a push that has begun.
`ble_gatt` assumes a gateway that comes back, reads the info characteristic and finishes the
upload it began, if its connection lasts; faults are finitely many. `example_node` assumes
weak fairness of `main`, of the work queues (delayed work falls due), of a gateway that comes to
a node that advertises and of its reads, and strong fairness of the end of the data: that a
session which is closed is drained is what `CloseEndsSession` shows of the uplink, and in
`UplinkService` the step may be disabled in between by the end of a read. `golioth_sdk`
assumes that sessions go on (strong fairness of the report, which a reboot interrupts), that the
cloud answers a report that goes on calling for something (strong fairness of manifest, settings
and the opening of a component) and finishes a component it began, and weak fairness of the
reboot. Nothing makes the cloud release anything.

Each property of a passing run has a mutant in `PROJECT.json`: a variant of one
action, defined right before it, that makes TLC find that property violated.

## 4. Theorems

Every invariant that a passing run checks is also proved, for all values of the constants, and so
is the refinement `ImplementsService`, in both of its forms. Two kinds of assumptions are used. The named `ASSUME`s say
what the constants are (numbers, Booleans, sets that do not overlap); TLC evaluates them in every
run. Among them, `NoBufAssumption`, `NoValueAssumption`, `NilAssumption` and `StreamsAssumption`
say that the model value for a NULL pointer, or for nothing, is none of the values it is compared
with. Assumptions on how the system is used are hypotheses of the theorems that need them, and are
named below: `Cooperative`, `EventDepth >= 2`, `~ReuseIds`, `~Fragments`, `~Interleaved`.

Each proof finds an invariant that is inductive and implies the property; it shows that the
initial states have it and that every action keeps it, one lemma or one step per action.

`PouchUplinkProofs`:

* `TypeCorrect`: `[]TypeOK`. Types alone are not inductive: `TypeInv` adds that a
  thread inside a stream call has its stream and something left to write, and that
  `process_blocks` holds a block exactly between encrypting and queueing it.
* `PouchesWellFormed`, `NothingIsLeftOver`, `SessionsDrained`, assuming `Cooperative`:
  `[]PouchWellFormed`, `[]NothingLeftOver`, `[]DrainedAtEnd`. `SafeInv` is inductive with
  `TypeInv`. Its heart is `Chain`: within a session, the buffers pulled, the one being read and
  those queued are one run of header, block 0, block 1, ... of the session's key, whose
  length is fixed by the session's block index and by where `process_blocks` is.
  `SessionState` and `Exclusive` say in which states of the transport `process_blocks` can be
  active, which is what fails on preempting threads; `Outside` says that the queue, reader and
  header are empty outside of a session.

`PouchUplinkService` (on any scheduling):

* `BuffersAreOwnedOnce`: `[]BuffersOwnedOnce`. `OwnInv`: the counter of `buf.c` is the
  number of buffers in the entry block, the streams, the two queues, the reader, the header and
  the work handler (`Balance`). A block that is being handed over is in the queue while the
  pointer to it is not yet cleared, so `MutexState` (a thread in the critical section owns the
  mutex) is needed to count it once; `HeaderState` says when the header is the session's to free.
* `UplinkImplementsService`: `Spec => ImplementsService`. Every action is a step of
  `UplinkService` or leaves its five variables unchanged. The service has the same `Cooperative`
  as the uplink, so this is the strict service, the one `ExampleNode` uses, for cooperative
  threads, and for preempting ones the service that may also lose a block between two sessions or
  end a session unasked; that nothing is lost in an open session unless something fails, and that
  order, delivery from the front and the forgetting of a close hold, is shown for both. `LineInv`
  relates the flags and the key to the place the transport is in: on cooperative threads
  `process_blocks` is in its loop only in the session it found active (`LoopState`), and CLOSED is
  set only on top of CLOSING (`ClosedState`). What the line of blocks is after a step is computed by
  the lemmas on `FlattenSeq` of `SequenceFacts`: what an encrypted buffer carries is what the
  block carried, moving a buffer to the next queue leaves the line as it is, and a buffer that is
  freed is one block less in it.
* `NothingIsInFlight`: `[]NothingInFlight`, from `LineInv`: CLOSED, once seen by
  `pouch_uplink_fill`, keeps `process_blocks` from taking a block until the flags are cleared.

`PouchUplinkOrder` (on any scheduling):

* `ItemsStayInOrder`, `StreamsStayFramed`: `[]InOrderOnce`, `[]StreamFraming`. Losing
  blocks keeps a line in order, so most actions fall under `Shrinks`. `OrderInv` is
  about those that write: whatever a thread still has in its hands (the rest of an entry, the
  block of a stream, an item that has been numbered but not stored) is newer than all of that source
  in the line, stream IDs in use are different, and a stream whose last block is in the line is gone.

`PouchDownlinkProofs` (so for any pouches, sizes and packet cuts):

* `DownlinkTypeCorrect`: `[]TypeOK`, which includes that the assembly buffer does not
  overflow and that the buffer count never goes below zero. The invariant `Counted`
  (no fewer buffers allocated than are owned) makes the latter inductive.
* `NullIsNeverDecrypted`: `[]NullNeverDecrypted`, from `WorkState`: the work is
  pending only with a block in its queue, and never while it runs.
* `BlocksAreFreedOnce`: `[]OneBufferPerPouch`, from `Counted` as well, which also bounds the
  buffers from above: those outside of queues and handlers are at most one per pouch.
* `PacketsFindSpace`: `[]SpaceLeft`, from `Room`: wherever a packet can begin or a
  round of the loop can end, the buffer is not full.
* `DeliveryHasNoGaps`: `[]NoGaps`, whatever is discarded. `GapInv` has the blocks that were
  decrypted as one line over two queues and two handlers in which each follows the one before
  in its pouch or is a first, and the session's pouch and block index are those that follow the last.
* `BytesStayInOrder`: `[]BytesInOrder`. As long as nothing is discarded, the bytes of that line,
  of the blocks before decryption and of the assembly buffer and packet are together
  what was sent up to the pouch that is being pushed (`OrderInv`).

`BleGattProofs`:

* `BleTypeCorrect`, `ValuesAreNotTorn`, `WritesStayPrefixes`, `KeyAndSerialAreOnePair`:
  `[]TypeOK`, `[]NoTornValue`, `[]WritesArePrefixes`, `[]KeyMatchesSerial`, from `BleInv`. The node
  does not see a connection end, so packetizers and the upload buffer outlive it. `ReadState` and
  `WriteState` say that whoever has got part of a value and goes on talks to a packetizer that
  holds exactly the rest (`Continues`), and that a new gateway starts with FIRST.

`GoliothSdkProofs`:

* `SdkTypeCorrect`: `[]TypeOK`, from `SdkTypes`, which also types the cloud's reports and streams.
* `DataIsRouted`: `[]RoutedByPath`, assuming `~ReuseIds`. `RouteInv`: no service knows the ID of a
  stream before its first block and only the service of its path knows it after; all other IDs
  that services remember are of streams that were cut off.
* `SettingsAreApplied`: `[]SettingsApplied`, assuming `~Fragments`. `SettingsInv`: what is in streams is
  not settings, so it holds with misrouted data as well.
* `ImagesAreWhole`: `[]WholeImage`, assuming `~ReuseIds` and `~Interleaved`. `ImageInv`: if `n` units of
  a component have been sent, the download's offset is `n` and, while the node is DOWNLOADING, the
  flash holds the first `n` units of that version and `flash_context` is initialised, unless
  `flash_img_init` or a write failed (`ComponentAt`).

The last three assumptions are not conveniences: `sdk_routed` and `sdk_image` show the
violation without them, and section 3 says what happens without `~Fragments`.

`ExampleNodeProofs`:

* `NodeTypeCorrect`, `ReadingsStayInOrder`: `[]TypeOK`, `[]ReadingsInOrder`, for any
  `EventDepth` and `BlockEntries`. The event handler reads the pin before it takes the mutex, so
  that periodic reports can overtake its reading, and if they fill the block it even goes out in
  a later one. `ReadingsInOrder` says that this is all that can happen: any two readings of
  periodic reports, any two of the handler, and a handler's before a report's, are in the
  order in which they were taken, and no reading is there twice. `ReadingsInv`: the blocks
  submitted and the one being filled are in this order (`Ordered`), and the reading the handler has
  taken may follow all of them (`Fits`). `EntryWritten` shows that a write keeps this, whether the
  block was full or not; a block lost anywhere in the line does too.
* `NoEventIsLost`, `HandlersInOwnSession`, `ClosesAreFresh`, assuming `EventDepth >= 2` (the
  default of `CONFIG_POUCH_EVENT_QUEUE_DEPTH` is 4): `[]EventsMatchSession`,
  `[]CloseInOwnSession`, `[]NoStaleClose`. The queue is bounded and puts do not wait, so the
  argument is about the protocol between application and uplink: a session cannot end before
  it is closed, it is closed only by the handler of its START, so END(n) is emitted only when the
  application has taken START(n), and at most END(n) and START(n + 1) can wait. `Phase` lists
  these states, `InHandler` says in which of them the handler of START may be, and the two
  are inductive together.

`SequenceFacts`: what `FlattenSeq` computes for a sequence of any length (what appending, taking the
head and removing an element do to it), and the order of elements. Induction is
stated with a set in place of a predicate (`NatInSet`) and rests on the least element of a set of
natural numbers.

Only model-checked: liveness, which this prover cannot do (nor `ENABLED`). These are
`CloseEndsSession`, `NoLostWakeup`, `BlocksReachHandlers`, `Provisioned`, `CaughtUp`, `SessionsEnd` and
`SyncRequestedAgain`.

## 5. Not modelled, and not promised

* Byte layouts, CBOR and X.509 (zcbor, mbedTLS); the PSA library except for its success or
  failure; sizes in bytes. A certificate whose public key cannot be written out
  (`extract_pubkey` after its first check).
* `crypto_none.c`: no state. `credentials.c`: files and a key import at boot. The rest of
  `main`'s initialisation and the LED.
* What is undefined in the code: a packetizer that could not be allocated is used
  (`uplink_characteristic.c:66` and its siblings), as is the NULL pouch of a start that failed; a
  component's path without anything after its prefix. The capacity of the upload buffer of the
  server certificate, which `server_cert_write` does not check. In `ExampleNode` a start succeeds.
* The unlocked lists of `buf.c` when two preempting threads use one: a queue operation is a step.
* The block index is unbounded in the model and 16 bits wide in the nonce. Stream IDs: with
  `BLOCK_ID_MASK` 0x1f and `POUCH_STREAMS_MAX` 126, the 33rd stream has the ID of the first,
  which `new_stream_id` does not prevent; the model has the counter, and no run opens so many.
* `process_blocks` closes the pouch when it finds CLOSING set before `pouch_uplink_close` has
  handed over the last entry block, which then waits for another session. The model does this;
  `ReadingsInOrder` and `InOrderOnce` hold nevertheless, and `CloseEndsSession` shows that the
  session still ends. No property says that the block goes out in its own session.
* A component path without a version, which `ota_receive_component_start` refuses by
  remembering no download (`ota.c:206`): the cloud's component paths are `name@version`.
* That `pouch_downlink_start` overwrites the pointer to the buffer of the last pouch, which
  `pouch_downlink_finish` does not free, is in the model: a buffer leaks with every pouch.
  `OneBufferPerPouch` says that no more than that does.
* More than one registered OTA component; hashes and sizes of components, which the code stores
  and never compares.
* Advertising that fails to start, which the code does not try again.

## 6. Plan

1. An abstract downlink (a line of blocks that may end anywhere) that `PouchDownlink` refines and
   `GoliothSdk` is built on, as `ExampleNode` is on `UplinkService`; the refinement proved from
   `GapInv`.
2. Which of `PouchesWellFormed`, `NothingIsLeftOver` and `SessionsDrained` hold in part without
   `Cooperative`, and under which weaker condition on the transport's thread.
3. Action properties for what the invariants leave out: a settings version or an installed image
   that goes back, a session whose key is used again.
