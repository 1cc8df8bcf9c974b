------------------------------ MODULE ExampleNode ------------------------------
(***************************************************************************)
(* The example application on top of the uplink: a gateway connects and    *)
(* reads the uplink characteristic (Bluetooth's receive thread); the start *)
(* and the end of a session reach the application as events, through a     *)
(* queue of bounded depth and the Pouch work queue (pouch.c); the handler  *)
(* of SESSION_START writes a reading and the status entries and closes the *)
(* pouch, without which the session cannot end; the water sensor reports   *)
(* from the system work queue as well.                                     *)
(*                                                                         *)
(* The uplink itself is UplinkService, which PouchUplink implements: every *)
(* step here that calls it is one of its actions.  The receive thread and  *)
(* the system work queue are cooperative, the Pouch work queue is not.     *)
(***************************************************************************)
EXTENDS Integers, Sequences

CONSTANTS
    EventDepth,    \* CONFIG_POUCH_EVENT_QUEUE_DEPTH
    BlockEntries,  \* entries that a block has room for in any case
    MaxSessions,   \* bound: sessions
    MaxReadings,   \* bound: periodic readings of the sensor
    MaxCuts        \* bound: connections lost in the middle of a session

ASSUME NodeAssumption ==
    /\ {EventDepth, BlockEntries} \subseteq Nat \ {0}
    /\ {MaxSessions, MaxReadings, MaxCuts} \subseteq Nat

VARIABLES
    session, closing, number, pending, delivered,    \* the uplink
    entry_block,     \* entry.c: entries in the block that is being filled
    mut,             \* entry.c: whether the Pouch work queue holds the mutex
    event_q,         \* pouch.c: events not yet dispatched
    event_work,      \* event_work is pending
    hpc, event,      \* dispatch_events: where it is, the last event it took
    pouch_session_active, sensed,  \* water_sensor.c; the reading its handler has taken
    rpc, packetizer,               \* uplink_read: where it is; the packetizer is there
    conn,                          \* "idle", "advertising" or "connected"
    disconnect_work, sync_request_work,   \* scheduled
    sync_requested,                \* service_data.data.flags
    main_pc,                       \* main: "boot", "sensors" or "loop"
    readings, cuts                 \* counters

uplink == <<session, closing, number, pending, delivered>>
entry  == <<entry_block, mut>>
events == <<event_q, event_work>>
app    == <<hpc, event, pouch_session_active, sensed>>
reader == <<rpc, packetizer>>
link   == <<conn, disconnect_work>>
sync   == <<sync_request_work, sync_requested>>
vars   == <<uplink, entry, events, app, reader, link, sync, main_pc, readings, cuts>>

Uplink == INSTANCE UplinkService WITH Cooperative <- TRUE, MayFail <- FALSE, MayAbort <- FALSE

Init ==
    /\ Uplink!Init
    /\ entry_block = <<>> /\ mut = FALSE
    /\ event_q = <<>> /\ event_work = FALSE
    /\ hpc = "idle" /\ event = [type |-> "END", id |-> -1]
    /\ pouch_session_active = FALSE /\ sensed = 0
    /\ rpc = "idle" /\ packetizer = FALSE
    /\ conn = "idle" /\ disconnect_work = FALSE
    /\ sync_request_work = FALSE /\ sync_requested = FALSE
    /\ main_pc = "boot"
    /\ readings = 0 /\ cuts = 0

(* Mutant: a place of the queue is never used. *)
emit_one_short(e) ==
    /\ event_q' = IF Len(event_q) + 1 < EventDepth THEN Append(event_q, e) ELSE event_q
    /\ event_work' = TRUE

(* pouch_event_emit: the event is dropped if the queue is full. *)
pouch_event_emit(e) ==
    /\ event_q' = IF Len(event_q) < EventDepth THEN Append(event_q, e) ELSE event_q
    /\ event_work' = TRUE

(***************************************************************************)
(* main.c: advertising, connections, the request to synchronise            *)
(***************************************************************************)

(* main: advertise, then initialise the sensors and schedule the first request;
   a gateway may be quicker than that. *)
bt_le_adv_start ==
    /\ main_pc = "boot"
    /\ main_pc' = "sensors"
    /\ conn' = "advertising"
    /\ UNCHANGED <<uplink, entry, events, app, reader, disconnect_work, sync, readings, cuts>>

main_loop ==
    /\ main_pc = "sensors"
    /\ main_pc' = "loop"
    /\ sync_request_work' = TRUE
    /\ UNCHANGED <<uplink, entry, events, app, reader, link, sync_requested, readings, cuts>>

connected ==
    /\ conn = "advertising"
    /\ conn' = "connected"
    /\ UNCHANGED <<uplink, entry, events, app, reader, disconnect_work, sync, main_pc, readings, cuts>>

(* The connection ends, after a session or in the middle of one. *)
disconnected ==
    /\ conn = "connected" /\ rpc = "idle"
    /\ \/ ~packetizer /\ UNCHANGED cuts
       \/ packetizer /\ cuts < MaxCuts /\ cuts' = cuts + 1
    /\ conn' = "idle"
    /\ disconnect_work' = TRUE
    /\ UNCHANGED <<uplink, entry, events, app, reader, sync, main_pc, readings>>

disconnect_work_handler ==
    /\ disconnect_work
    /\ disconnect_work' = FALSE
    /\ conn' = "advertising"
    /\ UNCHANGED <<uplink, entry, events, app, reader, sync, main_pc, readings, cuts>>

sync_request_work_handler ==
    /\ sync_request_work
    /\ sync_request_work' = FALSE
    /\ sync_requested' = TRUE
    /\ UNCHANGED <<uplink, entry, events, app, reader, link, main_pc, readings, cuts>>

(***************************************************************************)
(* uplink_characteristic.c, in the receive thread                          *)
(***************************************************************************)

(* A read without a packetizer: pouch_uplink_start, which waits for the crypto
   library. *)
uplink_read_start ==
    /\ conn = "connected" /\ rpc = "idle" /\ ~packetizer
    /\ number < MaxSessions
    /\ Uplink!Start
    /\ rpc' = "start"
    /\ UNCHANGED <<entry, events, app, packetizer, link, sync, main_pc, readings, cuts>>

uplink_read_started ==
    /\ rpc = "start"
    /\ Uplink!Opened
    /\ pouch_event_emit([type |-> "START", id |-> number])
    /\ packetizer' = TRUE
    /\ rpc' = "fill"
    /\ UNCHANGED <<entry, app, link, sync, main_pc, readings, cuts>>

(* A read in the middle of a session *)
uplink_read_next ==
    /\ conn = "connected" /\ rpc = "idle" /\ packetizer
    /\ rpc' = "fill"
    /\ UNCHANGED <<uplink, entry, events, app, packetizer, link, sync, main_pc, readings, cuts>>

(* uplink_fill_cb: the rest of a block goes out; *)
fill_block ==
    /\ rpc = "fill"
    /\ Uplink!Deliver
    /\ UNCHANGED <<entry, events, app, reader, link, sync, main_pc, readings, cuts>>

(* there is more to come, perhaps nothing yet (EMPTY_PAYLOAD); *)
fill_more ==
    /\ rpc = "fill"
    /\ rpc' = "idle"
    /\ UNCHANGED <<uplink, entry, events, app, packetizer, link, sync, main_pc, readings, cuts>>

(* Mutant: a session whose queue is empty ends, although nobody has closed it. *)
fill_end_unasked ==
    /\ rpc = "fill" /\ session = "open" /\ pending = <<>>
    /\ session' = "ending"
    /\ pouch_event_emit([type |-> "END", id |-> number])
    /\ rpc' = "finish"
    /\ UNCHANGED <<closing, number, pending, delivered, entry, app, packetizer, link, sync,
                   main_pc, readings, cuts>>

(* or there is no more: end_session, then pouch_uplink_finish. *)
fill_end ==
    /\ rpc = "fill"
    /\ Uplink!Drained
    /\ pouch_event_emit([type |-> "END", id |-> number])
    /\ rpc' = "finish"
    /\ UNCHANGED <<entry, app, packetizer, link, sync, main_pc, readings, cuts>>

(* Mutant: POUCH_CLOSING outlives the session. *)
finish_keeps_closing ==
    /\ rpc = "finish" /\ session = "ending"
    /\ session' = "none"
    /\ number' = number + 1
    /\ packetizer' = FALSE
    /\ rpc' = "idle"
    /\ UNCHANGED <<closing, pending, delivered, entry, events, app, link, sync, main_pc,
                   readings, cuts>>

fill_finish ==
    /\ rpc = "finish"
    /\ Uplink!Finished
    /\ packetizer' = FALSE
    /\ rpc' = "idle"
    /\ UNCHANGED <<entry, events, app, link, sync, main_pc, readings, cuts>>

(* process_blocks gets at a block while the session has no key yet. *)
process_blocks_early ==
    /\ Uplink!Lose
    /\ UNCHANGED <<entry, events, app, reader, link, sync, main_pc, readings, cuts>>

(***************************************************************************)
(* The water sensor and the event handler                                  *)
(***************************************************************************)

(* An entry is a reading of the sensor, by the event handler or by the periodic
   report, or the status of a service. *)
Reading(by, n) == [by |-> by, n |-> n]
Status         == [by |-> "status", n |-> 0]

(* Mutant: a full block is submitted, and goes on being filled. *)
entry_write_keeps(e) ==
    \/ entry_block' = Append(entry_block, e) /\ UNCHANGED uplink
    \/ /\ Len(entry_block) >= BlockEntries
       /\ Uplink!Submit(entry_block)
       /\ entry_block' = Append(entry_block, e)

(* pouch_uplink_entry_write, in the mutex: the entry goes to the end of the block;
   or the block is full, is submitted, and the entry goes to a new one. *)
pouch_uplink_entry_write(e) ==
    \/ entry_block' = Append(entry_block, e) /\ UNCHANGED uplink
    \/ /\ Len(entry_block) >= BlockEntries
       /\ Uplink!Submit(entry_block)
       /\ entry_block' = <<e>>

(* water_report_work_handler, in the system work queue: a reading is given up if
   the mutex is taken. *)
water_report_work_handler ==
    /\ main_pc = "loop" /\ readings < MaxReadings
    /\ readings' = readings + 1
    /\ IF pouch_session_active /\ ~mut
         THEN pouch_uplink_entry_write(Reading("report", readings + 1))
         ELSE UNCHANGED <<uplink, entry_block>>
    /\ UNCHANGED <<mut, events, app, reader, link, sync, main_pc, cuts>>

Handler(from, to) == hpc = from /\ hpc' = to

(* Mutant: the event is cleared before there is one. *)
dispatch_clears ==
    /\ event_work /\ Handler("idle", "get")
    /\ event_work' = FALSE
    /\ event' = [type |-> "NONE", id |-> 0]
    /\ UNCHANGED <<uplink, entry, event_q, pouch_session_active, sensed, reader, link, sync,
                   main_pc, readings, cuts>>

(* dispatch_events *)
dispatch_start ==
    /\ event_work /\ Handler("idle", "get")
    /\ event_work' = FALSE
    /\ UNCHANGED <<uplink, entry, event_q, event, pouch_session_active, sensed, reader, link, sync,
                   main_pc, readings, cuts>>

dispatch_get ==
    /\ event_q # <<>> /\ Handler("get", Head(event_q).type)
    /\ event' = Head(event_q)
    /\ event_q' = Tail(event_q)
    /\ UNCHANGED <<uplink, entry, event_work, pouch_session_active, sensed, reader, link, sync,
                   main_pc, readings, cuts>>

dispatch_done ==
    /\ event_q = <<>> /\ Handler("get", "idle")
    /\ UNCHANGED <<uplink, entry, events, event, pouch_session_active, sensed, reader, link, sync,
                   main_pc, readings, cuts>>

(* SESSION_START: water_sensor_pouch_session_start sets the flag, *)
session_start ==
    /\ Handler("START", "sense")
    /\ pouch_session_active' = TRUE
    /\ UNCHANGED <<uplink, entry, events, event, sensed, reader, link, sync, main_pc, readings, cuts>>

(* reads the sensor, *)
water_report_sense ==
    /\ Handler("sense", "lock")
    /\ readings' = readings + 1
    /\ sensed' = readings + 1
    /\ UNCHANGED <<uplink, entry, events, event, pouch_session_active, reader, link, sync,
                   main_pc, cuts>>

(* and writes what it read in an entry, under the mutex, without waiting for it:
   nobody else keeps it. *)
water_report_lock ==
    /\ ~mut /\ Handler("lock", "write")
    /\ mut' = TRUE
    /\ UNCHANGED <<uplink, entry_block, events, event, pouch_session_active, sensed, reader,
                   link, sync, main_pc, readings, cuts>>

water_report_write ==
    /\ Handler("write", "ota")
    /\ pouch_uplink_entry_write(Reading("handler", sensed))
    /\ mut' = FALSE
    /\ UNCHANGED <<events, event, pouch_session_active, sensed, reader, link, sync,
                   main_pc, readings, cuts>>

(* golioth_sync_to_cloud: each service writes its status in an entry as well, *)
services_lock ==
    /\ ~mut
    /\ Handler("ota", "ota_write") \/ Handler("settings", "settings_write")
    /\ mut' = TRUE
    /\ UNCHANGED <<uplink, entry_block, events, event, pouch_session_active, sensed, reader,
                   link, sync, main_pc, readings, cuts>>

services_write ==
    /\ Handler("ota_write", "settings") \/ Handler("settings_write", "close")
    /\ pouch_uplink_entry_write(Status)
    /\ mut' = FALSE
    /\ UNCHANGED <<events, event, pouch_session_active, sensed, reader, link, sync, main_pc,
                   readings, cuts>>

(* then pouch_uplink_close says that the pouch is closing, if it is not already, *)
pouch_uplink_close ==
    /\ \/ ~closing /\ Handler("close", "submit") /\ Uplink!Close
       \/ closing /\ Handler("close", "get") /\ UNCHANGED uplink
    /\ UNCHANGED <<entry, events, event, pouch_session_active, sensed, reader, link, sync, main_pc,
                   readings, cuts>>

(* Mutant: the block is submitted and kept. *)
close_keeps_block ==
    /\ Handler("submit", "get")
    /\ Uplink!Submit(entry_block)
    /\ UNCHANGED <<entry, events, event, pouch_session_active, sensed, reader, link, sync,
                   main_pc, readings, cuts>>

(* and then takes the mutex and submits the block; entry_block_close. *)
entry_block_close ==
    /\ Handler("submit", "get")
    /\ Uplink!Submit(entry_block)
    /\ entry_block' = <<>>
    /\ UNCHANGED <<mut, events, event, pouch_session_active, sensed, reader, link, sync, main_pc,
                   readings, cuts>>

(* Mutant: the next request is not scheduled. *)
session_end_forgets ==
    /\ Handler("END", "get")
    /\ pouch_session_active' = FALSE
    /\ sync_requested' = FALSE
    /\ UNCHANGED <<uplink, entry, events, event, sensed, reader, link, sync_request_work,
                   main_pc, readings, cuts>>

(* SESSION_END: the sensor stops reporting and the next request is scheduled. *)
session_end ==
    /\ Handler("END", "get")
    /\ pouch_session_active' = FALSE
    /\ sync_requested' = FALSE
    /\ sync_request_work' = TRUE
    /\ UNCHANGED <<uplink, entry, events, event, sensed, reader, link, main_pc, readings, cuts>>

(***************************************************************************)
(* Specification                                                           *)
(***************************************************************************)
uplink_read ==
    \/ uplink_read_start \/ uplink_read_started \/ uplink_read_next
    \/ fill_block \/ fill_more \/ fill_end \/ fill_finish

dispatch_events ==
    \/ dispatch_start \/ dispatch_get \/ dispatch_done
    \/ session_start \/ water_report_sense \/ water_report_lock \/ water_report_write
    \/ services_lock \/ services_write \/ pouch_uplink_close \/ entry_block_close
    \/ session_end

Next ==
    \/ bt_le_adv_start \/ main_loop \/ connected \/ disconnected
    \/ disconnect_work_handler \/ sync_request_work_handler
    \/ uplink_read \/ dispatch_events
    \/ process_blocks_early \/ water_report_work_handler

(* Work that is scheduled or submitted is run; a gateway comes to a node that
   advertises and reads on; a session that is closing is drained, which
   PouchUplink!CloseEndsSession shows of the uplink. *)
Fairness ==
    /\ WF_vars(bt_le_adv_start \/ main_loop)
    /\ WF_vars(connected)
    /\ WF_vars(disconnect_work_handler)
    /\ WF_vars(sync_request_work_handler)
    /\ WF_vars(uplink_read)
    /\ WF_vars(dispatch_events)
    /\ SF_vars(fill_end)

Spec == Init /\ [][Next]_vars /\ Fairness

(***************************************************************************)
(* Properties                                                              *)
(***************************************************************************)

(* START and END of a session *)
Events == [type : {"START", "END"}, id : -1..MaxSessions]

(* Where the handler of SESSION_START is before it has called pouch_uplink_close *)
StartLabels == {"START", "sense", "lock", "write", "ota", "ota_write", "settings",
                "settings_write", "close"}

(* The state of the application has the shape its declarations give it. *)
TypeOK ==
    /\ Len(event_q) <= EventDepth /\ event_q \in Seq(Events) /\ event \in Events
    /\ hpc \in {"idle", "get", "submit", "END"} \union StartLabels
    /\ rpc \in {"idle", "start", "fill", "finish"}
    /\ conn \in {"idle", "advertising", "connected"}
    /\ {event_work, mut, pouch_session_active, packetizer, disconnect_work,
        sync_request_work, sync_requested} \subseteq BOOLEAN
    /\ main_pc \in {"boot", "sensors", "loop"}
    /\ cuts \in 0..MaxCuts

(* The event that has to come after e *)
After(e) == IF e.type = "START" THEN [type |-> "END", id |-> e.id]
            ELSE [type |-> "START", id |-> e.id + 1]

(* Although pouch_event_emit does not wait for room in the queue, no event is lost:
   the application sees START and END of every session, in order, and what it has
   seen or is about to see is what the uplink is doing. *)
EventsMatchSession ==
    LET all == <<event>> \o event_q
    IN  /\ \A i \in 1..(Len(all) - 1) : all[i + 1] = After(all[i])
        /\ (all[Len(all)].type = "START") = (session = "open")

(* The handler of SESSION_START may be late, but not so late that it closes another
   session's pouch: until it has called pouch_uplink_close, the session it was told
   of is open, and nobody has closed it. *)
CloseInOwnSession ==
    hpc \in StartLabels => session = "open" /\ event.id = number /\ ~closing

(* A pouch is closing only after the START event of its own session was handled:
   no close is left over from the session before, which would end the next pouch
   with nothing in it. *)
NoStaleClose ==
    closing => \/ session = "ending"
               \/ session = "open" /\ event = [type |-> "START", id |-> number]

(* The blocks that were sent, wait to be sent or are being filled, in that order *)
Line == [i \in DOMAIN delivered |-> delivered[i].blk] \o pending \o <<entry_block>>

(* What may be sent before what: an older reading before a newer one.  But the event
   handler reads the sensor before it takes the mutex, so that a periodic report may
   come in between and its newer reading, even in a block before, overtake. *)
Earlier(a, b) ==
    "status" \notin {a.by, b.by} =>
        a.n < b.n \/ (a.by = "report" /\ b.by = "handler" /\ a.n # b.n)

(* Readings are sent in the order they were taken and none is sent twice, although
   full blocks are submitted by whoever finds them full, blocks are left to the next
   session or lost, and both the event handler and the periodic report write.  Only
   a reading of the event handler is overtaken, and only by periodic reports. *)
ReadingsInOrder ==
    \A i, j \in DOMAIN Line : i <= j =>
        \A k \in DOMAIN Line[i], l \in DOMAIN Line[j] :
            (i < j \/ k < l) => Earlier(Line[i][k], Line[j][l])

(* Every session ends: nobody waits for an event that was dropped, for a reading of a
   gateway that went away in the middle, or for the mutex. *)
SessionsEnd == (session = "open") ~> (session = "none")

(* The flag that asks a gateway to come is raised again after every session. *)
SyncRequestedAgain == ~sync_requested ~> sync_requested
================================================================================
