--------------------------- MODULE ExampleNodeProofs ---------------------------
(***************************************************************************)
(* The example application stays in step with the sessions of the uplink,  *)
(* for any number of sessions, readings and lost connections, if the event *)
(* queue has room for two events.  (CONFIG_POUCH_EVENT_QUEUE_DEPTH is 4 by *)
(* default.)                                                               *)
(*                                                                         *)
(* EventsMatchSession is not inductive: it has to be known how far the     *)
(* application may lag behind (Phase: by two events at most, as a session  *)
(* ends only after the handler of its START event has closed it), and that *)
(* the handler of a START event runs within its own session (InHandler).   *)
(***************************************************************************)
EXTENDS ExampleNode, SequenceFacts

START(n) == [type |-> "START", id |-> n]
END(n)   == [type |-> "END", id |-> n]

(* The last event the application took and those that wait for it *)
Seen(e, q) == event = e /\ event_q = q

Between ==
    /\ session \in {"none", "starting"} /\ ~closing
    /\ \/ Seen(END(number - 1), <<>>)
       \/ Seen(START(number - 1), <<END(number - 1)>>)

Open ==
    /\ session = "open"
    /\ \/ Seen(START(number), <<>>)
       \/ ~closing /\ Seen(END(number - 1), <<START(number)>>)
       \/ ~closing /\ Seen(START(number - 1), <<END(number - 1), START(number)>>)

Ending ==
    /\ session = "ending" /\ closing
    /\ \/ Seen(START(number), <<END(number)>>)
       \/ Seen(END(number), <<>>)

Phase == Between \/ Open \/ Ending

InHandler == hpc \in StartLabels => session = "open" /\ event = START(number) /\ ~closing

IInv ==
    /\ number \in Nat /\ closing \in BOOLEAN
    /\ Phase
    /\ InHandler

(* The steps that touch neither the session nor the events *)
Quiet == UNCHANGED <<session, closing, number, event_q, hpc, event>>

LEMMA QuietStep ==
    ASSUME IInv, Quiet PROVE IInv'
BY DEF IInv, Quiet, Phase, Between, Open, Ending, Seen, START, END, InHandler, StartLabels

(* Initially no session was started and no event was emitted. *)
LEMMA InitIInv == Init => IInv
<1> SUFFICES ASSUME Init PROVE IInv
  OBVIOUS
<1>1. number = 0 /\ number - 1 = -1
  BY DEF Init, Uplink!Init
<1>2. Seen(END(number - 1), <<>>)
  BY <1>1 DEF Init, Seen, END
<1>3. session = "none" /\ closing = FALSE /\ hpc = "idle"
  BY DEF Init, Uplink!Init
<1>4. Between
  BY <1>2, <1>3 DEF Between
<1>5. InHandler
  BY <1>3 DEF InHandler, StartLabels
<1>6. QED
  BY <1>1, <1>3, <1>4, <1>5 DEF IInv, Phase

(* pouch_event_emit with room in the queue *)
LEMMA Emitted ==
    ASSUME NEW e, EventDepth >= 2, pouch_event_emit(e)
    PROVE  /\ event_q = <<>> => event_q' = <<e>>
           /\ \A x : event_q = <<x>> => event_q' = <<x, e>>
<1>1. CASE event_q = <<>>
  <2>1. Len(event_q) < EventDepth
    BY <1>1, NodeAssumption
  <2>2. QED
    BY <1>1, <2>1 DEF pouch_event_emit
<1>2. ASSUME NEW x, event_q = <<x>> PROVE event_q' = <<x, e>>
  <2>1. Len(event_q) < EventDepth
    BY <1>2, NodeAssumption
  <2>2. event_q' = Append(<<x>>, e)
    BY <1>2, <2>1 DEF pouch_event_emit
  <2>3. /\ Append(<<x>>, e) \in Seq({x, e})
        /\ Len(Append(<<x>>, e)) = 2
        /\ Append(<<x>>, e)[1] = x /\ Append(<<x>>, e)[2] = e
    OBVIOUS
  <2>4. /\ <<x, e>> \in Seq({x, e}) /\ Len(<<x, e>>) = 2
        /\ <<x, e>>[1] = x /\ <<x, e>>[2] = e
    OBVIOUS
  <2>5. \A i \in 1..2 : Append(<<x>>, e)[i] = <<x, e>>[i]
    BY <2>3, <2>4
  <2>6. QED
    BY <2>2, <2>3, <2>4, <2>5, SeqEqual
<1>3. QED
  BY <1>1, <1>2

(* What dispatch_get takes out of the queue *)
LEMMA Taken ==
    ASSUME event_q # <<>>, event' = Head(event_q), event_q' = Tail(event_q)
    PROVE  /\ \A x : event_q = <<x>> => event' = x /\ event_q' = <<>>
           /\ \A x, y : event_q = <<x, y>> => event' = x /\ event_q' = <<y>>
<1>1. ASSUME NEW x, event_q = <<x>> PROVE event' = x /\ event_q' = <<>>
  BY <1>1
<1>2. ASSUME NEW x, NEW y, event_q = <<x, y>> PROVE event' = x /\ event_q' = <<y>>
  BY <1>2
<1>3. QED
  BY <1>1, <1>2

(* pouch_uplink_start: the session opens and SESSION_START is emitted. *)
LEMMA StartedStep ==
    ASSUME EventDepth >= 2, IInv, uplink_read_started PROVE IInv'
<1>1. /\ session = "starting" /\ session' = "open"
      /\ UNCHANGED <<closing, number, hpc, event>>
      /\ pouch_event_emit(START(number))
  BY DEF uplink_read_started, Uplink!Opened, app, START
<1>2. Between
  BY <1>1 DEF IInv, Phase, Open, Ending
<1>3. Open'
  <2>1. CASE Seen(END(number - 1), <<>>)
    BY <1>1, <1>2, <2>1, Emitted DEF Between, Open, Seen, START, END
  <2>2. CASE Seen(START(number - 1), <<END(number - 1)>>)
    BY <1>1, <1>2, <2>2, Emitted DEF Between, Open, Seen, START, END
  <2>3. QED
    BY <1>2, <2>1, <2>2 DEF Between
<1>4. InHandler'
  BY <1>1 DEF IInv, InHandler, StartLabels
<1>5. QED
  BY <1>1, <1>3, <1>4 DEF IInv, Phase

(* pouch_uplink_fill: the session has been closed, so the application knows of it. *)
LEMMA EndStep ==
    ASSUME EventDepth >= 2, IInv, fill_end PROVE IInv'
<1>1. /\ session = "open" /\ closing /\ session' = "ending"
      /\ UNCHANGED <<closing, number, hpc, event>>
      /\ pouch_event_emit(END(number))
  BY DEF fill_end, Uplink!Drained, app, END
<1>2. Seen(START(number), <<>>)
  BY <1>1 DEF IInv, Phase, Between, Open, Ending
<1>3. Ending'
  BY <1>1, <1>2, Emitted DEF Ending, Seen, START, END
<1>4. hpc \notin StartLabels
  BY <1>1 DEF IInv, InHandler
<1>5. QED
  BY <1>1, <1>3, <1>4 DEF IInv, Phase, InHandler

(* pouch_uplink_finish *)
LEMMA FinishStep ==
    ASSUME IInv, fill_finish PROVE IInv'
<1>1. /\ session = "ending" /\ session' = "none" /\ closing' = FALSE /\ number' = number + 1
      /\ UNCHANGED <<hpc, event, event_q>>
  BY DEF fill_finish, Uplink!Finished, app, events
<1>2. Ending /\ number' - 1 = number /\ number' \in Nat
  BY <1>1 DEF IInv, Phase, Between, Open
<1>3. Between'
  BY <1>1, <1>2 DEF Ending, Between, Seen, START, END
<1>4. hpc \notin StartLabels
  BY <1>1 DEF IInv, InHandler
<1>5. QED
  BY <1>1, <1>2, <1>3, <1>4 DEF IInv, Phase, InHandler

(* uplink_read asks for a session. *)
LEMMA StartStep ==
    ASSUME IInv, uplink_read_start PROVE IInv'
<1>1. /\ session = "none" /\ session' = "starting"
      /\ UNCHANGED <<closing, number, hpc, event, event_q>>
  BY DEF uplink_read_start, Uplink!Start, app, events
<1>2. Between
  BY <1>1 DEF IInv, Phase, Open, Ending
<1>3. Between'
  BY <1>1, <1>2 DEF Between, Seen, START, END
<1>4. hpc \notin StartLabels
  BY <1>1 DEF IInv, InHandler
<1>5. QED
  BY <1>1, <1>3, <1>4 DEF IInv, Phase, InHandler

(* dispatch_events takes the next event. *)
LEMMA GetStep ==
    ASSUME IInv, dispatch_get PROVE IInv'
<1>1. /\ event_q # <<>> /\ hpc = "get" /\ hpc' = Head(event_q).type
      /\ event' = Head(event_q) /\ event_q' = Tail(event_q)
      /\ UNCHANGED <<session, closing, number>>
  BY DEF dispatch_get, Handler, uplink
<1>2. CASE Between
  <2>1. Seen(START(number - 1), <<END(number - 1)>>)
    BY <1>1, <1>2 DEF Between, Seen
  <2>2. event' = END(number - 1) /\ event_q' = <<>>
    BY <1>1, <2>1, Taken DEF Seen
  <2>3. Between' /\ hpc' = "END"
    BY <1>1, <1>2, <2>2 DEF Between, Seen, START, END
  <2>4. QED
    BY <1>1, <2>3 DEF IInv, Phase, InHandler, StartLabels
<1>3. CASE Open
  <2>1. ~closing
    BY <1>1, <1>3 DEF Open, Seen
  <2>2. CASE Seen(END(number - 1), <<START(number)>>)
    <3>1. event' = START(number) /\ event_q' = <<>>
      BY <1>1, <2>2, Taken DEF Seen
    <3>2. QED
      BY <1>1, <1>3, <2>1, <3>1 DEF IInv, Phase, Open, Seen, START, InHandler
  <2>3. CASE Seen(START(number - 1), <<END(number - 1), START(number)>>)
    <3>1. event' = END(number - 1) /\ event_q' = <<START(number)>>
      BY <1>1, <2>3, Taken DEF Seen
    <3>2. hpc' = "END"
      BY <1>1, <3>1 DEF END
    <3>3. QED
      BY <1>1, <1>3, <2>1, <3>1, <3>2
      DEF IInv, Phase, Open, Seen, START, END, InHandler, StartLabels
  <2>4. QED
    BY <1>1, <1>3, <2>2, <2>3 DEF Open, Seen
<1>4. CASE Ending
  <2>1. Seen(START(number), <<END(number)>>)
    BY <1>1, <1>4 DEF Ending, Seen
  <2>2. event' = END(number) /\ event_q' = <<>>
    BY <1>1, <2>1, Taken DEF Seen
  <2>3. Ending' /\ hpc' = "END"
    BY <1>1, <1>4, <2>2 DEF Ending, Seen, START, END
  <2>4. QED
    BY <1>1, <2>3 DEF IInv, Phase, InHandler, StartLabels
<1>5. QED
  BY <1>2, <1>3, <1>4 DEF IInv, Phase

(* The handler of an event goes on, up to and past pouch_uplink_close. *)
LEMMA HandlerStep ==
    ASSUME IInv,
           UNCHANGED <<session, closing, number, event_q, event>>,
           \/ hpc \in StartLabels
           \/ hpc' \notin StartLabels
    PROVE  IInv'
BY DEF IInv, Phase, Between, Open, Ending, Seen, START, END, InHandler, StartLabels

LEMMA CloseStep ==
    ASSUME IInv, pouch_uplink_close PROVE IInv'
<1>1. /\ session = "open" /\ event = START(number) /\ ~closing
      /\ closing' = TRUE /\ hpc' = "submit"
      /\ UNCHANGED <<session, number, event, event_q>>
  BY DEF IInv, InHandler, StartLabels, pouch_uplink_close, Handler, Uplink!Close, uplink, events
<1>2. Seen(START(number), <<>>)
  BY <1>1 DEF IInv, Phase, Between, Open, Ending, Seen, START, END
<1>3. Open'
  BY <1>1, <1>2 DEF Open, Seen, START
<1>4. QED
  BY <1>1, <1>3 DEF IInv, Phase, InHandler, StartLabels

(* Every step of the node preserves the invariant. *)
LEMMA NextIInv ==
    ASSUME EventDepth >= 2, IInv, [Next]_vars PROVE IInv'
<1>1. CASE UNCHANGED vars
  BY <1>1, QuietStep DEF vars, uplink, events, app, Quiet
<1>2. CASE \/ bt_le_adv_start \/ main_loop \/ connected \/ disconnected
           \/ disconnect_work_handler \/ sync_request_work_handler
           \/ uplink_read_next \/ fill_more
  BY <1>2, QuietStep
  DEF bt_le_adv_start, main_loop, connected, disconnected, disconnect_work_handler,
      sync_request_work_handler, uplink_read_next, fill_more, uplink, events, app, Quiet
<1>3. CASE fill_block \/ process_blocks_early \/ water_report_work_handler
  BY <1>3, QuietStep
  DEF fill_block, process_blocks_early, water_report_work_handler, pouch_uplink_entry_write,
      Uplink!Deliver, Uplink!Lose, Uplink!Submit, uplink, events, app, Quiet
<1>4. CASE uplink_read_start
  BY <1>4, StartStep
<1>5. CASE uplink_read_started
  BY <1>5, StartedStep
<1>6. CASE fill_end
  BY <1>6, EndStep
<1>7. CASE fill_finish
  BY <1>7, FinishStep
<1>8. CASE dispatch_get
  BY <1>8, GetStep
<1>9. CASE pouch_uplink_close
  BY <1>9, CloseStep
<1>10. CASE dispatch_start \/ dispatch_done \/ entry_block_close \/ session_end
  <2>1. /\ UNCHANGED <<session, closing, number, event_q, event>>
        /\ hpc' \in {"get", "idle"}
    BY <1>10 DEF dispatch_start, dispatch_done, entry_block_close, session_end, Handler,
                 Uplink!Submit, uplink, events
  <2>2. QED
    BY <2>1, HandlerStep DEF StartLabels
<1>11. CASE \/ session_start \/ water_report_sense \/ water_report_lock
            \/ water_report_write \/ services_lock \/ services_write
  <2>1. /\ UNCHANGED <<session, closing, number, event_q, event>>
        /\ hpc \in StartLabels
    BY <1>11 DEF session_start, water_report_sense, water_report_lock, water_report_write,
                 services_lock, services_write, pouch_uplink_entry_write, Uplink!Submit,
                 Handler, StartLabels, uplink, events
  <2>2. QED
    BY <2>1, HandlerStep
<1>12. QED
  BY <1>1, <1>2, <1>3, <1>4, <1>5, <1>6, <1>7, <1>8, <1>9, <1>10, <1>11
  DEF Next, uplink_read, dispatch_events

LEMMA Inductive ==
    ASSUME EventDepth >= 2 PROVE Spec => []IInv
<1>1. Init => IInv
  BY InitIInv
<1>2. IInv /\ [Next]_vars => IInv'
  BY NextIInv
<1>3. QED
  BY <1>1, <1>2, PTL DEF Spec

(* The handler of SESSION_START (pouch_event_handler in main.c) runs, up to its call
   of pouch_uplink_close, in the session it was told of. *)
THEOREM HandlersInOwnSession ==
    ASSUME EventDepth >= 2 PROVE Spec => []CloseInOwnSession
<1>1. IInv => CloseInOwnSession
  BY DEF IInv, InHandler, StartLabels, START, CloseInOwnSession
<1>2. QED
  BY <1>1, Inductive, PTL

(* POUCH_CLOSING is set only in the session whose SESSION_START was handled. *)
THEOREM ClosesAreFresh ==
    ASSUME EventDepth >= 2 PROVE Spec => []NoStaleClose
<1>1. IInv => NoStaleClose
  BY DEF IInv, Phase, Between, Open, Ending, Seen, START, NoStaleClose
<1>2. QED
  BY <1>1, Inductive, PTL

(* pouch_event_emit never finds the event queue full. *)
THEOREM NoEventIsLost ==
    ASSUME EventDepth >= 2 PROVE Spec => []EventsMatchSession
<1>1. ASSUME NEW e, NEW q, Seen(e, q), q = <<>>,
             (e.type = "START") = (session = "open")
      PROVE  EventsMatchSession
  BY <1>1 DEF Seen, EventsMatchSession
<1>2. ASSUME NEW e, NEW x, Seen(e, <<x>>), x = After(e),
             (x.type = "START") = (session = "open")
      PROVE  EventsMatchSession
  BY <1>2 DEF Seen, EventsMatchSession
<1>3. ASSUME NEW e, NEW x, NEW y, Seen(e, <<x, y>>), x = After(e), y = After(x),
             (y.type = "START") = (session = "open")
      PROVE  EventsMatchSession
  BY <1>3 DEF Seen, EventsMatchSession
<1>4. \A n \in Int : After(START(n)) = END(n) /\ After(END(n - 1)) = START(n)
  BY DEF After, START, END
<1>5. IInv => EventsMatchSession
  <2> SUFFICES ASSUME IInv PROVE EventsMatchSession
    OBVIOUS
  <2>1. number \in Int /\ number - 1 \in Int
    BY DEF IInv
  <2>2. CASE Between
    <3>1. CASE Seen(END(number - 1), <<>>)
      BY <1>1, <2>2, <3>1 DEF Between, END
    <3>2. CASE Seen(START(number - 1), <<END(number - 1)>>)
      BY <1>2, <1>4, <2>1, <2>2, <3>2 DEF Between, END
    <3>3. QED
      BY <2>2, <3>1, <3>2 DEF Between
  <2>3. CASE Open
    <3>1. CASE Seen(START(number), <<>>)
      BY <1>1, <2>3, <3>1 DEF Open, START
    <3>2. CASE Seen(END(number - 1), <<START(number)>>)
      BY <1>2, <1>4, <2>1, <2>3, <3>2 DEF Open, START
    <3>3. CASE Seen(START(number - 1), <<END(number - 1), START(number)>>)
      BY <1>3, <1>4, <2>1, <2>3, <3>3 DEF Open, START
    <3>4. QED
      BY <2>3, <3>1, <3>2, <3>3 DEF Open
  <2>4. CASE Ending
    <3>1. CASE Seen(START(number), <<END(number)>>)
      BY <1>2, <1>4, <2>1, <2>4, <3>1 DEF Ending, END
    <3>2. CASE Seen(END(number), <<>>)
      BY <1>1, <2>4, <3>2 DEF Ending, END
    <3>3. QED
      BY <2>4, <3>1, <3>2 DEF Ending
  <2>5. QED
    BY <2>2, <2>3, <2>4 DEF IInv, Phase
<1>6. QED
  BY <1>5, Inductive, PTL
-----------------------------------------------------------------------------
(* Types, whatever the depth of the event queue: number stays within its bound
   because a session is only started below it. *)
NodeTypes ==
    /\ TypeOK
    /\ session \in {"none", "starting", "open", "ending"}
    /\ number \in 0..MaxSessions
    /\ session # "none" => number < MaxSessions

LEMMA InitTypes == Init => NodeTypes
<1> SUFFICES ASSUME Init PROVE NodeTypes
  OBVIOUS
<1>1. MaxSessions \in Nat /\ MaxCuts \in Nat /\ EventDepth \in Nat
  BY NodeAssumption
<1>2. session = "none" /\ number = 0
  BY DEF Init, Uplink!Init
<1>3. event \in Events /\ event_q \in Seq(Events) /\ Len(event_q) <= EventDepth
  BY <1>1 DEF Init, Events
<1>4. {event_work, mut, pouch_session_active, packetizer, disconnect_work,
       sync_request_work, sync_requested} \subseteq BOOLEAN
  BY Zenon DEF Init
<1>5. /\ hpc = "idle" /\ rpc = "idle" /\ conn = "idle" /\ main_pc = "boot" /\ cuts = 0
  BY DEF Init
<1> QED
  BY <1>1, <1>2, <1>3, <1>4, <1>5 DEF NodeTypes, TypeOK, StartLabels

(* pouch_event_emit keeps the queue within its depth. *)
LEMMA EmitTypes ==
    ASSUME NodeTypes, NEW e \in Events, pouch_event_emit(e)
    PROVE  event_q' \in Seq(Events) /\ Len(event_q') <= EventDepth /\ event_work' = TRUE
<1>1. event_q \in Seq(Events) /\ Len(event_q) <= EventDepth /\ EventDepth \in Nat
  BY NodeAssumption DEF NodeTypes, TypeOK
<1>2. Append(event_q, e) \in Seq(Events) /\ Len(Append(event_q, e)) = Len(event_q) + 1
  BY <1>1, AppendProperties
<1> QED
  BY <1>1, <1>2, LenProperties DEF pouch_event_emit

LEMMA NextTypes == NodeTypes /\ [Next]_vars => NodeTypes'
<1> SUFFICES ASSUME NodeTypes, [Next]_vars PROVE NodeTypes'
  OBVIOUS
<1> USE DEF NodeTypes, TypeOK
<1>0. MaxSessions \in Nat /\ MaxCuts \in Nat /\ EventDepth \in Nat /\ number \in Nat
  BY NodeAssumption
<1>1. CASE UNCHANGED vars
  BY <1>1 DEF vars, uplink, entry, events, app, reader, link, sync
<1>2. CASE \/ bt_le_adv_start \/ main_loop \/ connected
           \/ disconnect_work_handler \/ sync_request_work_handler
           \/ uplink_read_next \/ fill_more
  BY <1>2
  DEF bt_le_adv_start, main_loop, connected, disconnect_work_handler,
      sync_request_work_handler, uplink_read_next, fill_more,
      uplink, entry, events, app, reader, link, sync
<1>3. CASE disconnected
  BY <1>0, <1>3 DEF disconnected, uplink, entry, events, app, reader, sync
<1>4. CASE fill_block \/ process_blocks_early \/ water_report_work_handler
  BY <1>4 DEF fill_block, process_blocks_early, water_report_work_handler,
              pouch_uplink_entry_write, Uplink!Deliver, Uplink!Lose, Uplink!Submit,
              uplink, entry, events, app, reader, link, sync
<1>5. CASE uplink_read_start
  BY <1>0, <1>5 DEF uplink_read_start, Uplink!Start, entry, events, app, link, sync
<1>6. CASE uplink_read_started
  <2>1. [type |-> "START", id |-> number] \in Events
    BY <1>0 DEF Events
  <2>2. event_q' \in Seq(Events) /\ Len(event_q') <= EventDepth /\ event_work' = TRUE
    BY <1>6, <2>1, EmitTypes DEF uplink_read_started
  <2> QED
    BY <1>0, <1>6, <2>2 DEF uplink_read_started, Uplink!Opened, entry, app, link, sync
<1>7. CASE fill_end
  <2>1. [type |-> "END", id |-> number] \in Events
    BY <1>0 DEF Events
  <2>2. event_q' \in Seq(Events) /\ Len(event_q') <= EventDepth /\ event_work' = TRUE
    BY <1>7, <2>1, EmitTypes DEF fill_end
  <2> QED
    BY <1>0, <1>7, <2>2 DEF fill_end, Uplink!Drained, entry, app, link, sync
<1>8. CASE fill_finish
  <2>1. /\ session = "ending" /\ session' = "none" /\ number' = number + 1
        /\ packetizer' = FALSE /\ rpc' = "idle"
        /\ UNCHANGED <<entry, events, app, link, sync, main_pc, readings, cuts>>
    BY <1>8 DEF fill_finish, Uplink!Finished
  <2>2. number' \in 0..MaxSessions
    BY <1>0, <2>1
  <2> QED
    BY <2>1, <2>2 DEF entry, events, app, link, sync
<1>9. CASE dispatch_get
  <2>1. /\ Head(event_q) \in Events /\ Tail(event_q) \in Seq(Events)
        /\ Len(Tail(event_q)) <= EventDepth
    BY <1>0, <1>9, HeadTailProperties, LenProperties DEF dispatch_get
  <2>2. Head(event_q).type \in {"START", "END"}
    BY <2>1 DEF Events
  <2> QED
    BY <1>9, <2>1, <2>2 DEF dispatch_get, Handler, StartLabels, uplink, entry, reader, link, sync
<1>10. CASE \/ dispatch_start \/ dispatch_done \/ session_start \/ water_report_sense
            \/ water_report_lock \/ services_lock \/ session_end
  BY <1>10
  DEF dispatch_start, dispatch_done, session_start, water_report_sense, water_report_lock,
      services_lock, session_end, Handler, StartLabels, uplink, entry, events, reader, link, sync
<1>11. CASE \/ water_report_write \/ services_write \/ pouch_uplink_close
            \/ entry_block_close
  BY <1>11 DEF water_report_write, services_write, pouch_uplink_entry_write, pouch_uplink_close,
               entry_block_close, Uplink!Close, Uplink!Submit, Handler, StartLabels,
               uplink, entry, events, reader, link, sync
<1> QED
  BY <1>1, <1>2, <1>3, <1>4, <1>5, <1>6, <1>7, <1>8, <1>9, <1>10, <1>11
  DEF Next, uplink_read, dispatch_events

(* Every variable of the application keeps its type; in particular pouch_event_emit
   never puts more events in the queue than it has room for. *)
THEOREM NodeTypeCorrect == Spec => []TypeOK
<1>1. NodeTypes => TypeOK
  BY DEF NodeTypes
<1> QED
  BY <1>1, InitTypes, NextTypes, PTL DEF Spec
-----------------------------------------------------------------------------
(* The order of the readings.  ReadingsInOrder is not inductive: it has to be known
   that no reading is newer than the counter, and that the reading the event handler
   has taken and not written yet would still fit at the end of the line. *)

Entries == [by : {"handler", "report", "status"}, n : Nat]

Sent == [i \in DOMAIN delivered |-> delivered[i].blk]

(* The blocks that were submitted, oldest first *)
Front == Sent \o pending

(* The entries of the block B, and of all blocks of F, may be sent before e. *)
Before(B, e) == \A k \in DOMAIN B : Earlier(B[k], e)
AllBefore(F, e) == \A i \in DOMAIN F : Before(F[i], e)

InOrder(B) == \A k, l \in DOMAIN B : k < l => Earlier(B[k], B[l])

(* No reading in the block B is newer than n. *)
UpTo(B, n) == \A k \in DOMAIN B : B[k].n <= n

(* F are the blocks submitted, B is the one being filled, n the last reading. *)
Ordered(F, B, n) ==
    /\ n \in Nat /\ F \in Seq(Seq(Entries)) /\ B \in Seq(Entries)
    /\ \A i, j \in DOMAIN F : i < j => \A l \in DOMAIN F[j] : Before(F[i], F[j][l])
    /\ \A i \in DOMAIN F : InOrder(F[i]) /\ UpTo(F[i], n)
    /\ InOrder(B) /\ UpTo(B, n)
    /\ \A l \in DOMAIN B : AllBefore(F, B[l])

(* An entry that may be written next *)
Fits(F, B, e) == e \in Entries /\ AllBefore(F, e) /\ Before(B, e)

ReadingsInv ==
    /\ delivered \in Seq([id : Int, blk : Seq(Entries)]) /\ pending \in Seq(Seq(Entries))
    /\ Ordered(Front, entry_block, readings)
    /\ hpc \in {"lock", "write"} =>
           /\ sensed \in Nat /\ sensed <= readings
           /\ Fits(Front, entry_block, Reading("handler", sensed))

LEMMA SentType ==
    ASSUME NEW S, NEW T, NEW d \in Seq([id : S, blk : T])
    PROVE  /\ [i \in DOMAIN d |-> d[i].blk] \in Seq(T)
           /\ Len([i \in DOMAIN d |-> d[i].blk]) = Len(d)
<1>1. Len(d) \in Nat /\ DOMAIN d = 1..Len(d) /\ \A i \in 1..Len(d) : d[i] \in [id : S, blk : T]
  BY LenProperties, ElementOfSeq
<1> DEFINE s == [i \in 1..Len(d) |-> d[i].blk]
<1>2. \A i \in 1..Len(d) : d[i].blk \in T
  BY <1>1
<1>3. s \in Seq(T) /\ Len(s) = Len(d)
  BY <1>1, <1>2, IsASeq, LenProperties
<1> QED
  BY <1>1, <1>3

(* What may be sent before what *)
LEMMA NewestLast ==
    ASSUME NEW n \in Nat, NEW x \in Entries, x.n <= n, NEW by \in {"handler", "report"}
    PROVE  Reading(by, n + 1) \in Entries /\ Earlier(x, Reading(by, n + 1))
BY DEF Entries, Reading, Earlier

LEMMA StatusAnywhere ==
    /\ Status \in Entries /\ Status.n = 0
    /\ \A x : Earlier(x, Status) /\ Earlier(Status, x)
BY DEF Status, Entries, Earlier

LEMMA ReportsOvertake ==
    ASSUME NEW n \in Nat, NEW r \in Nat, r <= n
    PROVE  Earlier(Reading("report", n + 1), Reading("handler", r))
BY DEF Reading, Earlier

(* An entry that fits is written in the block. *)
LEMMA Written ==
    ASSUME NEW F, NEW B, NEW n, NEW m \in Nat, NEW e, n <= m,
           Ordered(F, B, n), Fits(F, B, e), e.n <= m
    PROVE  Ordered(F, Append(B, e), m)
<1>1. /\ B \in Seq(Entries) /\ e \in Entries /\ Len(B) \in Nat /\ DOMAIN B = 1..Len(B)
      /\ n \in Nat /\ F \in Seq(Seq(Entries))
  BY LenProperties DEF Ordered, Fits
<1> DEFINE C == Append(B, e)
<1>2. /\ C \in Seq(Entries) /\ Len(C) = Len(B) + 1 /\ DOMAIN C = 1..(Len(B) + 1)
      /\ C[Len(B) + 1] = e /\ \A l \in 1..Len(B) : C[l] = B[l]
  BY <1>1, AppendProperties, LenProperties
<1> HIDE DEF C
<1>3. \A l \in DOMAIN C : l = Len(B) + 1 \/ (l \in DOMAIN B /\ C[l] = B[l])
  BY <1>1, <1>2
<1>4. ASSUME NEW D \in Seq(Entries), UpTo(D, n) PROVE UpTo(D, m)
  <2>1. \A k \in DOMAIN D : D[k] \in Entries
    BY <1>4, ElementOfSeq, LenProperties
  <2>2. \A k \in DOMAIN D : D[k].n \in Nat /\ D[k].n <= n
    BY <1>4, <2>1 DEF UpTo, Entries
  <2> QED
    BY <1>1, <2>2 DEF UpTo
<1>5. InOrder(C)
  <2> SUFFICES ASSUME NEW k \in DOMAIN C, NEW l \in DOMAIN C, k < l PROVE Earlier(C[k], C[l])
    BY DEF InOrder
  <2>1. k \in DOMAIN B /\ C[k] = B[k]
    BY <1>1, <1>2
  <2>2. CASE l = Len(B) + 1
    BY <1>2, <2>1, <2>2 DEF Fits, Before
  <2>3. CASE l \in DOMAIN B /\ C[l] = B[l]
    BY <2>1, <2>3 DEF Ordered, InOrder
  <2> QED
    BY <1>3, <2>2, <2>3
<1>6. UpTo(C, m)
  <2>1. UpTo(B, m)
    BY <1>1, <1>4 DEF Ordered
  <2> QED
    BY <1>2, <1>3, <2>1 DEF UpTo
<1>7. \A l \in DOMAIN C : AllBefore(F, C[l])
  BY <1>2, <1>3 DEF Ordered, Fits
<1>8. \A i \in DOMAIN F : InOrder(F[i]) /\ UpTo(F[i], m)
  <2> SUFFICES ASSUME NEW i \in DOMAIN F PROVE InOrder(F[i]) /\ UpTo(F[i], m)
    OBVIOUS
  <2>1. F[i] \in Seq(Entries)
    BY <1>1, ElementOfSeq, LenProperties
  <2>2. InOrder(F[i]) /\ UpTo(F[i], n)
    BY DEF Ordered
  <2> QED
    BY <1>4, <2>1, <2>2
<1>9. \A i, j \in DOMAIN F : i < j => \A l \in DOMAIN F[j] : Before(F[i], F[j][l])
  BY DEF Ordered
<1> QED
  BY <1>1, <1>2, <1>5, <1>6, <1>7, <1>8, <1>9, Zenon DEF Ordered, C

(* Time goes on. *)
LEMMA Older ==
    ASSUME NEW F, NEW B, NEW n, Ordered(F, B, n)
    PROVE  Ordered(F, B, n + 1)
<1>1. /\ n \in Nat /\ n + 1 \in Nat /\ B \in Seq(Entries) /\ F \in Seq(Seq(Entries))
  BY DEF Ordered
<1>2. ASSUME NEW D \in Seq(Entries), UpTo(D, n) PROVE UpTo(D, n + 1)
  <2>1. \A k \in DOMAIN D : D[k] \in Entries
    BY <1>2, ElementOfSeq, LenProperties
  <2>2. \A k \in DOMAIN D : D[k].n \in Nat /\ D[k].n <= n
    BY <1>2, <2>1 DEF UpTo, Entries
  <2> QED
    BY <1>1, <2>2 DEF UpTo
<1>3. UpTo(B, n + 1)
  BY <1>1, <1>2 DEF Ordered
<1>4. \A i \in DOMAIN F : UpTo(F[i], n + 1)
  <2> SUFFICES ASSUME NEW i \in DOMAIN F PROVE UpTo(F[i], n + 1)
    OBVIOUS
  <2>1. F[i] \in Seq(Entries) /\ UpTo(F[i], n)
    BY <1>1, ElementOfSeq, LenProperties DEF Ordered
  <2> QED
    BY <1>2, <2>1
<1> DEFINE m == n + 1
<1> HIDE DEF m
<1>5. m \in Nat /\ UpTo(B, m) /\ \A i \in DOMAIN F : UpTo(F[i], m)
  BY <1>1, <1>3, <1>4, Zenon DEF m
<1>6. Ordered(F, B, m)
  BY <1>5, Zenon DEF Ordered
<1> QED
  BY <1>6 DEF m

(* The sensor is read: the reading fits. *)
LEMMA Sensed ==
    ASSUME NEW F, NEW B, NEW n, Ordered(F, B, n), NEW by \in {"handler", "report"}
    PROVE  Fits(F, B, Reading(by, n + 1))
<1>1. /\ n \in Nat /\ B \in Seq(Entries) /\ F \in Seq(Seq(Entries))
  BY DEF Ordered
<1>2. ASSUME NEW D \in Seq(Entries), UpTo(D, n) PROVE Before(D, Reading(by, n + 1))
  <2>1. \A k \in DOMAIN D : D[k] \in Entries /\ D[k].n <= n
    BY <1>2, ElementOfSeq, LenProperties DEF UpTo
  <2> QED
    BY <1>1, <2>1, NewestLast DEF Before
<1>3. ASSUME NEW i \in DOMAIN F PROVE Before(F[i], Reading(by, n + 1))
  <2>1. F[i] \in Seq(Entries) /\ UpTo(F[i], n)
    BY <1>1, ElementOfSeq, LenProperties DEF Ordered
  <2> QED
    BY <1>2, <2>1
<1>4. Before(B, Reading(by, n + 1))
  BY <1>1, <1>2 DEF Ordered
<1>5. Reading(by, n + 1) \in Entries
  BY <1>1 DEF Reading, Entries
<1> QED
  BY <1>3, <1>4, <1>5, Zenon DEF Fits, AllBefore

(* A status fits everywhere. *)
LEMMA StatusFits ==
    ASSUME NEW F, NEW B
    PROVE  Fits(F, B, Status)
BY StatusAnywhere, Zenon DEF Fits, AllBefore, Before

(* What fits, fits after an entry that may be sent before it. *)
LEMMA StillFits ==
    ASSUME NEW F, NEW B \in Seq(Entries), NEW e \in Entries, NEW x, Fits(F, B, x), Earlier(e, x)
    PROVE  Fits(F, Append(B, e), x)
<1> DEFINE C == Append(B, e)
<1>1. /\ Len(B) \in Nat /\ DOMAIN B = 1..Len(B) /\ DOMAIN C = 1..(Len(B) + 1)
      /\ C[Len(B) + 1] = e /\ \A l \in 1..Len(B) : C[l] = B[l]
  BY AppendProperties, LenProperties
<1> HIDE DEF C
<1>2. \A l \in DOMAIN C : l = Len(B) + 1 \/ (l \in DOMAIN B /\ C[l] = B[l])
  BY <1>1
<1>3. \A l \in DOMAIN C : Earlier(C[l], x)
  BY <1>1, <1>2 DEF Fits, Before
<1> QED
  BY <1>3, Zenon DEF Fits, Before, C

(* The block is submitted. *)
LEMMA Submitted ==
    ASSUME NEW F, NEW B, NEW n, Ordered(F, B, n)
    PROVE  Ordered(Append(F, B), <<>>, n)
<1> DEFINE G == Append(F, B)
<1>1. /\ n \in Nat /\ B \in Seq(Entries) /\ F \in Seq(Seq(Entries)) /\ Len(F) \in Nat
      /\ DOMAIN F = 1..Len(F)
  BY LenProperties DEF Ordered
<1>2. /\ G \in Seq(Seq(Entries)) /\ DOMAIN G = 1..(Len(F) + 1)
      /\ G[Len(F) + 1] = B /\ \A i \in 1..Len(F) : G[i] = F[i]
  BY <1>1, AppendProperties, LenProperties
<1> HIDE DEF G
<1>3. \A i \in DOMAIN G : i = Len(F) + 1 \/ (i \in DOMAIN F /\ G[i] = F[i])
  BY <1>1, <1>2
<1>4. \A i, j \in DOMAIN G : i < j => \A l \in DOMAIN G[j] : Before(G[i], G[j][l])
  <2> SUFFICES ASSUME NEW i \in DOMAIN G, NEW j \in DOMAIN G, i < j, NEW l \in DOMAIN G[j]
               PROVE  Before(G[i], G[j][l])
    OBVIOUS
  <2>0. i \in 1..(Len(F) + 1) /\ j \in 1..(Len(F) + 1)
    BY <1>2
  <2>1. i \in 1..Len(F)
    BY <1>1, <2>0
  <2>2. i \in DOMAIN F /\ G[i] = F[i]
    BY <1>1, <1>2, <2>1
  <2>3. CASE j = Len(F) + 1
    BY <1>2, <2>2, <2>3 DEF Ordered, AllBefore
  <2>4. CASE j \in DOMAIN F /\ G[j] = F[j]
    BY <2>2, <2>4 DEF Ordered
  <2> QED
    BY <1>3, <2>3, <2>4
<1>5. \A i \in DOMAIN G : InOrder(G[i]) /\ UpTo(G[i], n)
  BY <1>2, <1>3 DEF Ordered
<1>6. <<>> \in Seq(Entries) /\ DOMAIN <<>> = {}
  OBVIOUS
<1>7. InOrder(<<>>) /\ UpTo(<<>>, n) /\ \A l \in DOMAIN <<>> : AllBefore(G, <<>>[l])
  BY <1>6, Zenon DEF InOrder, UpTo
<1>8. Ordered(G, <<>>, n)
  BY <1>1, <1>2, <1>4, <1>5, <1>6, <1>7, Zenon DEF Ordered
<1> QED
  BY <1>8 DEF G

LEMMA FitsSubmitted ==
    ASSUME NEW F \in Seq(Seq(Entries)), NEW B \in Seq(Entries), NEW x, Fits(F, B, x)
    PROVE  Fits(Append(F, B), <<>>, x)
<1> DEFINE G == Append(F, B)
<1>1. /\ Len(F) \in Nat /\ DOMAIN F = 1..Len(F) /\ DOMAIN G = 1..(Len(F) + 1)
      /\ G[Len(F) + 1] = B /\ \A i \in 1..Len(F) : G[i] = F[i]
  BY AppendProperties, LenProperties
<1> HIDE DEF G
<1>2. \A i \in DOMAIN G : i = Len(F) + 1 \/ (i \in DOMAIN F /\ G[i] = F[i])
  BY <1>1
<1>3. \A i \in DOMAIN G : Before(G[i], x)
  BY <1>1, <1>2 DEF Fits, AllBefore
<1>4. DOMAIN <<>> = {}
  OBVIOUS
<1> QED
  BY <1>3, <1>4, Zenon DEF Fits, AllBefore, Before, G

(* G is F without the block at c. *)
LostAt(G, F, c) ==
    /\ Len(G) + 1 = Len(F)
    /\ \A i \in 1..Len(G) : G[i] = IF i < c THEN F[i] ELSE F[i + 1]

(* A block is lost. *)
LEMMA BlockLost ==
    ASSUME NEW F, NEW G \in Seq(Seq(Entries)), NEW B, NEW n, NEW c \in Int, LostAt(G, F, c),
           Ordered(F, B, n)
    PROVE  Ordered(G, B, n) /\ \A x : Fits(F, B, x) => Fits(G, B, x)
<1> DEFINE at(i) == IF i < c THEN i ELSE i + 1
<1>1. /\ Len(G) \in Nat /\ DOMAIN F = 1..Len(F) /\ DOMAIN G = 1..Len(G) /\ n \in Nat
      /\ B \in Seq(Entries)
  BY LenProperties DEF Ordered
<1>2. \A i \in DOMAIN G : at(i) \in DOMAIN F /\ G[i] = F[at(i)]
  BY <1>1 DEF LostAt
<1>3. \A i, j \in DOMAIN G : i < j => at(i) < at(j)
  BY <1>1
<1> HIDE DEF at
<1>4. \A x : AllBefore(F, x) => AllBefore(G, x)
  BY <1>2, Zenon DEF AllBefore
<1>5. \A i, j \in DOMAIN G : i < j => \A l \in DOMAIN G[j] : Before(G[i], G[j][l])
  <2> SUFFICES ASSUME NEW i \in DOMAIN G, NEW j \in DOMAIN G, i < j, NEW l \in DOMAIN G[j]
               PROVE  Before(G[i], G[j][l])
    OBVIOUS
  <2>1. /\ at(i) \in DOMAIN F /\ at(j) \in DOMAIN F /\ at(i) < at(j)
        /\ G[i] = F[at(i)] /\ G[j] = F[at(j)]
    BY <1>2, <1>3
  <2> QED
    BY <2>1 DEF Ordered
<1>6. \A i \in DOMAIN G : InOrder(G[i]) /\ UpTo(G[i], n)
  BY <1>2 DEF Ordered
<1>7. /\ InOrder(B) /\ UpTo(B, n)
      /\ \A l \in DOMAIN B : AllBefore(G, B[l])
  BY <1>4, Zenon DEF Ordered
<1>8. Ordered(G, B, n)
  BY <1>1, <1>5, <1>6, <1>7, Zenon DEF Ordered
<1> QED
  BY <1>4, <1>8, Zenon DEF Fits

(* A block goes out: it moves from the line to what was sent. *)
LEMMA DeliverFront ==
    ASSUME NodeTypes, ReadingsInv, Uplink!Deliver
    PROVE  /\ delivered' \in Seq([id : Int, blk : Seq(Entries)]) /\ pending' \in Seq(Seq(Entries))
           /\ Front' = Front
<1> DEFINE R == [id : Int, blk : Seq(Entries)]
           d == [id |-> number, blk |-> Head(pending)]
<1>1. /\ delivered \in Seq(R) /\ pending \in Seq(Seq(Entries)) /\ pending # <<>>
      /\ delivered' = Append(delivered, d) /\ pending' = Tail(pending)
  BY DEF ReadingsInv, Uplink!Deliver
<1>2. Head(pending) \in Seq(Entries) /\ Tail(pending) \in Seq(Seq(Entries))
  BY <1>1, HeadTailProperties
<1>3. number \in Int /\ d \in R
  BY <1>2, NodeAssumption DEF NodeTypes
<1>4. /\ delivered' \in Seq(R) /\ Len(delivered') = Len(delivered) + 1
      /\ delivered'[Len(delivered) + 1] = d
      /\ \A i \in 1..Len(delivered) : delivered'[i] = delivered[i]
  BY <1>1, <1>3, AppendProperties
<1>5. /\ Sent \in Seq(Seq(Entries)) /\ Len(Sent) = Len(delivered)
      /\ Sent' \in Seq(Seq(Entries)) /\ Len(Sent') = Len(delivered')
  <2>1. Sent \in Seq(Seq(Entries)) /\ Len(Sent) = Len(delivered)
    BY <1>1, SentType DEF Sent
  <2> DEFINE e == delivered'
  <2>2. e \in Seq(R)
    BY <1>4
  <2> HIDE DEF e, d
  <2>3. [i \in DOMAIN e |-> e[i].blk] \in Seq(Seq(Entries)) /\ Len([i \in DOMAIN e |-> e[i].blk]) = Len(e)
    BY <2>2, SentType
  <2> QED
    BY <2>1, <2>3 DEF Sent, e
<1>6. /\ Len(delivered) \in Nat /\ DOMAIN delivered = 1..Len(delivered)
      /\ DOMAIN delivered' = 1..(Len(delivered) + 1)
  BY <1>1, <1>4, LenProperties
<1>7. /\ \A i \in 1..Len(delivered) : Sent'[i] = Sent[i]
      /\ Sent'[Len(delivered) + 1] = Head(pending)
  BY <1>4, <1>6 DEF Sent
<1> DEFINE A == Append(Sent, Head(pending))
<1>8. /\ A \in Seq(Seq(Entries)) /\ Len(A) = Len(Sent) + 1 /\ A[Len(Sent) + 1] = Head(pending)
      /\ \A i \in 1..Len(Sent) : A[i] = Sent[i]
  BY <1>2, <1>5, AppendProperties
<1>9. Sent' = A
  <2> HIDE DEF A
  <2>1. ASSUME NEW i \in 1..Len(A) PROVE Sent'[i] = A[i]
    <3>1. i = Len(Sent) + 1 \/ i \in 1..Len(Sent)
      BY <1>5, <1>6, <1>8
    <3> QED
      BY <1>5, <1>7, <1>8, <3>1
  <2>2. Len(Sent') = Len(A)
    BY <1>4, <1>5, <1>8
  <2> QED
    BY <1>5, <1>8, <2>1, <2>2, SeqEqual
<1>10. Sent \o pending = A \o Tail(pending)
  BY <1>1, <1>5, ConcatMoveHead
<1> QED
  BY <1>1, <1>2, <1>4, <1>9, <1>10 DEF Front

(* A sequence without its element at p, and another one put before both *)
Without(q, p) == SubSeq(q, 1, p - 1) \o SubSeq(q, p + 1, Len(q))

LEMMA WithoutAt ==
    ASSUME NEW S, NEW q \in Seq(S), NEW p \in 1..Len(q)
    PROVE  Without(q, p) \in Seq(S) /\ LostAt(Without(q, p), q, p)
<1>1. /\ Len(q) \in Nat /\ p \in Nat /\ p >= 1 /\ p <= Len(q)
      /\ \A i \in 1..Len(q) : q[i] \in S
  BY LenProperties, ElementOfSeq
<1> DEFINE a == SubSeq(q, 1, p - 1)
           z == SubSeq(q, p + 1, Len(q))
<1>2. /\ a \in Seq(S) /\ Len(a) = p - 1 /\ \A i \in 1..(p - 1) : a[i] = q[i]
  <2>1. 1 \in Int /\ p - 1 \in Int /\ \A i \in 1..(p - 1) : q[i] \in S
    BY <1>1
  <2>2. /\ a \in Seq(S) /\ Len(a) = IF 1 <= p - 1 THEN (p - 1) - 1 + 1 ELSE 0
        /\ \A i \in 1..((p - 1) - 1 + 1) : a[i] = q[1 + i - 1]
    BY <2>1, SubSeqProperties
  <2> HIDE DEF a
  <2> QED
    BY <1>1, <2>2
<1>3. /\ z \in Seq(S) /\ Len(z) = Len(q) - p
      /\ \A i \in 1..(Len(q) - p) : z[i] = q[p + i]
  <2>1. p + 1 \in Int /\ Len(q) \in Int /\ \A i \in (p + 1)..Len(q) : q[i] \in S
    BY <1>1
  <2>2. /\ z \in Seq(S) /\ Len(z) = IF p + 1 <= Len(q) THEN Len(q) - (p + 1) + 1 ELSE 0
        /\ \A i \in 1..(Len(q) - (p + 1) + 1) : z[i] = q[(p + 1) + i - 1]
    BY <2>1, SubSeqProperties
  <2> HIDE DEF z
  <2>3. Len(z) = Len(q) - p
    BY <1>1, <2>2
  <2>4. ASSUME NEW i \in 1..(Len(q) - p) PROVE z[i] = q[p + i]
    <3>1. i \in 1..(Len(q) - (p + 1) + 1) /\ (p + 1) + i - 1 = p + i
      BY <1>1
    <3>2. z[i] = q[(p + 1) + i - 1]
      BY <2>2, <3>1
    <3> QED
      BY <3>1, <3>2, Zenon
  <2> QED
    BY <2>2, <2>3, <2>4
<1> DEFINE r == a \o z
<1> HIDE DEF a, z
<1>4. /\ r \in Seq(S) /\ Len(r) = Len(a) + Len(z)
      /\ \A i \in 1..(Len(a) + Len(z)) : r[i] = IF i <= Len(a) THEN a[i] ELSE z[i - Len(a)]
  BY <1>2, <1>3, ConcatProperties
<1> HIDE DEF r
<1>5. Len(r) = Len(q) - 1
  BY <1>1, <1>2, <1>3, <1>4
<1>6. ASSUME NEW i \in 1..(Len(q) - 1)
      PROVE  r[i] = IF i < p THEN q[i] ELSE q[i + 1]
  <2>1. i \in 1..(Len(a) + Len(z)) /\ (i <= Len(a) <=> i < p)
    BY <1>1, <1>2, <1>3
  <2>2. r[i] = IF i <= Len(a) THEN a[i] ELSE z[i - Len(a)]
    BY <1>4, <2>1
  <2>3. CASE i < p
    <3>1. a[i] = q[i]
      BY <1>1, <1>2, <2>3
    <3> QED
      BY <2>1, <2>2, <2>3, <3>1, Zenon
  <2>4. CASE ~(i < p)
    <3>1. i - Len(a) \in 1..(Len(q) - p) /\ p + (i - Len(a)) = i + 1
      BY <1>1, <1>2, <2>4
    <3>2. z[i - Len(a)] = q[p + (i - Len(a))]
      BY <1>3, <3>1
    <3> QED
      BY <2>1, <2>2, <2>4, <3>1, <3>2, Zenon
  <2> QED
    BY <2>3, <2>4
<1>7. Len(r) + 1 = Len(q)
  BY <1>1, <1>5
<1>8. LostAt(r, q, p)
  BY <1>5, <1>6, <1>7, Zenon DEF LostAt
<1>9. Without(q, p) = r
  BY Zenon DEF Without, r, a, z
<1> QED
  BY <1>4, <1>8, <1>9, Zenon

LEMMA CutOne ==
    ASSUME NEW S, NEW s \in Seq(S), NEW q \in Seq(S), NEW r \in Seq(S), NEW p \in 1..Len(q),
           LostAt(r, q, p)
    PROVE  /\ s \o r \in Seq(S) /\ Len(s) + p \in Int
           /\ LostAt(s \o r, s \o q, Len(s) + p)
<1>1. /\ Len(s) \in Nat /\ Len(q) \in Nat /\ p \in Nat /\ p >= 1 /\ p <= Len(q)
      /\ Len(r) \in Nat /\ Len(r) = Len(q) - 1
  BY LenProperties DEF LostAt
<1> DEFINE F == s \o q
           G == s \o r
<1>2. /\ Len(F) = Len(s) + Len(q)
      /\ \A i \in 1..(Len(s) + Len(q)) : F[i] = IF i <= Len(s) THEN s[i] ELSE q[i - Len(s)]
  BY ConcatProperties
<1>3. /\ G \in Seq(S) /\ Len(G) = Len(s) + Len(r)
      /\ \A i \in 1..(Len(s) + Len(r)) : G[i] = IF i <= Len(s) THEN s[i] ELSE r[i - Len(s)]
  BY ConcatProperties
<1> HIDE DEF F, G
<1>4. Len(G) = Len(s) + (Len(q) - 1)
  BY <1>1, <1>3
<1>5. ASSUME NEW i \in 1..Len(G)
      PROVE  G[i] = IF i < Len(s) + p THEN F[i] ELSE F[i + 1]
  <2>1. /\ i \in Nat /\ i \in 1..(Len(s) + Len(r)) /\ i \in 1..(Len(s) + Len(q))
        /\ i + 1 \in 1..(Len(s) + Len(q))
    BY <1>1, <1>4
  <2>2. /\ G[i] = IF i <= Len(s) THEN s[i] ELSE r[i - Len(s)]
        /\ F[i] = IF i <= Len(s) THEN s[i] ELSE q[i - Len(s)]
        /\ F[i + 1] = IF i + 1 <= Len(s) THEN s[i + 1] ELSE q[(i + 1) - Len(s)]
    BY <1>2, <1>3, <2>1
  <2>3. CASE i <= Len(s)
    <3>1. i < Len(s) + p
      BY <1>1, <2>1, <2>3
    <3> QED
      BY <2>2, <2>3, <3>1, Zenon
  <2>4. CASE ~(i <= Len(s))
    <3> DEFINE j == i - Len(s)
    <3>1. /\ j \in 1..Len(r) /\ (i + 1) - Len(s) = j + 1 /\ ~(i + 1 <= Len(s))
          /\ (j < p <=> i < Len(s) + p)
      BY <1>1, <1>4, <2>1, <2>4
    <3>2. G[i] = r[j] /\ F[i] = q[j] /\ F[i + 1] = q[(i + 1) - Len(s)]
      BY <2>2, <2>4, <3>1, Zenon
    <3> HIDE DEF j
    <3>3. r[j] = IF j < p THEN q[j] ELSE q[j + 1]
      BY <3>1, Zenon DEF LostAt
    <3> QED
      BY <3>1, <3>2, <3>3, Zenon
  <2> QED
    BY <2>3, <2>4
<1>6. Len(G) + 1 = Len(F)
  BY <1>1, <1>2, <1>4
<1>7. Len(s) + p \in Int
  BY <1>1
<1> QED
  BY <1>3, <1>5, <1>6, <1>7, Zenon DEF F, G, LostAt

(* process_blocks loses a block of the line. *)
LEMMA LoseFront ==
    ASSUME ReadingsInv, Uplink!Lose
    PROVE  /\ pending' \in Seq(Seq(Entries)) /\ Front' \in Seq(Seq(Entries))
           /\ \E c \in Int : LostAt(Front', Front, c)
<1>1. PICK p \in DOMAIN pending :
          pending' = SubSeq(pending, 1, p - 1) \o SubSeq(pending, p + 1, Len(pending))
  BY DEF Uplink!Lose
<1>2. delivered' = delivered
  BY DEF Uplink!Lose
<1>3. /\ delivered \in Seq([id : Int, blk : Seq(Entries)]) /\ pending \in Seq(Seq(Entries))
      /\ p \in 1..Len(pending)
  BY LenProperties DEF ReadingsInv
<1>4. Sent \in Seq(Seq(Entries))
  BY <1>3, SentType DEF Sent
<1>5. Front = Sent \o pending /\ Front' = Sent \o pending'
  BY <1>2 DEF Front, Sent
<1>6. pending' = Without(pending, p)
  BY <1>1, Zenon DEF Without
<1> DEFINE q == pending
           r == pending'
           c == Len(Sent) + p
<1>7. r \in Seq(Seq(Entries)) /\ LostAt(r, q, p)
  BY <1>3, <1>6, WithoutAt
<1>8. q \in Seq(Seq(Entries)) /\ p \in 1..Len(q)
  BY <1>3
<1> HIDE DEF r, q
<1>9. Sent \o r \in Seq(Seq(Entries)) /\ c \in Int /\ LostAt(Sent \o r, Sent \o q, c)
  BY <1>4, <1>7, <1>8, CutOne
<1> HIDE DEF c
<1> QED
  BY <1>5, <1>7, <1>9, Zenon DEF r, q

LEMMA InitReadings == Init => ReadingsInv
<1> SUFFICES ASSUME Init PROVE ReadingsInv
  OBVIOUS
<1>1. delivered = <<>> /\ pending = <<>> /\ entry_block = <<>> /\ readings = 0 /\ hpc = "idle"
  BY DEF Init, Uplink!Init
<1>2. Sent = <<>>
  BY <1>1 DEF Sent
<1>3. Front = <<>>
  BY <1>1, <1>2 DEF Front
<1> QED
  BY <1>1, <1>3 DEF ReadingsInv, Ordered, InOrder, UpTo

(* The steps that move no reading *)
LEMMA StillReadings ==
    ASSUME ReadingsInv,
           UNCHANGED <<delivered, pending, entry_block, readings>>,
           hpc' \in {"lock", "write"} => hpc \in {"lock", "write"} /\ sensed' = sensed
    PROVE  ReadingsInv'
<1>1. Front' = Front
  BY DEF Front, Sent
<1> QED
  BY <1>1 DEF ReadingsInv

(* A block is submitted. *)
LEMMA SubmitFront ==
    ASSUME ReadingsInv, Uplink!Submit(entry_block)
    PROVE  /\ delivered' \in Seq([id : Int, blk : Seq(Entries)]) /\ pending' \in Seq(Seq(Entries))
           /\ Front' = Append(Front, entry_block)
<1>1. pending' = Append(pending, entry_block) /\ delivered' = delivered
  BY DEF Uplink!Submit
<1>2. /\ entry_block \in Seq(Entries) /\ pending \in Seq(Seq(Entries))
      /\ delivered \in Seq([id : Int, blk : Seq(Entries)])
  BY DEF ReadingsInv, Ordered
<1>3. Sent \in Seq(Seq(Entries)) /\ Sent' = Sent
  BY <1>1, <1>2, SentType DEF Sent
<1>4. Front' = Append(Front, entry_block)
  BY <1>1, <1>2, <1>3, ConcatAppend DEF Front
<1> QED
  BY <1>1, <1>2, <1>4, AppendProperties

(* pouch_uplink_entry_write keeps the order, be the block full or not; and what fits
   after the entry that it writes still does. *)
LEMMA EntryWritten ==
    ASSUME ReadingsInv, NEW m \in Nat, readings <= m, NEW e, e.n <= m,
           Fits(Front, entry_block, e), pouch_uplink_entry_write(e)
    PROVE  /\ delivered' \in Seq([id : Int, blk : Seq(Entries)]) /\ pending' \in Seq(Seq(Entries))
           /\ Ordered(Front', entry_block', m)
           /\ \A x : Fits(Front, entry_block, x) /\ Earlier(e, x) => Fits(Front', entry_block', x)
<1>1. /\ delivered \in Seq([id : Int, blk : Seq(Entries)]) /\ pending \in Seq(Seq(Entries))
      /\ Ordered(Front, entry_block, readings) /\ Front \in Seq(Seq(Entries))
      /\ entry_block \in Seq(Entries) /\ e \in Entries
  BY DEF ReadingsInv, Ordered, Fits
<1>2. CASE entry_block' = Append(entry_block, e) /\ UNCHANGED uplink
  <2>1. delivered' = delivered /\ pending' = pending
    BY <1>2 DEF uplink
  <2>2. Front' = Front
    BY <2>1 DEF Front, Sent
  <2>3. Ordered(Front, Append(entry_block, e), m)
    BY <1>1, Written
  <2>4. \A x : Fits(Front, entry_block, x) /\ Earlier(e, x) =>
               Fits(Front, Append(entry_block, e), x)
    BY <1>1, StillFits
  <2> QED
    BY <1>1, <1>2, <2>1, <2>2, <2>3, <2>4, Zenon
<1>3. CASE Uplink!Submit(entry_block) /\ entry_block' = <<e>>
  <2>1. /\ delivered' \in Seq([id : Int, blk : Seq(Entries)]) /\ pending' \in Seq(Seq(Entries))
        /\ Front' = Append(Front, entry_block)
    BY <1>3, SubmitFront
  <2> DEFINE G == Append(Front, entry_block)
  <2>2. Ordered(G, <<>>, readings) /\ <<>> \in Seq(Entries) /\ Append(<<>>, e) = <<e>>
    BY <1>1, Submitted
  <2>3. \A x : Fits(Front, entry_block, x) => Fits(G, <<>>, x)
    BY <1>1, FitsSubmitted
  <2> HIDE DEF G
  <2>4. Ordered(G, Append(<<>>, e), m)
    BY <2>2, <2>3, Written
  <2>5. \A x : Fits(Front, entry_block, x) /\ Earlier(e, x) => Fits(G, Append(<<>>, e), x)
    <3> SUFFICES ASSUME NEW x, Fits(Front, entry_block, x), Earlier(e, x)
                 PROVE  Fits(G, Append(<<>>, e), x)
      BY Zenon
    <3>1. Fits(G, <<>>, x)
      BY <2>3
    <3> QED
      BY <1>1, <2>2, <3>1, StillFits
  <2>6. Front' = G
    BY <2>1 DEF G
  <2>7. entry_block' = Append(<<>>, e)
    BY <1>3, <2>2
  <2> QED
    BY <2>1, <2>4, <2>5, <2>6, <2>7, Zenon
<1> QED
  BY <1>2, <1>3 DEF pouch_uplink_entry_write

LEMMA NextReadings == NodeTypes /\ ReadingsInv /\ [Next]_vars => ReadingsInv'
<1> SUFFICES ASSUME NodeTypes, ReadingsInv, [Next]_vars PROVE ReadingsInv'
  OBVIOUS
<1>0. /\ Ordered(Front, entry_block, readings)
      /\ readings \in Nat /\ readings + 1 \in Nat /\ readings <= readings + 1
      /\ readings <= readings
  BY DEF ReadingsInv, Ordered
<1>1. CASE UNCHANGED vars
  BY <1>1, StillReadings DEF vars, uplink, entry, app
<1>2. CASE \/ bt_le_adv_start \/ main_loop \/ connected \/ disconnected
           \/ disconnect_work_handler \/ sync_request_work_handler
           \/ uplink_read_next \/ fill_more
  BY <1>2, StillReadings
  DEF bt_le_adv_start, main_loop, connected, disconnected, disconnect_work_handler,
      sync_request_work_handler, uplink_read_next, fill_more, uplink, entry, app
<1>3. CASE uplink_read_start \/ uplink_read_started \/ fill_end \/ fill_finish
  BY <1>3, StillReadings
  DEF uplink_read_start, uplink_read_started, fill_end, fill_finish, Uplink!Start,
      Uplink!Opened, Uplink!Drained, Uplink!Finished, entry, app
<1>4. CASE \/ dispatch_start \/ dispatch_done \/ session_start \/ water_report_lock
           \/ services_lock \/ pouch_uplink_close \/ session_end
  BY <1>4, StillReadings
  DEF dispatch_start, dispatch_done, session_start, water_report_lock, services_lock,
      pouch_uplink_close, session_end, Handler, Uplink!Close, uplink, entry
<1>5. CASE dispatch_get
  <2>1. Head(event_q) \in Events
    BY <1>5, HeadTailProperties DEF dispatch_get, NodeTypes, TypeOK
  <2>2. hpc' \notin {"lock", "write"}
    BY <1>5, <2>1 DEF dispatch_get, Handler, Events
  <2> QED
    BY <1>5, <2>2, StillReadings DEF dispatch_get, uplink, entry
<1>6. CASE fill_block
  BY <1>6, DeliverFront DEF fill_block, ReadingsInv, entry, app
<1>7. CASE process_blocks_early
  <2>1. /\ Uplink!Lose /\ UNCHANGED <<delivered, entry_block, readings, hpc, sensed>>
    BY <1>7 DEF process_blocks_early, Uplink!Lose, entry, app
  <2>2. PICK c \in Int : LostAt(Front', Front, c)
    BY <2>1, LoseFront
  <2>3. Front' \in Seq(Seq(Entries)) /\ pending' \in Seq(Seq(Entries))
    BY <2>1, LoseFront
  <2>5. /\ Ordered(Front', entry_block, readings)
        /\ \A x : Fits(Front, entry_block, x) => Fits(Front', entry_block, x)
    BY <1>0, <2>2, <2>3, BlockLost
  <2> QED
    BY <2>1, <2>3, <2>5 DEF ReadingsInv
<1>8. CASE water_report_work_handler
  <2> DEFINE e == Reading("report", readings + 1)
  <2>1. /\ readings' = readings + 1 /\ UNCHANGED <<hpc, sensed>>
        /\ \/ pouch_uplink_entry_write(e)
           \/ UNCHANGED <<uplink, entry_block>>
    BY <1>8 DEF water_report_work_handler, app
  <2>2. CASE pouch_uplink_entry_write(e)
    <3>1. Fits(Front, entry_block, e) /\ e.n = readings + 1
      BY <1>0, Sensed DEF Reading
    <3>2. ASSUME hpc \in {"lock", "write"}
          PROVE  /\ sensed \in Nat /\ sensed <= readings /\ sensed <= readings + 1
                 /\ Fits(Front, entry_block, Reading("handler", sensed))
                 /\ Earlier(e, Reading("handler", sensed))
      BY <1>0, <3>2, ReportsOvertake DEF ReadingsInv
    <3> HIDE DEF e
    <3>3. e.n <= readings + 1
      BY <1>0, <3>1
    <3>4. /\ delivered' \in Seq([id : Int, blk : Seq(Entries)]) /\ pending' \in Seq(Seq(Entries))
          /\ Ordered(Front', entry_block', readings + 1)
          /\ \A x : Fits(Front, entry_block, x) /\ Earlier(e, x) =>
                    Fits(Front', entry_block', x)
      BY <1>0, <2>2, <3>1, <3>3, EntryWritten
    <3>5. hpc \in {"lock", "write"} => Fits(Front', entry_block', Reading("handler", sensed))
      BY <3>2, <3>4, Zenon
    <3> QED
      BY <2>1, <3>2, <3>4, <3>5 DEF ReadingsInv
  <2>3. CASE UNCHANGED <<uplink, entry_block>>
    <3>1. UNCHANGED <<delivered, pending, entry_block>>
      BY <2>3 DEF uplink
    <3>2. Front' = Front
      BY <3>1 DEF Front, Sent
    <3>3. Ordered(Front, entry_block, readings + 1)
      BY <1>0, Older
    <3>4. hpc \in {"lock", "write"} => sensed \in Nat /\ sensed <= readings + 1
      BY <1>0 DEF ReadingsInv
    <3> QED
      BY <2>1, <3>1, <3>2, <3>3, <3>4 DEF ReadingsInv
  <2> QED
    BY <2>1, <2>2, <2>3
<1>9. CASE water_report_sense
  <2>1. /\ readings' = readings + 1 /\ sensed' = readings + 1 /\ hpc' = "lock"
        /\ UNCHANGED <<delivered, pending, entry_block>>
    BY <1>9 DEF water_report_sense, Handler, uplink, entry
  <2>2. Front' = Front
    BY <2>1 DEF Front, Sent
  <2>3. /\ Ordered(Front, entry_block, readings + 1)
        /\ Fits(Front, entry_block, Reading("handler", readings + 1))
    BY <1>0, Older, Sensed
  <2>4. readings + 1 <= readings + 1
    BY <1>0
  <2> QED
    BY <1>0, <2>1, <2>2, <2>3, <2>4 DEF ReadingsInv
<1>10. CASE water_report_write \/ services_write
  <2> DEFINE e == IF hpc = "write" THEN Reading("handler", sensed) ELSE Status
  <2>1. /\ pouch_uplink_entry_write(e) /\ readings' = readings
        /\ hpc' \notin {"lock", "write"}
    BY <1>10 DEF water_report_write, services_write, Handler
  <2>2. Fits(Front, entry_block, e) /\ e.n <= readings
    <3>1. CASE hpc = "write"
      BY <3>1 DEF ReadingsInv, Reading
    <3>2. CASE hpc # "write"
      BY <1>0, <3>2, StatusFits, StatusAnywhere
    <3> QED
      BY <3>1, <3>2
  <2> HIDE DEF e
  <2>3. /\ delivered' \in Seq([id : Int, blk : Seq(Entries)]) /\ pending' \in Seq(Seq(Entries))
        /\ Ordered(Front', entry_block', readings)
    BY <1>0, <2>1, <2>2, EntryWritten
  <2> QED
    BY <2>1, <2>3 DEF ReadingsInv
<1>11. CASE entry_block_close
  <2>1. /\ Uplink!Submit(entry_block) /\ entry_block' = <<>> /\ hpc' = "get"
        /\ readings' = readings
    BY <1>11 DEF entry_block_close, Handler
  <2>2. /\ delivered' \in Seq([id : Int, blk : Seq(Entries)]) /\ pending' \in Seq(Seq(Entries))
        /\ Front' = Append(Front, entry_block)
    BY <2>1, SubmitFront
  <2>3. Ordered(Append(Front, entry_block), <<>>, readings)
    BY <1>0, Submitted
  <2> QED
    BY <2>1, <2>2, <2>3 DEF ReadingsInv
<1> QED
  BY <1>1, <1>2, <1>3, <1>4, <1>5, <1>6, <1>7, <1>8, <1>9, <1>10, <1>11
  DEF Next, uplink_read, dispatch_events

(* The readings of the water sensor (water_report_work_handler and the handler of
   SESSION_START) leave the node in order, within a block and from block to block, and
   none twice, whoever submits a full block (pouch_uplink_entry_write), whatever blocks
   process_blocks loses and sessions are left half read.  The handler's own reading is
   the exception: periodic reports, and nothing else, may overtake it. *)
THEOREM ReadingsStayInOrder == Spec => []ReadingsInOrder
<1>1. ReadingsInv => ReadingsInOrder
  <2> SUFFICES ASSUME ReadingsInv PROVE ReadingsInOrder
    OBVIOUS
  <2> DEFINE one == <<entry_block>>
             L == Front \o one
  <2>1. /\ Ordered(Front, entry_block, readings) /\ Front \in Seq(Seq(Entries))
        /\ entry_block \in Seq(Entries) /\ Len(Front) \in Nat /\ DOMAIN Front = 1..Len(Front)
    BY LenProperties DEF ReadingsInv, Ordered
  <2>2. one \in Seq(Seq(Entries)) /\ Len(one) = 1 /\ one[1] = entry_block
    BY <2>1
  <2>3. /\ L \in Seq(Seq(Entries)) /\ Len(L) = Len(Front) + Len(one)
        /\ \A i \in 1..(Len(Front) + Len(one)) :
               L[i] = IF i <= Len(Front) THEN Front[i] ELSE one[i - Len(Front)]
    BY <2>1, <2>2, ConcatProperties
  <2>4. Line = L
    BY DEF Line, Front, Sent
  <2> HIDE DEF L
  <2>5. /\ DOMAIN L = 1..(Len(Front) + 1) /\ L[Len(Front) + 1] = entry_block
        /\ \A i \in DOMAIN Front : L[i] = Front[i]
    <3>1. DOMAIN L = 1..Len(L)
      BY <2>3, LenProperties
    <3> HIDE DEF one
    <3>2. DOMAIN L = 1..(Len(Front) + 1)
      BY <2>1, <2>2, <2>3, <3>1
    <3>3. L[Len(Front) + 1] = entry_block
      <4> DEFINE i == Len(Front) + 1
      <4>1. i \in 1..(Len(Front) + Len(one)) /\ ~(i <= Len(Front)) /\ i - Len(Front) = 1
        BY <2>1, <2>2
      <4> HIDE DEF i
      <4>2. L[i] = IF i <= Len(Front) THEN Front[i] ELSE one[i - Len(Front)]
        BY <2>3, <4>1
      <4> QED
        BY <2>2, <4>1, <4>2, Zenon DEF i
    <3>4. ASSUME NEW i \in DOMAIN Front PROVE L[i] = Front[i]
      <4>1. i \in 1..(Len(Front) + Len(one)) /\ i <= Len(Front)
        BY <2>1, <2>2
      <4> QED
        BY <2>3, <4>1
    <3> QED
      BY <3>2, <3>3, <3>4
  <2>6. \A i \in DOMAIN L : i = Len(Front) + 1 \/ (i \in DOMAIN Front /\ L[i] = Front[i])
    BY <2>1, <2>5
  <2>7. ASSUME NEW i \in DOMAIN L, NEW j \in DOMAIN L, i < j,
               NEW k \in DOMAIN L[i], NEW l \in DOMAIN L[j]
        PROVE  Earlier(L[i][k], L[j][l])
    <3>1. i \in 1..(Len(Front) + 1) /\ j \in 1..(Len(Front) + 1)
      BY <2>5
    <3>2. i \in 1..Len(Front)
      BY <2>1, <2>7, <3>1
    <3>3. i \in DOMAIN Front /\ L[i] = Front[i]
      BY <2>1, <2>5, <3>2
    <3>4. CASE j = Len(Front) + 1
      BY <2>1, <2>5, <2>7, <3>3, <3>4 DEF Ordered, AllBefore, Before
    <3>5. CASE j \in DOMAIN Front /\ L[j] = Front[j]
      BY <2>1, <2>7, <3>3, <3>5 DEF Ordered, Before
    <3> QED
      BY <2>6, <3>4, <3>5
  <2>8. \A i \in DOMAIN L : InOrder(L[i])
    BY <2>1, <2>5, <2>6 DEF Ordered
  <2>9. ASSUME NEW i \in DOMAIN L, NEW j \in DOMAIN L, i <= j,
               NEW k \in DOMAIN L[i], NEW l \in DOMAIN L[j], i < j \/ k < l
        PROVE  Earlier(L[i][k], L[j][l])
    <3>1. CASE i < j
      BY <2>7, <3>1
    <3>2. CASE i = j
      <4>1. k < l
        BY <2>5, <2>9, <3>2
      <4> QED
        BY <2>8, <3>2, <4>1 DEF InOrder
    <3> QED
      BY <2>5, <2>9, <3>1, <3>2
  <2> QED
    BY <2>4, <2>9 DEF ReadingsInOrder
<1>2. Spec => []NodeTypes
  BY InitTypes, NextTypes, PTL DEF Spec
<1> QED
  BY <1>1, <1>2, InitReadings, NextReadings, PTL DEF Spec
================================================================================
