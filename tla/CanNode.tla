------------------------------ MODULE CanNode ------------------------------
(***************************************************************************)
(* The CANopen task (src/drivers/can/canopen.rs) with the UDS transport    *)
(* (src/drivers/can/uds_bridge.rs), composed with the UDS engine and the   *)
(* fault memory it drives: every call the task makes into the engine is    *)
(* the engine's own action.                                                *)
(*                                                                         *)
(* The task is one loop: sample the clock, run the pending queue, send the *)
(* answer of a finished job, then wait for a frame or for the heartbeat    *)
(* ticker, whichever comes first.  pc names the await or the statement it  *)
(* has reached.  Nothing else touches the engine, so what interleaves with *)
(* the task is time, the bus and a reset of the chip.                      *)
(*                                                                         *)
(* Which lengths a frame can have is decided outside the repository, by    *)
(* CAN FD and by the frame library: framing is the set of them, fixed for  *)
(* a whole behaviour and taken from Framings.                              *)
(***************************************************************************)
EXTENDS UdsEngine, DtcStore

CONSTANTS
  DTC_CAN_TIMEOUT,   \* the code recorded for a silent bus
  CAN_TIMEOUT,       \* the silence that counts as a fault, in heartbeat periods
  NmtCommands,       \* the NMT commands a master sends
  MaxDue,            \* bound on the heartbeat ticks that pile up
  Framings           \* the sets of frame lengths to consider

ASSUME TimeoutAssumption ==
  CAN_TIMEOUT \in Nat \ {0} /\ MaxDue \in Nat \ {0}
ASSUME CodeAssumption == DTC_CAN_TIMEOUT \in Codes
ASSUME FramingAssumption == Framings \subseteq SUBSET Nat

\* The lengths a CAN FD frame can carry.
FdLengths == (0..8) \cup {12, 16, 20, 24, 32, 48, 64}

VARIABLES
  \* the task's locals: where it is, the NMT state and the timeout flag
  pc, nmt, dtc_timeout_recorded,
  \* heartbeat periods since last_rx, capped at CAN_TIMEOUT, and ticks to come
  silence, ticks_due,
  \* the length of the response buffer and the codes listed in it
  payload,
  \* the request the current iteration received
  asked,
  \* the frame lengths there are
  framing

node_vars == <<DTCS, pc, nmt, dtc_timeout_recorded, silence, ticks_due,
               payload, asked, framing>>
all_vars == <<vars, node_vars>>

NmtState == {"PreOperational", "Operational", "Stopped"}
Location == {"boot", "top", "tick", "fetch", "select", "answer", "reset"}
Asked == [sid : Sid, functional : BOOLEAN]
NothingAsked == [sid |-> NoSid, functional |-> FALSE]
NoPayload == [len |-> 0, codes |-> {}]

NodeTypeOK ==
  /\ TypeOK
  /\ StoreTypeOK
  /\ pc \in Location
  /\ nmt \in NmtState
  /\ dtc_timeout_recorded \in BOOLEAN
  /\ silence \in 0..CAN_TIMEOUT
  /\ ticks_due \in 0..MaxDue
  /\ payload \in [len : Nat, codes : SUBSET (Codes \cup {NoCode})]
  /\ asked \in Asked \cup {NothingAsked}
  /\ framing \in Framings

\* The state of the task when the chip starts.
NodeInit ==
  /\ Init
  /\ StoreInit
  /\ pc = "boot"
  /\ nmt = "PreOperational"
  /\ dtc_timeout_recorded = FALSE
  /\ silence = 0
  /\ ticks_due = 0
  /\ payload = NoPayload
  /\ asked = NothingAsked
  /\ framing \in Framings

-----------------------------------------------------------------------------
(***************************************************************************)
(* The transport.                                                          *)
(***************************************************************************)

\* Fault: CommunicationControl is missing from the list.
functional_blocked_short(req) ==
  \/ req.sid = "0x10" /\ req.len > 1 /\ req.sub >= 2
  \/ req.sid \in {"0x11", "0x27", "0x2E", "0x31", "0x34", "0x36", "0x37"}

\* What a broadcast may not ask for.  Of 0x10 only the default session is let
\* through, and a request too short to have a sub-function.
functional_blocked(req) ==
  \/ req.sid = "0x10" /\ req.len > 1 /\ req.sub >= 2
  \/ req.sid \in {"0x11", "0x27", "0x28", "0x2E", "0x31", "0x34", "0x36", "0x37"}

\* The request gets past all checks of the engine.
Serves(req) ==
  /\ state = "Idle"
  /\ nrc_gate(req) = "ok"
  /\ nrc_handler(req) = "ok"

\* A request that is put on the queue stores no response of its own.
Queues(req) == Serves(req) /\ req.sid \in OtaSids /\ Occupied # Slots

IsSeed(req) == req.sid = "0x27" /\ is_request_seed(req)

\* What dispatch leaves in the response buffer: the length of the stored
\* response and the codes in it.  Only two responses can be longer than 8.
StoredPayload(req, mask, store) ==
  IF response'.code = "empty" THEN NoPayload
  ELSE IF response'.code # "positive" THEN [len |-> 3, codes |-> {}]
  ELSE IF req.sid = "0x19" THEN [len |-> ReportLen(store, mask),
                                 codes |-> Reported(store, mask)]
  ELSE [len |-> IF IsSeed(req) THEN 18 ELSE 2, codes |-> {}]

\* build_response_frame, and the frame library behind it: an empty response
\* and one whose length no frame has are not sent.
Frameable(p) == p.len > 0 /\ p.len \in framing

-----------------------------------------------------------------------------
(***************************************************************************)
(* The task.                                                               *)
(***************************************************************************)

\* The boot-up frame goes out and the loop is entered.
BootUp ==
  /\ running
  /\ pc = "boot"
  /\ pc' = "top"
  /\ UNCHANGED <<vars, DTCS, nmt, dtc_timeout_recorded, silence,
                 ticks_due, payload, asked, framing>>

\* Fault: the clock is sampled and the queue is not driven with it.
SampleClockOnly ==
  /\ running
  /\ pc = "top"
  /\ pc' = "fetch"
  /\ asked' = NothingAsked
  /\ ClockTick
  /\ UNCHANGED <<DTCS, nmt, dtc_timeout_recorded, silence, ticks_due, payload,
                 framing>>

\* now_ms = Instant::now(): any time may have passed since the last sample,
\* and the truncated clock may have wrapped.
SampleClock ==
  /\ running
  /\ pc = "top"
  /\ pc' = "tick"
  /\ asked' = NothingAsked
  /\ ClockTick
  /\ UNCHANGED <<DTCS, nmt, dtc_timeout_recorded, silence, ticks_due, payload,
                 framing>>

\* Fault: the answer is looked for before the queue is driven.
DriveQueueLate ==
  /\ running
  /\ pc = "tick"
  /\ pc' = "select"
  /\ IF state = "Pending"
     THEN /\ Tick
          /\ payload' = IF response' = response THEN payload
                        ELSE [len |-> 3, codes |-> {}]
     ELSE UNCHANGED <<vars, payload>>
  /\ UNCHANGED <<DTCS, nmt, dtc_timeout_recorded, silence, ticks_due, asked,
                 framing>>

\* uds::tick, a no-op unless a request is pending.
DriveQueue ==
  /\ running
  /\ pc = "tick"
  /\ pc' = "fetch"
  /\ IF state = "Pending"
     THEN /\ Tick
          /\ payload' = IF response' = response THEN payload
                        ELSE [len |-> 3, codes |-> {}]
     ELSE UNCHANGED <<vars, payload>>
  /\ UNCHANGED <<DTCS, nmt, dtc_timeout_recorded, silence, ticks_due, asked,
                 framing>>

\* take_response_pending, and the frame of the finished job; whether its
\* transmission succeeds within 10 ms is not looked at.
FetchAnswer ==
  /\ running
  /\ pc = "fetch"
  /\ pc' = "select"
  /\ IF response_pending THEN take_response_pending
     ELSE UNCHANGED vars
  /\ UNCHANGED <<DTCS, nmt, dtc_timeout_recorded, silence, ticks_due, payload,
                 asked, framing>>

\* Fault: the flag is taken back and the fault is not.
StoreKept == DTCS

\* What every received frame does first: last_rx is renewed and the timeout
\* is taken back.
StoreOnReceive == IF dtc_timeout_recorded THEN Without(DTCS, DTC_CAN_TIMEOUT)
                  ELSE DTCS
Received ==
  /\ silence' = 0
  /\ dtc_timeout_recorded' = FALSE

\* Fault: a command that is not one of the three is taken for a state.
apply_nmt_unchecked(cmd) ==
  CASE cmd = "0x01" -> "Operational"
    [] cmd = "0x02" -> "Stopped"
    [] cmd = "0x80" -> "PreOperational"
    [] OTHER -> cmd

apply_nmt_command(cmd) ==
  CASE cmd = "0x01" -> "Operational"
    [] cmd = "0x02" -> "Stopped"
    [] cmd = "0x80" -> "PreOperational"
    [] OTHER -> nmt

\* A frame on 0x000: resets and unknown commands are ignored, and so is a
\* frame for another node.
ReceiveNmt(cmd, forUs) ==
  /\ running
  /\ pc = "select"
  /\ Received
  /\ DTCS' = StoreOnReceive
  /\ nmt' = IF forUs THEN apply_nmt_command(cmd) ELSE nmt
  /\ pc' = "top"
  /\ UNCHANGED <<vars, ticks_due, payload, asked, framing>>

\* A frame nobody listens to, or a UDS frame without data.
ReceiveOther ==
  /\ running
  /\ pc = "select"
  /\ Received
  /\ DTCS' = StoreOnReceive
  /\ pc' = "top"
  /\ UNCHANGED <<vars, nmt, ticks_due, payload, asked, framing>>

\* Fault: the response is loaded before the request is dispatched.
DispatchAfterLoad(req, group, mask) ==
  /\ dispatch_sid(req)
  /\ DTCS' = IF req.sid = "0x14" /\ Serves(req)
             THEN WithoutGroup(StoreOnReceive, group) ELSE StoreOnReceive
  /\ payload' = IF Queues(req) THEN payload
                ELSE StoredPayload(req, mask, StoreOnReceive)
  /\ pc' = IF Frameable(payload) THEN "answer" ELSE "top"

\* The engine's part of handle_rx_frame, with the fault memory the services
\* 0x14 and 0x19 work on.  A callback that panics does not come back: the task
\* stays where it is.
DispatchRequest(req, group, mask) ==
  /\ dispatch_sid(req)
  /\ DTCS' = IF req.sid = "0x14" /\ Serves(req)
             THEN WithoutGroup(StoreOnReceive, group) ELSE StoreOnReceive
  /\ payload' = IF Queues(req) \/ ~running' THEN payload
                ELSE StoredPayload(req, mask, StoreOnReceive)
  /\ pc' = IF ~running' THEN pc ELSE IF Frameable(payload') THEN "answer" ELSE "top"

\* handle_rx_frame.
ReceiveRequest(req, functional, group, mask) ==
  /\ running
  /\ pc = "select"
  /\ req.len \in framing
  /\ Received
  /\ asked' = [sid |-> req.sid, functional |-> functional]
  /\ IF functional /\ functional_blocked(req)
     THEN /\ DTCS' = StoreOnReceive
          /\ pc' = "top"
          /\ UNCHANGED <<vars, payload>>
     ELSE DispatchRequest(req, group, mask)
  /\ UNCHANGED <<nmt, ticks_due, framing>>

\* Either::First(Err): the driver has tried to recover already.  The loop goes
\* round without a delay and select polls the frame first, so a controller that
\* reports an error every time keeps the ticker from ever being looked at.
BusError ==
  /\ running
  /\ pc = "select"
  /\ pc' = "top"
  /\ UNCHANGED <<vars, DTCS, nmt, dtc_timeout_recorded, silence,
                 ticks_due, payload, asked, framing>>

\* The response is handed to the controller, for 10 ms at most, and then the
\* reset requests are polled.  ota::take_reset_request is never true: the
\* engine queues no transfer exit.
Answer ==
  /\ running
  /\ pc = "answer"
  /\ IF reset_requested
     THEN take_reset_request /\ pc' = "reset"
     ELSE UNCHANGED vars /\ pc' = "top"
  /\ UNCHANGED <<DTCS, nmt, dtc_timeout_recorded, silence, ticks_due, payload,
                 asked, framing>>

\* The whole chip starts over; all of this state is in RAM.
Restart ==
  /\ PowerCycle
  /\ DTCS' = [i \in DtcSlots |-> EmptySlot]
  /\ pc' = "boot"
  /\ nmt' = "PreOperational"
  /\ dtc_timeout_recorded' = FALSE
  /\ silence' = 0
  /\ ticks_due' = 0
  /\ payload' = NoPayload
  /\ asked' = NothingAsked
  /\ UNCHANGED framing

\* SCB::sys_reset, 10 ms after the answer.
SysReset == running /\ pc = "reset" /\ Restart

\* Fault: a muted node does not look at the timeout.
HeartbeatWhenUnmuted ==
  /\ running
  /\ pc = "select"
  /\ ticks_due > 0
  /\ ticks_due' = ticks_due - 1
  /\ IF silence >= CAN_TIMEOUT /\ ~dtc_timeout_recorded /\ ~tx_disabled
     THEN /\ dtc_timeout_recorded' = TRUE
          /\ set_dtc(DTC_CAN_TIMEOUT, Bits)
     ELSE UNCHANGED <<dtc_timeout_recorded, DTCS>>
  /\ pc' = "top"
  /\ UNCHANGED <<vars, nmt, silence, payload, asked, framing>>

\* The ticker fires: the timeout is recorded, and unless the node is muted
\* the heartbeat goes out, which changes nothing here.
Heartbeat ==
  /\ running
  /\ pc = "select"
  /\ ticks_due > 0
  /\ ticks_due' = ticks_due - 1
  /\ IF silence >= CAN_TIMEOUT /\ ~dtc_timeout_recorded
     THEN /\ dtc_timeout_recorded' = TRUE
          /\ set_dtc(DTC_CAN_TIMEOUT, Bits)
     ELSE UNCHANGED <<dtc_timeout_recorded, DTCS>>
  /\ pc' = "top"
  /\ UNCHANGED <<vars, nmt, silence, payload, asked, framing>>

Receive ==
  \/ \E cmd \in NmtCommands, forUs \in BOOLEAN : ReceiveNmt(cmd, forUs)
  \/ ReceiveOther
  \/ \E req \in Requests, functional \in BOOLEAN,
        group \in Groups \cup {AllGroups}, mask \in SUBSET Bits :
       ReceiveRequest(req, functional, group, mask)

\* The steps the executor takes for the task on its own.
TaskStep ==
  BootUp \/ SampleClock \/ DriveQueue \/ FetchAnswer \/ Answer \/ SysReset
    \/ Heartbeat

\* One heartbeat period.
TimePasses ==
  /\ silence' = IF silence < CAN_TIMEOUT THEN silence + 1 ELSE silence
  /\ ticks_due' = IF ticks_due < MaxDue THEN ticks_due + 1 ELSE ticks_due
  /\ UNCHANGED <<vars, DTCS, pc, nmt, dtc_timeout_recorded, payload,
                 asked, framing>>

NodeNext == TaskStep \/ Receive \/ BusError \/ TimePasses \/ Restart

NodeSpec == NodeInit /\ [][NodeNext]_all_vars

\* The executor polls a task that is ready, and time goes on.  Nothing is
\* assumed of the ticker: select prefers a frame or an error to it.
NodeFairSpec == NodeSpec /\ WF_all_vars(TaskStep) /\ WF_all_vars(TimePasses)

-----------------------------------------------------------------------------
(***************************************************************************)
(* Safety.                                                                 *)
(***************************************************************************)

\* The task's flag and the fault memory agree about the bus timeout, whatever
\* a tester clears and whenever a frame arrives: while they differed, the next
\* timeout would go unrecorded, or an old one would stay for ever.
TimeoutFlagged == dtc_timeout_recorded <=> DTC_CAN_TIMEOUT \in Recorded(DTCS)

\* What is sent after a request answers that request, although one buffer is
\* shared by all of them.  The downloads are left out: an accepted one stores
\* nothing, and the answer to an earlier request goes out again.
FreshAnswer ==
  pc = "answer" /\ asked.sid \notin OtaSids => response.sid \in {asked.sid, SubSid}

\* The answer of a finished job is fetched in the same iteration as it was
\* stored: while it waits it is still the job's, and no request is taken in.
JobAnswerGoesFirst ==
  response_pending =>
    pc = "fetch" /\ response.sid = pending_sid /\ response.code \in JobAnswer

\* A broadcast can end the session it finds and relock the server, but it
\* opens no level, enters no session but the default one, mutes or unmutes
\* nothing, and arms no reset, seed or job.
BroadcastHarmless ==
  [][~asked.functional /\ asked'.functional =>
       /\ session' \in {session, Default}
       /\ security' <= security
       /\ seed_sent' => seed_sent
       /\ UNCHANGED <<tx_disabled, reset_requested, pending_queue>>]_all_vars

(***************************************************************************)
(* Liveness and refinement.                                                *)
(***************************************************************************)

\* A bus that stays silent is recorded as a fault, also by a muted node and
\* whatever errors the controller reported before, once it reports no more: a
\* controller that goes on reporting them starves the ticker.
SilenceIsRecorded ==
  \/ []<><<BusError>>_all_vars
  \/ silence = CAN_TIMEOUT ~> dtc_timeout_recorded \/ silence = 0 \/ ~running

\* The task is a user of the engine that keeps the engine's rules, and it
\* drives the pending queue as often as the engine relies on.
ImplementsEngine == FairSpec

(***************************************************************************)
(* What a test of the repository says of the node.                         *)
(***************************************************************************)

\* smoke_test.py: on the live bus the timeout monitor sets the fault, and
\* reading the faults by status then reports it.
TimeoutReported ==
  [][\A req \in Requests :
        /\ dtc_timeout_recorded
        /\ req.sid = "0x19" /\ Serves(req)
        /\ ReceiveRequest(req, FALSE, AllGroups, Bits)
        => DTC_CAN_TIMEOUT \in payload'.codes]_all_vars

=============================================================================
