--------------------------- MODULE CanNodeProofs ---------------------------
(***************************************************************************)
(* Theorems about CanNode, for every value of its constants: any set of    *)
(* requests, timers, queue length, number of record slots and of frame     *)
(* lengths.                                                                *)
(*                                                                         *)
(* The task is first shown to be a user of the engine and of the fault     *)
(* memory that keeps to their operations.  Everything proved of the two    *)
(* components then holds in the node, and what is left to show are the     *)
(* properties of the task itself.                                          *)
(***************************************************************************)
EXTENDS CanNode, UdsEngineProofs, DtcStoreProofs

-----------------------------------------------------------------------------
(***************************************************************************)
(* The engine inside the node.                                             *)
(***************************************************************************)

\* A request reaches the engine through dispatch_sid or not at all.
LEMMA ReceiveRequestStep ==
  ASSUME NEW req \in Requests, NEW functional \in BOOLEAN, NEW group, NEW mask,
         ReceiveRequest(req, functional, group, mask)
  PROVE  \/ /\ running /\ ~(functional /\ functional_blocked(req))
            /\ dispatch_sid(req) /\ DispatchRequest(req, group, mask)
         \/ UNCHANGED vars /\ DTCS' = StoreOnReceive /\ UNCHANGED payload /\ pc' = "top"
  BY DEF ReceiveRequest, DispatchRequest

\* Each step of the task, of the bus and of time is a step of the engine or
\* leaves it alone.
LEMMA EngineStep ==
  ASSUME [NodeNext]_all_vars
  PROVE  [Next]_vars
  <1>1. CASE SampleClock
    BY <1>1 DEF SampleClock, Next
  <1>2. CASE DriveQueue
    BY <1>2 DEF DriveQueue, Next
  <1>3. CASE FetchAnswer
    BY <1>3 DEF FetchAnswer, Next
  <1>4. CASE Answer
    BY <1>4 DEF Answer, Next
  <1>5. CASE Restart \/ SysReset
    BY <1>5 DEF SysReset, Restart, Next
  <1>6. CASE BootUp \/ Heartbeat \/ BusError \/ TimePasses
    BY <1>6 DEF BootUp, Heartbeat, BusError, TimePasses
  <1>7. CASE ReceiveOther \/ \E cmd \in NmtCommands, forUs \in BOOLEAN : ReceiveNmt(cmd, forUs)
    BY <1>7 DEF ReceiveOther, ReceiveNmt
  <1>8. ASSUME NEW req \in Requests, NEW functional \in BOOLEAN, NEW group, NEW mask,
               ReceiveRequest(req, functional, group, mask)
        PROVE  [Next]_vars
    BY <1>8, ReceiveRequestStep DEF Next, Dispatch
  <1>9. CASE UNCHANGED all_vars
    BY <1>9 DEF all_vars
  <1>10. QED
    BY <1>1, <1>2, <1>3, <1>4, <1>5, <1>6, <1>7, <1>8, <1>9
       DEF NodeNext, TaskStep, Receive

\* Every behaviour of the node is one of the engine: the safety half of
\* ImplementsEngine, whose fairness half is left to the model checker.
THEOREM EngineFollowed == NodeSpec => Spec
  <1>1. NodeInit => Init
    BY DEF NodeInit
  <1>2. [NodeNext]_all_vars => [Next]_vars
    BY EngineStep
  <1>3. QED
    BY <1>1, <1>2, PTL DEF NodeSpec, Spec

\* So what holds of the engine with an arbitrary user holds in the node: one
\* job at a time, with its request and its rights; no level of another
\* session, no seed used twice, no attempt too many.
THEOREM NodeServerSafe ==
  NodeSpec => [](/\ OneJobAtATime /\ JobSeesItsRequest /\ JobKeepsItsRights
                 /\ LevelFitsSession /\ SeedUsedOnce /\ AttemptsBounded)
  BY EngineFollowed, OneJobCorrect, RequestCorrect, RightsCorrect, LevelCorrect,
     SeedCorrect, AttemptsCorrect, PTL

\* And what holds of the engine's steps: no key lowers the level, and the
\* answer flagged for the transport, or the refusal a job is given up with,
\* names the job's service.
THEOREM NodeJobsSafe == NodeSpec => KeyNeverLowers /\ AnswerNamesItsJob /\ GiveUpReports
  BY EngineFollowed, KeyCorrect, AnswerCorrect, GiveUpCorrect, PTL

-----------------------------------------------------------------------------
(***************************************************************************)
(* The fault memory inside the node.                                       *)
(***************************************************************************)

\* Taking the timeout back on a received frame only empties slots.
LEMMA ReceivedStore ==
  ASSUME StoreTypeOK
  PROVE  Emptied(StoreOnReceive)
  BY CodeAssumption, WithoutShape, NothingEmptied DEF StoreOnReceive

\* A request clears at most a group on top of that.
LEMMA DispatchedStore ==
  ASSUME StoreTypeOK, NEW req, NEW group, NEW mask, DispatchRequest(req, group, mask)
  PROVE  Emptied(DTCS')
  BY ReceivedStore, EmptiedTwice DEF DispatchRequest

\* The fault memory only loses records, except that a heartbeat may set the
\* timeout.
LEMMA StoreMoves ==
  ASSUME StoreTypeOK, [NodeNext]_all_vars
  PROVE  \/ Emptied(DTCS')
         \/ Heartbeat /\ set_dtc(DTC_CAN_TIMEOUT, Bits) /\ dtc_timeout_recorded'
  <1>1. CASE UNCHANGED DTCS
    BY <1>1, NothingEmptied
  <1>2. CASE Restart \/ SysReset
    BY <1>2 DEF SysReset, Restart, Emptied
  <1>3. CASE Heartbeat
    BY <1>1, <1>3 DEF Heartbeat
  <1>4. CASE ReceiveOther \/ \E cmd \in NmtCommands, forUs \in BOOLEAN : ReceiveNmt(cmd, forUs)
    BY <1>4, ReceivedStore DEF ReceiveOther, ReceiveNmt
  <1>5. ASSUME NEW req \in Requests, NEW functional \in BOOLEAN, NEW group, NEW mask,
               ReceiveRequest(req, functional, group, mask)
        PROVE  Emptied(DTCS')
    BY <1>5, ReceiveRequestStep, ReceivedStore, DispatchedStore
  <1>6. QED
    BY <1>1, <1>2, <1>3, <1>4, <1>5
       DEF NodeNext, TaskStep, Receive, BootUp, SampleClock, DriveQueue, FetchAnswer,
           Answer, BusError, TimePasses, all_vars, node_vars

LEMMA NodeStore ==
  ASSUME RecordsInv, [NodeNext]_all_vars
  PROVE  RecordsInv'
  <1>1. CASE Emptied(DTCS')
    BY <1>1, EmptiedInv
  <1>2. CASE set_dtc(DTC_CAN_TIMEOUT, Bits)
    BY <1>2, CodeAssumption, StoreStepInv DEF StoreNext
  <1>3. QED
    BY <1>1, <1>2, StoreMoves DEF RecordsInv

-----------------------------------------------------------------------------
(***************************************************************************)
(* Type correctness.                                                       *)
(***************************************************************************)
PayloadType == [len : Nat, codes : SUBSET (Codes \cup {NoCode})]

LEMMA StoredPayloadType ==
  ASSUME NEW req, NEW mask, NEW store,
         store \in [DtcSlots -> DtcRecord \cup {EmptySlot}]
  PROVE  StoredPayload(req, mask, store) \in PayloadType
  <1>1. [len |-> ReportLen(store, mask), codes |-> Reported(store, mask)] \in PayloadType
    BY ReportType DEF PayloadType
  <1>2. \A n \in {0, 2, 3, 18} : [len |-> n, codes |-> {}] \in PayloadType
    BY DEF PayloadType
  <1>3. QED
    BY <1>1, <1>2 DEF StoredPayload, NoPayload

LEMMA DispatchRequestType ==
  ASSUME NodeTypeOK, pc = "select", NEW req, NEW group, NEW mask,
         DispatchRequest(req, group, mask)
  PROVE  pc' \in Location /\ payload' \in PayloadType
  <1>1. StoreOnReceive \in [DtcSlots -> DtcRecord \cup {EmptySlot}]
    BY ReceivedStore DEF NodeTypeOK, Emptied
  <1>2. payload' \in PayloadType
    BY <1>1, StoredPayloadType DEF DispatchRequest, NodeTypeOK, PayloadType
  <1>3. pc' \in Location
    BY DEF DispatchRequest, Location
  <1>4. QED
    BY <1>2, <1>3

LEMMA NodeTypeStep ==
  ASSUME NodeTypeOK, RecordsInv, [NodeNext]_all_vars
  PROVE  NodeTypeOK'
  <1> DEFINE TaskType == /\ pc \in Location /\ nmt \in NmtState
                         /\ dtc_timeout_recorded \in BOOLEAN
                         /\ silence \in 0..CAN_TIMEOUT /\ ticks_due \in 0..MaxDue
                         /\ payload \in PayloadType
                         /\ asked \in Asked \cup {NothingAsked} /\ framing \in Framings
  <1>1. TypeOK'
    BY EngineStep, NextType DEF NodeTypeOK
  <1>2. StoreTypeOK'
    BY NodeStore DEF RecordsInv
  <1>3. TaskType
    BY DEF NodeTypeOK, PayloadType
  <1>4. TaskType'
    <2>1. CASE BootUp \/ FetchAnswer \/ Answer \/ BusError
      BY <1>3, <2>1 DEF BootUp, FetchAnswer, Answer, BusError, Location
    <2>2. CASE SampleClock
      BY <1>3, <2>2 DEF SampleClock, Location
    <2>3. CASE DriveQueue
      <3>1. [len |-> 3, codes |-> {}] \in PayloadType
        BY DEF PayloadType
      <3>2. QED
        BY <1>3, <2>3, <3>1 DEF DriveQueue, Location
    <2>4. CASE Restart \/ SysReset
      <3>1. NoPayload \in PayloadType
        BY DEF PayloadType, NoPayload
      <3>2. 0 \in 0..CAN_TIMEOUT /\ 0 \in 0..MaxDue
        BY TimeoutAssumption
      <3>3. QED
        BY <1>3, <2>4, <3>1, <3>2 DEF SysReset, Restart, Location, NmtState
    <2>5. CASE Heartbeat
      <3>1. ticks_due' \in 0..MaxDue
        BY <1>3, <2>5, TimeoutAssumption DEF Heartbeat
      <3>2. QED
        BY <1>3, <2>5, <3>1 DEF Heartbeat, Location
    <2>6. CASE TimePasses
      <3>1. silence' \in 0..CAN_TIMEOUT /\ ticks_due' \in 0..MaxDue
        BY <1>3, <2>6, TimeoutAssumption DEF TimePasses
      <3>2. QED
        BY <1>3, <2>6, <3>1 DEF TimePasses
    <2>7. CASE ReceiveOther \/ \E cmd \in NmtCommands, forUs \in BOOLEAN : ReceiveNmt(cmd, forUs)
      <3>1. silence' \in 0..CAN_TIMEOUT
        BY <2>7, TimeoutAssumption DEF ReceiveOther, ReceiveNmt, Received
      <3>2. \A cmd : apply_nmt_command(cmd) \in NmtState
        BY <1>3 DEF apply_nmt_command, NmtState
      <3>3. QED
        BY <1>3, <2>7, <3>1, <3>2 DEF ReceiveOther, ReceiveNmt, Received, Location
    <2>8. ASSUME NEW req \in Requests, NEW functional \in BOOLEAN, NEW group, NEW mask,
                 ReceiveRequest(req, functional, group, mask)
          PROVE  TaskType'
      <3>1. silence' \in 0..CAN_TIMEOUT
        BY <2>8, TimeoutAssumption DEF ReceiveRequest, Received
      <3>2. asked' \in Asked
        BY <2>8, ResponseType DEF ReceiveRequest, Asked
      <3>3. pc' \in Location /\ payload' \in PayloadType
        BY <1>3, <2>8, DispatchRequestType, ReceiveRequestStep DEF ReceiveRequest, Location
      <3>4. QED
        BY <1>3, <2>8, <3>1, <3>2, <3>3 DEF ReceiveRequest, Received
    <2>9. CASE UNCHANGED all_vars
      BY <1>3, <2>9 DEF all_vars, node_vars
    <2>10. QED
      BY <2>1, <2>2, <2>3, <2>4, <2>5, <2>6, <2>7, <2>8, <2>9
         DEF NodeNext, TaskStep, Receive
  <1>5. QED
    BY <1>1, <1>2, <1>4 DEF NodeTypeOK, PayloadType

LEMMA NodeInitType == NodeInit => NodeTypeOK /\ RecordsInv
  <1> SUFFICES ASSUME NodeInit PROVE NodeTypeOK /\ RecordsInv
    OBVIOUS
  <1>1. TypeOK
    BY InitType DEF NodeInit
  <1>2. RecordsInv
    BY DEF NodeInit, StoreInit, RecordsInv, StoreTypeOK, OneRecordPerCode, Free
  <1>3. silence \in 0..CAN_TIMEOUT /\ ticks_due \in 0..MaxDue
    BY TimeoutAssumption DEF NodeInit
  <1>4. QED
    BY <1>1, <1>2, <1>3
       DEF NodeInit, NodeTypeOK, RecordsInv, Location, NmtState, NoPayload, NothingAsked

-----------------------------------------------------------------------------
(***************************************************************************)
(* The timeout of the bus.  TimeoutFlagged is inductive with one record    *)
(* per code: a second record would survive the clearing of the first.      *)
(***************************************************************************)

\* A received frame takes the timeout back.
LEMMA ReceivedClears ==
  ASSUME RecordsInv, TimeoutFlagged
  PROVE  DTC_CAN_TIMEOUT \notin Recorded(StoreOnReceive)
  BY CodeAssumption, ClearedIsGone DEF StoreOnReceive, TimeoutFlagged

LEMMA DispatchedClears ==
  ASSUME RecordsInv, TimeoutFlagged, NEW req, NEW group, NEW mask,
         DispatchRequest(req, group, mask)
  PROVE  DTC_CAN_TIMEOUT \notin Recorded(DTCS')
  BY ReceivedClears, GroupForgets DEF DispatchRequest

LEMMA FlaggedStep ==
  ASSUME RecordsInv, TimeoutFlagged, [NodeNext]_all_vars
  PROVE  TimeoutFlagged'
  <1>1. CASE UNCHANGED <<DTCS, dtc_timeout_recorded>>
    BY <1>1 DEF TimeoutFlagged, Recorded, Free
  <1>2. CASE Heartbeat
    <2>1. CASE set_dtc(DTC_CAN_TIMEOUT, Bits) /\ dtc_timeout_recorded'
      BY <2>1, CodeAssumption, SetIsRecorded DEF set_dtc, TimeoutFlagged, RecordsInv
    <2>2. QED
      BY <1>1, <1>2, <2>1 DEF Heartbeat
  <1>3. CASE Restart \/ SysReset
    BY <1>3 DEF SysReset, Restart, TimeoutFlagged, Recorded, Free
  <1>4. CASE ReceiveOther \/ \E cmd \in NmtCommands, forUs \in BOOLEAN : ReceiveNmt(cmd, forUs)
    BY <1>4, ReceivedClears DEF ReceiveOther, ReceiveNmt, Received, TimeoutFlagged
  <1>5. ASSUME NEW req \in Requests, NEW functional \in BOOLEAN, NEW group, NEW mask,
               ReceiveRequest(req, functional, group, mask)
        PROVE  TimeoutFlagged'
    <2>1. DTC_CAN_TIMEOUT \notin Recorded(DTCS')
      BY <1>5, ReceiveRequestStep, ReceivedClears, DispatchedClears
    <2>2. ~dtc_timeout_recorded'
      BY <1>5 DEF ReceiveRequest, Received
    <2>3. QED
      BY <2>1, <2>2 DEF TimeoutFlagged
  <1>6. QED
    BY <1>1, <1>2, <1>3, <1>4, <1>5
       DEF NodeNext, TaskStep, Receive, BootUp, SampleClock, DriveQueue, FetchAnswer,
           Answer, BusError, TimePasses, all_vars, node_vars

\* The negation of what TimeoutReported expects, and more: no report ever lists
\* the bus timeout.  The frame that asks for the report ends the silence, and
\* the fault is taken back before the frame is looked at, so the only fault this
\* firmware detects is one that no tester sees.
TimeoutNeverReported == DTC_CAN_TIMEOUT \notin payload.codes

\* A report is drawn up from a memory without the timeout.
LEMMA ReportStep ==
  ASSUME RecordsInv, TimeoutFlagged, TimeoutNeverReported, [NodeNext]_all_vars
  PROVE  TimeoutNeverReported'
  <1> USE DEF TimeoutNeverReported
  <1>1. CASE UNCHANGED payload
    BY <1>1
  <1>2. CASE DriveQueue
    BY <1>2 DEF DriveQueue
  <1>3. CASE Restart \/ SysReset
    BY <1>3 DEF SysReset, Restart, NoPayload
  <1>4. ASSUME NEW req \in Requests, NEW functional \in BOOLEAN, NEW group, NEW mask,
               ReceiveRequest(req, functional, group, mask)
        PROVE  TimeoutNeverReported'
    <2>1. DTC_CAN_TIMEOUT \notin StoredPayload(req, mask, StoreOnReceive).codes
      <3>1. DTC_CAN_TIMEOUT \notin Reported(StoreOnReceive, mask)
        BY ReceivedClears, ReportedIsRecorded
      <3>2. QED
        BY <3>1 DEF StoredPayload, NoPayload
    <2>2. QED
      BY <1>1, <1>4, <2>1, ReceiveRequestStep DEF DispatchRequest
  <1>5. QED
    BY <1>1, <1>2, <1>3, <1>4
       DEF NodeNext, TaskStep, Receive, BootUp, SampleClock, FetchAnswer, Heartbeat,
           Answer, BusError, TimePasses, ReceiveNmt, ReceiveOther, all_vars, node_vars

-----------------------------------------------------------------------------
(***************************************************************************)
(* The shared response buffer.                                             *)
(***************************************************************************)

\* Unless it queues a job or panics, a request leaves its own answer in the
\* buffer, or nothing.
LEMMA OwnAnswer ==
  ASSUME NEW req \in Requests, dispatch_sid(req), req.sid \notin OtaSids, running, running'
  PROVE  response'.code = "empty" \/ response'.sid \in {req.sid, SubSid}
  <1>1. \A code : Reply(req.sid, code).sid = req.sid
    BY DEF Reply
  <1>2. UnlockReply.sid = SubSid
    BY DEF UnlockReply, Reply
  <1>3. PositiveReply(req).code = "empty" \/ PositiveReply(req).sid = req.sid
    BY DEF PositiveReply, EmptyResponse, Reply
  <1>4. QED
    BY <1>1, <1>2, <1>3
       DEF dispatch_sid, BusyRepeatRequest, RefuseAtGate, RefuseInHandler,
           DiagnosticSessionControl, EcuReset, RequestSeed, SendKey,
           CommunicationControl, DataService, PanicInCallback, PushPending

LEMMA FreshStep ==
  ASSUME FreshAnswer, [NodeNext]_all_vars
  PROVE  FreshAnswer'
  <1> USE DEF FreshAnswer
  <1>1. CASE \/ BootUp \/ SampleClock \/ DriveQueue \/ FetchAnswer \/ Answer \/ Heartbeat
             \/ BusError \/ Restart \/ SysReset \/ ReceiveOther
             \/ \E cmd \in NmtCommands, forUs \in BOOLEAN : ReceiveNmt(cmd, forUs)
    <2>1. pc' # "answer"
      BY <1>1 DEF BootUp, SampleClock, DriveQueue, FetchAnswer, Answer, Heartbeat,
                  BusError, Restart, SysReset, ReceiveOther, ReceiveNmt
    <2>2. QED
      BY <2>1
  <1>2. CASE TimePasses \/ UNCHANGED all_vars
    BY <1>2 DEF TimePasses, all_vars, node_vars, vars
  <1>3. ASSUME NEW req \in Requests, NEW functional \in BOOLEAN, NEW group, NEW mask,
               ReceiveRequest(req, functional, group, mask),
               pc' = "answer", asked'.sid \notin OtaSids
        PROVE  response'.sid \in {asked'.sid, SubSid}
    <2>1. asked'.sid = req.sid /\ pc = "select"
      BY <1>3 DEF ReceiveRequest
    <2>2. running /\ dispatch_sid(req) /\ DispatchRequest(req, group, mask)
      BY <1>3, ReceiveRequestStep
    <2>3. running' /\ Frameable(payload')
      BY <1>3, <2>1, <2>2 DEF DispatchRequest
    <2>4. payload' = StoredPayload(req, mask, StoreOnReceive)
      BY <1>3, <2>1, <2>2, <2>3 DEF DispatchRequest, Queues
    <2>5. response'.code # "empty"
      BY <2>3, <2>4 DEF Frameable, StoredPayload, NoPayload
    <2>6. QED
      BY <1>3, <2>1, <2>2, <2>3, <2>5, OwnAnswer
  <1>4. QED
    BY <1>1, <1>2, <1>3 DEF NodeNext, TaskStep, Receive

\* No request is taken in while the answer of a job waits, because the job
\* ends at the top of an iteration and the answer is fetched right after.
LEMMA JobAnswerStep ==
  ASSUME TypeOK, JobInv, JobAnswerGoesFirst, [NodeNext]_all_vars
  PROVE  JobAnswerGoesFirst'
  <1> USE DEF JobAnswerGoesFirst
  <1>1. CASE DriveQueue
    <2>1. pc = "tick" /\ pc' = "fetch" /\ ~response_pending
      BY <1>1 DEF DriveQueue
    <2>2. ASSUME response_pending'
          PROVE  response'.sid = pending_sid' /\ response'.code \in JobAnswer
      <3>1. Tick
        BY <1>1, <2>1, <2>2 DEF DriveQueue, vars
      <3>2. PICK done \in SUBSET Occupied, code \in JobAnswer : tick(done, code)
        BY <3>1 DEF Tick
      <3>3. /\ response'.code \in JobAnswer
            /\ \E i \in Occupied : response'.sid = pending_queue[i].func
        BY <2>1, <2>2, <3>2, FlaggedByDrain, DrainedAnswer
      <3>4. pending_sid' = pending_sid
        BY <3>2 DEF tick
      <3>5. QED
        BY <3>3, <3>4 DEF JobInv, JobSeesItsRequest
    <2>3. QED
      BY <2>1, <2>2
  <1>2. CASE FetchAnswer
    BY <1>2 DEF FetchAnswer, take_response_pending, vars
  <1>3. CASE Restart \/ SysReset
    BY <1>3 DEF SysReset, Restart, PowerCycle
  <1>4. CASE TimePasses \/ UNCHANGED all_vars
    BY <1>4 DEF TimePasses, all_vars, node_vars, vars
  <1>5. CASE \/ BootUp \/ SampleClock \/ Answer \/ Heartbeat \/ BusError \/ ReceiveOther
             \/ \E cmd \in NmtCommands, forUs \in BOOLEAN : ReceiveNmt(cmd, forUs)
    <2>1. pc # "fetch" /\ response_pending' = response_pending
      BY <1>5 DEF BootUp, SampleClock, ClockTick, Answer, take_reset_request, Heartbeat,
                  BusError, ReceiveOther, ReceiveNmt, vars
    <2>2. QED
      BY <2>1
  <1>6. ASSUME NEW req \in Requests, NEW functional \in BOOLEAN, NEW group, NEW mask,
               ReceiveRequest(req, functional, group, mask)
        PROVE  ~response_pending'
    <2>1. ~response_pending
      BY <1>6 DEF ReceiveRequest
    <2>2. QED
      BY <1>6, <2>1, ReceiveRequestStep DEF dispatch_sid, vars
  <1>7. QED
    BY <1>1, <1>2, <1>3, <1>4, <1>5, <1>6 DEF NodeNext, TaskStep, Receive

-----------------------------------------------------------------------------
(***************************************************************************)
(* The frame lengths of CAN FD.                                            *)
(***************************************************************************)

\* A defect of the transport, where the tests expect a server that can be
\* unlocked: with the frame lengths of CAN FD it never is and no download
\* starts, because neither the 18 bytes of a seed response nor the 18 bytes of a
\* key request fit a frame.
LockedOverCanFd ==
  framing = FdLengths => security = Locked /\ Occupied = {}

\* A key is accepted in a request of 18 bytes only.
LEMMA KeyLength ==
  ASSUME NEW req \in Requests, SendKey(req)
  PROVE  req.len = 18
  BY DEF SendKey, Accepted, nrc_handler, nrc_0x27, EntryServices

\* Without a key request a locked server stays locked and queues no job.
LEMMA LockedDispatch ==
  ASSUME TypeOK, NEW req \in Requests, dispatch_sid(req), req.len # 18, security = Locked
  PROVE  security' = Locked /\ UNCHANGED pending_queue
  <1>1. ~SendKey(req)
    BY KeyLength
  <1>2. CASE PushPending(req)
    <2>1. nrc_gate(req) = "ok" /\ req.sid \in OtaSids
      BY <1>2 DEF PushPending, Accepted, Routed
    <2>2. security >= Sal1
      BY <2>1, OtaGate
    <2>3. QED
      BY <2>2 DEF Locked, Sal1
  <1>3. QED
    BY <1>1, <1>2
       DEF dispatch_sid, BusyRepeatRequest, RefuseAtGate, RefuseInHandler, Routed, Accepted,
           DiagnosticSessionControl, EcuReset, RequestSeed, CommunicationControl,
           DataService, PanicInCallback, access_vars, job_vars

LEMMA LockedStep ==
  ASSUME NodeTypeOK, JobInv, LockedOverCanFd, [NodeNext]_all_vars
  PROVE  LockedOverCanFd'
  <1> SUFFICES ASSUME framing = FdLengths, framing' = framing
               PROVE  security' = Locked /\ Occupied' = {}
    <2>1. framing' = framing
      BY DEF NodeNext, TaskStep, Receive, BootUp, SampleClock, DriveQueue, FetchAnswer,
             Answer, SysReset, Heartbeat, BusError, TimePasses, Restart, ReceiveNmt,
             ReceiveOther, ReceiveRequest, all_vars, node_vars
    <2>2. QED
      BY <2>1 DEF LockedOverCanFd
  <1>1. security = Locked /\ Occupied = {}
    BY DEF LockedOverCanFd
  <1>2. CASE UNCHANGED <<security, pending_queue>>
    BY <1>1, <1>2 DEF Occupied
  <1>3. CASE Restart \/ SysReset
    BY <1>3, NoJobsLeft DEF SysReset, Restart, PowerCycle
  <1>4. ASSUME NEW req \in Requests, NEW functional \in BOOLEAN, NEW group, NEW mask,
               ReceiveRequest(req, functional, group, mask)
        PROVE  security' = Locked /\ UNCHANGED pending_queue
    <2>1. req.len # 18
      BY <1>4 DEF ReceiveRequest, FdLengths
    <2>2. QED
      BY <1>1, <1>4, <2>1, ReceiveRequestStep, LockedDispatch DEF NodeTypeOK, vars
  <1>5. CASE DriveQueue
    <2>1. ~Tick
      BY <1>1 DEF Tick, tick, JobInv, OneJobAtATime
    <2>2. QED
      BY <1>2, <1>5, <2>1 DEF DriveQueue, vars
  <1>6. CASE \/ BootUp \/ SampleClock \/ FetchAnswer \/ Answer \/ Heartbeat \/ BusError
             \/ TimePasses \/ ReceiveOther \/ UNCHANGED all_vars
             \/ \E cmd \in NmtCommands, forUs \in BOOLEAN : ReceiveNmt(cmd, forUs)
    BY <1>2, <1>6
       DEF BootUp, SampleClock, ClockTick, FetchAnswer, take_response_pending, Answer,
           take_reset_request, Heartbeat, BusError, TimePasses, ReceiveOther, ReceiveNmt,
           access_vars, job_vars, vars, all_vars
  <1>7. QED
    BY <1>1, <1>3, <1>4, <1>5, <1>6 DEF NodeNext, TaskStep, Receive, Occupied

-----------------------------------------------------------------------------
(***************************************************************************)
(* The inductive invariant.  The conjuncts lean on each other: a report    *)
(* leaves the timeout out because the flag and the memory agree, they      *)
(* agree because no code has two records, and the answer of a job is its   *)
(* own because the engine runs one job at a time.                          *)
(***************************************************************************)
NodeInv ==
  /\ NodeTypeOK /\ JobInv /\ RecordsInv
  /\ TimeoutFlagged /\ TimeoutNeverReported
  /\ FreshAnswer /\ JobAnswerGoesFirst
  /\ LockedOverCanFd

LEMMA NodeInitInv == NodeInit => NodeInv
  <1> SUFFICES ASSUME NodeInit PROVE NodeInv
    OBVIOUS
  <1>1. NodeTypeOK /\ JobInv /\ RecordsInv
    BY NodeInitType, InitJob DEF NodeInit
  <1>2. TimeoutFlagged /\ TimeoutNeverReported
    BY DEF NodeInit, StoreInit, TimeoutFlagged, TimeoutNeverReported, Recorded, Free, NoPayload
  <1>3. FreshAnswer /\ JobAnswerGoesFirst
    BY DEF NodeInit, Init, FreshAnswer, JobAnswerGoesFirst
  <1>4. LockedOverCanFd
    BY DEF NodeInit, Init, LockedOverCanFd, Occupied, EmptyQueue
  <1>5. QED
    BY <1>1, <1>2, <1>3, <1>4 DEF NodeInv

LEMMA NodeStepInv == NodeInv /\ [NodeNext]_all_vars => NodeInv'
  <1> SUFFICES ASSUME NodeInv, [NodeNext]_all_vars PROVE NodeInv'
    OBVIOUS
  <1>1. NodeTypeOK /\ TypeOK /\ JobInv /\ RecordsInv
    BY DEF NodeInv, NodeTypeOK
  <1>2. NodeTypeOK' /\ RecordsInv'
    BY <1>1, NodeTypeStep, NodeStore
  <1>3. JobInv'
    BY <1>1, EngineStep, NextJob
  <1>4. TimeoutFlagged' /\ TimeoutNeverReported'
    BY <1>1, FlaggedStep, ReportStep DEF NodeInv
  <1>5. FreshAnswer' /\ JobAnswerGoesFirst'
    BY <1>1, FreshStep, JobAnswerStep DEF NodeInv
  <1>6. LockedOverCanFd'
    BY <1>1, LockedStep DEF NodeInv
  <1>7. QED
    BY <1>2, <1>3, <1>4, <1>5, <1>6 DEF NodeInv

LEMMA NodeAlways == NodeSpec => []NodeInv
  BY NodeInitInv, NodeStepInv, PTL DEF NodeSpec

-----------------------------------------------------------------------------
\* The state of the node, the engine and the fault memory has its type.
THEOREM NodeTypeCorrect == NodeSpec => []NodeTypeOK
  <1>1. NodeInv => NodeTypeOK
    BY DEF NodeInv
  <1>2. QED
    BY <1>1, NodeAlways, PTL

\* What holds of the fault memory alone holds in the node, where a reset of
\* the chip may empty it at any time: no code is recorded twice, and none that
\* stays recorded loses a status bit.
THEOREM NodeMemorySafe == NodeSpec => []OneRecordPerCode /\ StatusAccumulates
  <1>1. NodeInv => OneRecordPerCode
    BY DEF NodeInv, RecordsInv
  <1>2. NodeInv /\ [NodeNext]_all_vars => [BitsKept]_DTCS
    <2> SUFFICES ASSUME NodeInv, [NodeNext]_all_vars PROVE BitsKept
      OBVIOUS
    <2>1. CASE Emptied(DTCS')
      BY <2>1, MoveKeepsBits DEF NodeInv
    <2>2. CASE set_dtc(DTC_CAN_TIMEOUT, Bits)
      BY <2>2, CodeAssumption, MoveKeepsBits DEF NodeInv, set_dtc
    <2>3. QED
      BY <2>1, <2>2, StoreMoves DEF NodeInv, RecordsInv
  <1>3. QED
    BY <1>1, <1>2, NodeAlways, PTL DEF NodeSpec, StatusAccumulates, BitsKept

\* The task's flag and the fault memory always agree about the bus timeout,
\* whatever a tester clears and however small the memory is.
THEOREM FlagCorrect == NodeSpec => []TimeoutFlagged
  <1>1. NodeInv => TimeoutFlagged
    BY DEF NodeInv
  <1>2. QED
    BY <1>1, NodeAlways, PTL

\* No report ever lists the bus timeout: TimeoutReported fails not only in the
\* run that shows it, but for every mask, memory and order of frames.
THEOREM NeverReported == NodeSpec => []TimeoutNeverReported
  <1>1. NodeInv => TimeoutNeverReported
    BY DEF NodeInv
  <1>2. QED
    BY <1>1, NodeAlways, PTL

\* What is sent after a request other than a download answers that request,
\* for every set of requests and of frame lengths.
THEOREM AnswerFresh == NodeSpec => []FreshAnswer
  <1>1. NodeInv => FreshAnswer
    BY DEF NodeInv
  <1>2. QED
    BY <1>1, NodeAlways, PTL

\* The answer of a job is sent before the next request is taken in.
THEOREM JobAnswerFirst == NodeSpec => []JobAnswerGoesFirst
  <1>1. NodeInv => JobAnswerGoesFirst
    BY DEF NodeInv
  <1>2. QED
    BY <1>1, NodeAlways, PTL

\* With the frame lengths of CAN FD no request, of whatever content, unlocks
\* the server or starts a download: the unlock the tests perform is impossible.
THEOREM LockedCorrect == NodeSpec => []LockedOverCanFd
  <1>1. NodeInv => LockedOverCanFd
    BY DEF NodeInv
  <1>2. QED
    BY <1>1, NodeAlways, PTL

-----------------------------------------------------------------------------
(***************************************************************************)
(* Broadcasts.                                                             *)
(***************************************************************************)

\* What the filter lets through of the services that change engine state: a
\* change to the default session.
LEMMA FilteredDispatch ==
  ASSUME TypeOK, NEW req \in Requests, dispatch_sid(req), ~functional_blocked(req)
  PROVE  /\ session' \in {session, Default}
         /\ security' <= security
         /\ seed_sent' => seed_sent
         /\ UNCHANGED <<tx_disabled, reset_requested, pending_queue>>
  <1>1. security \in 0..3
    BY DEF TypeOK, SecurityLevel
  <1>2. req.sid \notin OtaSids /\ req.sid \notin {"0x11", "0x27", "0x28"}
    BY DEF functional_blocked, OtaSids
  <1>3. CASE DiagnosticSessionControl(req)
    <2>1. req.sid = "0x10" /\ req.len = 2 /\ req.sub \in Session
      BY <1>3 DEF DiagnosticSessionControl, Accepted, nrc_handler, nrc_0x10, EntryServices
    <2>2. req.sub = Default
      BY <2>1 DEF functional_blocked, Session, Default, Programming, Extended
    <2>3. QED
      BY <1>1, <1>3, <2>2 DEF DiagnosticSessionControl, Locked, job_vars, misc_vars
  <1>4. CASE UNCHANGED <<access_vars, job_vars, tx_disabled, reset_requested>>
    BY <1>1, <1>4 DEF access_vars, job_vars
  <1>5. ~(EcuReset(req) \/ RequestSeed(req) \/ SendKey(req)
          \/ CommunicationControl(req) \/ PushPending(req))
    BY <1>2 DEF EcuReset, RequestSeed, SendKey, CommunicationControl, PushPending
  <1>6. QED
    BY <1>3, <1>4, <1>5
       DEF dispatch_sid, BusyRepeatRequest, RefuseAtGate, RefuseInHandler, DataService,
           PanicInCallback, misc_vars

\* A broadcast opens no level, enters no session but the default one, and
\* arms neither a reset nor a seed nor a job.
THEOREM BroadcastCorrect == NodeSpec => BroadcastHarmless
  <1> DEFINE Harmless == /\ session' \in {session, Default}
                         /\ security' <= security
                         /\ seed_sent' => seed_sent
                         /\ UNCHANGED <<tx_disabled, reset_requested, pending_queue>>
  <1>1. ASSUME NodeInv, [NodeNext]_all_vars, ~asked.functional, asked'.functional
        PROVE  Harmless
    <2>1. security \in 0..3 /\ TypeOK
      BY <1>1 DEF NodeInv, NodeTypeOK, TypeOK, SecurityLevel
    <2>2. PICK req \in Requests, functional \in BOOLEAN,
               group \in Groups \cup {AllGroups}, mask \in SUBSET Bits :
            ReceiveRequest(req, functional, group, mask)
      BY <1>1 DEF NodeNext, TaskStep, Receive, BootUp, SampleClock, DriveQueue, FetchAnswer,
                  Answer, SysReset, Heartbeat, BusError, TimePasses, Restart, ReceiveNmt,
                  ReceiveOther, NothingAsked, all_vars, node_vars
    <2>3. functional
      BY <1>1, <2>2 DEF ReceiveRequest
    <2>4. CASE UNCHANGED vars
      BY <2>1, <2>4 DEF vars
    <2>5. QED
      BY <2>1, <2>2, <2>3, <2>4, ReceiveRequestStep, FilteredDispatch
  <1>2. ASSUME NodeInv, [NodeNext]_all_vars
        PROVE  [~asked.functional /\ asked'.functional => Harmless]_all_vars
    BY <1>1, <1>2
  <1>3. QED
    BY <1>2, NodeAlways, PTL DEF NodeSpec, BroadcastHarmless

-----------------------------------------------------------------------------
(***************************************************************************)
(* The reset a tester asks for.                                            *)
(***************************************************************************)

\* table.rs, of RESET_REQUESTED: "Polled by the transport task after the
\* response has gone out".  So the chip is reset behind the answer to the
\* request for it, and never behind the answer to another request.
ResetBehindItsAnswer == pc = "reset" => asked.sid = "0x11"

\* A reset is armed only while the task hands over the answer to the request
\* for it.
ResetInv ==
  /\ reset_requested => pc = "answer" /\ asked.sid = "0x11"
  /\ ResetBehindItsAnswer

\* A request that arms a reset and does not suppress the answer is answered
\* with two bytes.
LEMMA ArmedIsAnswered ==
  ASSUME NEW req \in Requests, NEW group, NEW mask, DispatchRequest(req, group, mask),
         running, ~reset_requested, reset_requested',
         req.suppress = FALSE, 2 \in framing
  PROVE  req.sid = "0x11" /\ pc' = "answer"
  <1>1. EcuReset(req)
    BY DEF DispatchRequest, dispatch_sid, BusyRepeatRequest, RefuseAtGate, RefuseInHandler,
           DiagnosticSessionControl, RequestSeed, SendKey, CommunicationControl, DataService,
           PanicInCallback, PushPending, misc_vars
  <1>2. req.sid = "0x11" /\ running' /\ response'.code = "positive"
    BY <1>1 DEF EcuReset, PositiveReply, Reply
  <1>3. ~Queues(req) /\ ~IsSeed(req)
    BY <1>2 DEF Queues, IsSeed, OtaSids
  <1>4. payload' = [len |-> 2, codes |-> {}]
    BY <1>2, <1>3 DEF DispatchRequest, StoredPayload
  <1>5. QED
    BY <1>2, <1>4 DEF DispatchRequest, Frameable

LEMMA ResetStep ==
  ASSUME ResetInv, [NodeNext]_all_vars, 2 \in framing,
         \A req \in Requests : req.sid = "0x11" => req.suppress = FALSE
  PROVE  ResetInv'
  <1> USE DEF ResetInv, ResetBehindItsAnswer
  <1>1. CASE Answer
    BY <1>1 DEF Answer, take_reset_request, vars
  <1>2. CASE Restart \/ SysReset
    BY <1>2 DEF SysReset, Restart, PowerCycle
  <1>3. CASE TimePasses \/ UNCHANGED all_vars
    BY <1>3 DEF TimePasses, all_vars, node_vars, vars
  <1>4. CASE \/ BootUp \/ SampleClock \/ FetchAnswer \/ Heartbeat \/ BusError \/ ReceiveOther
             \/ \E cmd \in NmtCommands, forUs \in BOOLEAN : ReceiveNmt(cmd, forUs)
    <2>1. pc # "answer" /\ pc' # "reset" /\ reset_requested' = reset_requested
      BY <1>4 DEF BootUp, SampleClock, ClockTick, FetchAnswer, take_response_pending,
                  Heartbeat, BusError, ReceiveOther, ReceiveNmt, vars, misc_vars
    <2>2. QED
      BY <2>1
  <1>5. CASE DriveQueue
    <2>1. pc # "answer" /\ pc' # "reset" /\ reset_requested' = reset_requested
      BY <1>5 DEF DriveQueue, Tick, tick, misc_vars, vars
    <2>2. QED
      BY <2>1
  <1>6. ASSUME NEW req \in Requests, NEW functional \in BOOLEAN, NEW group, NEW mask,
               ReceiveRequest(req, functional, group, mask)
        PROVE  ResetInv'
    <2>1. running /\ ~reset_requested /\ pc' # "reset" /\ asked'.sid = req.sid
      BY <1>6 DEF ReceiveRequest, DispatchRequest
    <2>2. CASE UNCHANGED vars
      BY <2>1, <2>2 DEF vars
    <2>3. ASSUME DispatchRequest(req, group, mask), reset_requested'
          PROVE  req.sid = "0x11" /\ pc' = "answer"
      <3>1. req.sid = "0x11"
        BY <2>1, <2>3
           DEF DispatchRequest, dispatch_sid, BusyRepeatRequest, RefuseAtGate,
               RefuseInHandler, DiagnosticSessionControl, EcuReset, RequestSeed, SendKey,
               CommunicationControl, DataService, PanicInCallback, PushPending, misc_vars
      <3>2. QED
        BY <2>1, <2>3, <3>1, ArmedIsAnswered
    <2>4. QED
      BY <1>6, <2>1, <2>2, <2>3, ReceiveRequestStep
  <1>7. QED
    BY <1>1, <1>2, <1>3, <1>4, <1>5, <1>6 DEF NodeNext, TaskStep, Receive

\* With testers that want their answer, and frames that carry it, the chip is
\* reset behind the answer to the request for it.  A reset whose answer is
\* suppressed stays armed and strikes behind the next answer to anything.
THEOREM ResetCorrect ==
  ASSUME \A req \in Requests : req.sid = "0x11" => req.suppress = FALSE,
         \A lengths \in Framings : 2 \in lengths
  PROVE  NodeSpec => []ResetBehindItsAnswer
  <1>1. NodeInit => ResetInv
    BY DEF NodeInit, Init, ResetInv, ResetBehindItsAnswer
  <1>2. NodeTypeOK /\ ResetInv /\ [NodeNext]_all_vars => ResetInv'
    BY ResetStep DEF NodeTypeOK
  <1>3. ResetInv => ResetBehindItsAnswer
    BY DEF ResetInv
  <1>4. QED
    BY <1>1, <1>2, <1>3, NodeTypeCorrect, PTL DEF NodeSpec

=============================================================================
