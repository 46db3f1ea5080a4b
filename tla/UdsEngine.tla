----------------------------- MODULE UdsEngine -----------------------------
(***************************************************************************)
(* The UDS engine: the request dispatcher UdsConfig::dispatch_sid with its *)
(* handlers (uds-core/src/table.rs), the pending queue and its timers      *)
(* (uds-core/src/pending.rs) and the state they share                      *)
(* (uds-core/src/state.rs).                                                *)
(*                                                                         *)
(* A request that needs a long job (0x34, 0x36, 0x37) pushes a             *)
(* continuation on the pending queue and is answered from a later tick;    *)
(* every other request is answered before dispatch_sid returns, unless a   *)
(* callback panics.  The continuation reads the request again from         *)
(* request_buf when it runs, and the two sides share one response buffer.  *)
(*                                                                         *)
(* The DTC records behind 0x14 and 0x19 and the OTA handlers behind the    *)
(* continuations are other components; here a continuation is the choice   *)
(* of whether it completes and which answer it stores.                     *)
(***************************************************************************)
EXTENDS UdsProtocol

CONSTANTS
  Requests,      \* the requests a tester may send (a set of Request records)
  Payloads,      \* what the data bytes of a request can be
  QueueSize,     \* PENDING_QUEUE_SIZE
  P2,            \* UdsConfig::p2_server_ms
  P2Star,        \* UdsConfig::request_timeout_ms
  SaMax,         \* UdsConfig::sa_max_attempts
  ClockMod,      \* the u32 millisecond clock wraps to 0 at this value
  MaxSeeds,      \* bound on the seeds taken from one generator
  StallSids      \* the services whose continuation may return without completing

Key == (0..3) \X Seed

Request == [sid : Sid, len : Nat \ {0}, sub : Nat, suppress : BOOLEAN,
            key : Key, data : Payloads]

ASSUME QueueAssumption == QueueSize \in Nat \ {0}
ASSUME TimerAssumption == /\ P2 \in Nat \ {0}
                          /\ P2Star \in Nat
                          /\ ClockMod \in Nat \ {0}
\* A u8; 0 would switch the lockout off and is not configured.
ASSUME AttemptAssumption == SaMax \in 1..255
ASSUME SeedAssumption == MaxSeeds \in Nat
ASSUME RequestAssumption == Requests \subseteq Request
ASSUME StallAssumption == StallSids \subseteq OtaSids

VARIABLES
  \* UdsState, the part 0x10 and 0x27 work on
  session, security, seed_sent, current_seed, sa_fail_count,
  \* UdsState and UdsConfig::pending_queue, the part the queue works on
  state, request_buf, pending_sid, request_tick_ms, response_pending,
  pending_queue,
  \* the rest of UdsState, the response buffer, and RESET_REQUESTED
  tx_disabled, response, reset_requested,
  \* FALSE once a panic has stopped the chip
  running,
  \* the millisecond clock
  now_ms,
  \* how many seeds each generator has given: the random one in all, and the
  \* counter of fallback_seed, a static in RAM
  seeds_given,
  \* history: the seeds a received key was compared against since the boot
  spent

access_vars == <<session, security, seed_sent, current_seed, sa_fail_count,
                 seeds_given, spent>>
job_vars == <<state, pending_sid, pending_queue>>
misc_vars == <<tx_disabled, reset_requested, running>>
clock_vars == <<now_ms>>
vars == <<session, security, seed_sent, current_seed, sa_fail_count,
          state, request_buf, pending_sid, request_tick_ms, response_pending,
          pending_queue, tx_disabled, response, reset_requested, running,
          now_ms, seeds_given, spent>>

Slots == 1..QueueSize

\* What a continuation can read back of the request.
Kept(req) == [sid |-> req.sid, data |-> req.data]
KeptRequest == [sid : Sid \cup {NoSid}, data : Payloads \cup {NoSid}]
NothingKept == [sid |-> NoSid, data |-> NoSid]

(***************************************************************************)
(* A queued continuation.  Its function pointer is named by the service    *)
(* that pushed it; the history fields "asked" and "since" are the request  *)
(* it was pushed for and the time.  An empty slot holds NoJob.             *)
(***************************************************************************)
Job == [func : OtaSids, asked : KeptRequest, since : Nat]
NoJob == [func |-> NoSid, asked |-> NothingKept, since |-> 0]
Occupied == {i \in Slots : pending_queue[i] # NoJob}
EmptyQueue == [i \in Slots |-> NoJob]

TypeOK ==
  /\ session \in Session
  /\ security \in SecurityLevel
  /\ seed_sent \in BOOLEAN
  /\ current_seed \in Seed
  /\ sa_fail_count \in Nat
  /\ state \in SrvState
  /\ request_buf \in KeptRequest
  /\ pending_sid \in OtaSids \cup {NoSid}
  /\ request_tick_ms \in 0..(ClockMod - 1)
  /\ response_pending \in BOOLEAN
  /\ pending_queue \in [Slots -> Job \cup {NoJob}]
  /\ tx_disabled \in BOOLEAN
  /\ response \in Response
  /\ reset_requested \in BOOLEAN
  /\ running \in BOOLEAN
  /\ now_ms \in 0..(ClockMod - 1)
  /\ seeds_given \in [Generator -> 0..MaxSeeds]
  /\ spent \subseteq Seed

\* UdsState::zeroed(), an empty queue and an empty response buffer.
Init ==
  /\ session = Default
  /\ security = Locked
  /\ seed_sent = FALSE
  /\ current_seed = ZeroSeed
  /\ sa_fail_count = 0
  /\ state = "Idle"
  /\ request_buf = NothingKept
  /\ pending_sid = NoSid
  /\ request_tick_ms = 0
  /\ response_pending = FALSE
  /\ pending_queue = EmptyQueue
  /\ tx_disabled = FALSE
  /\ response = EmptyResponse
  /\ reset_requested = FALSE
  /\ running = TRUE
  /\ now_ms = 0
  /\ seeds_given = [g \in Generator |-> 0]
  /\ spent = {}

-----------------------------------------------------------------------------
(***************************************************************************)
(* The refusals.  Each operator lists the early returns of one handler in  *)
(* the order the code makes them and is "ok" when the handler goes on; a   *)
(* refused request changes nothing but the response.                       *)
(***************************************************************************)

nrc_gate(req) ==
  IF req.sid \notin Services THEN "0x11"
  ELSE IF ~session_allowed(session, service_session(req.sid)) THEN "0x7F"
  ELSE IF ~security_allowed(security, service_security(req.sid)) THEN "0x33"
  ELSE "ok"

\* Fault: the sub-function need not name a session.
nrc_0x10_any_session(req) ==
  IF req.len # 2 THEN "0x13"
  ELSE IF req.sub > Programming /\ security < Sal1 THEN "0x33"
  ELSE "ok"

nrc_0x10(req) ==
  IF req.len # 2 THEN "0x13"
  ELSE IF req.sub \notin Session THEN "0x12"
  ELSE IF req.sub # Default /\ security < Sal1 THEN "0x33"
  ELSE "ok"

nrc_0x11(req) ==
  IF req.len # 2 THEN "0x13"
  ELSE IF req.sub \notin {1, 3} THEN "0x12"
  ELSE "ok"

\* Fault: one attempt too many before the lockout.
nrc_0x27_off_by_one(req) ==
  IF sa_fail_count > SaMax THEN "0x36"
  ELSE IF req.len < 2 THEN "0x13"
  ELSE IF ~sa_subfunc_known(req) THEN "0x12"
  ELSE IF ~sal_session_allowed(sal_of(req), session) THEN "0x7E"
  ELSE IF is_request_seed(req) THEN "ok"
  ELSE IF ~seed_sent THEN "0x24"
  ELSE IF req.len # 18 THEN "0x13"
  ELSE "ok"

nrc_0x27(req) ==
  IF sa_fail_count >= SaMax THEN "0x36"
  ELSE IF req.len < 2 THEN "0x13"
  ELSE IF ~sa_subfunc_known(req) THEN "0x12"
  ELSE IF ~sal_session_allowed(sal_of(req), session) THEN "0x7E"
  ELSE IF is_request_seed(req) THEN "ok"
  ELSE IF ~seed_sent THEN "0x24"
  ELSE IF req.len # 18 THEN "0x13"
  ELSE "ok"

nrc_0x28(req) ==
  IF req.len # 3 THEN "0x13"
  ELSE IF req.sub \notin 0..3 THEN "0x12"
  ELSE "ok"

nrc_0x3E(req) ==
  IF req.len # 2 THEN "0x13"
  ELSE IF req.sub # 0 THEN "0x12"
  ELSE "ok"

\* 0x14 and 0x19; the records they work on are in the Dtc component.
nrc_dtc(req) ==
  IF req.sid = "0x14"
  THEN IF req.len # 4 THEN "0x13" ELSE "ok"
  ELSE IF req.len < 3 THEN "0x13"
       ELSE IF req.sub # 2 \/ req.suppress THEN "0x12"
       ELSE "ok"

\* 0x22, 0x2E and 0x31: find the entry, then check its own access rights.
nrc_entry(req) ==
  IF \/ req.sid = "0x22" /\ req.len # 3
     \/ req.sid = "0x2E" /\ req.len < 3
     \/ req.sid = "0x31" /\ req.len < 4 THEN "0x13"
  ELSE IF req.sub # KnownEntry THEN "0x31"
  ELSE IF ~session_allowed(session, entry_session(req.sid))
       THEN IF req.sid = "0x31" THEN "0x7E" ELSE "0x7F"
  ELSE IF ~security_allowed(security, entry_security(req.sid)) THEN "0x33"
  ELSE "ok"

\* 0x37 asks for an empty request although req starts at the identifier.
nrc_ota(req) ==
  IF req.sid = "0x34" /\ (req.len # 6 \/ req.sub # 0 \/ req.suppress)
  THEN "0x31"
  ELSE IF req.sid = "0x36" /\ req.len # 4 THEN "0x13"
  ELSE IF req.sid = "0x37" /\ req.len # 0 THEN "0x13"
  ELSE "ok"

nrc_handler(req) ==
  CASE req.sid = "0x10" -> nrc_0x10(req)
    [] req.sid = "0x11" -> nrc_0x11(req)
    [] req.sid = "0x27" -> nrc_0x27(req)
    [] req.sid = "0x28" -> nrc_0x28(req)
    [] req.sid = "0x3E" -> nrc_0x3E(req)
    [] req.sid \in {"0x14", "0x19"} -> nrc_dtc(req)
    [] req.sid \in EntryServices -> nrc_entry(req)
    [] OTHER -> nrc_ota(req)

-----------------------------------------------------------------------------
(***************************************************************************)
(* dispatch_sid.  The time stamp is taken before anything else is checked. *)
(***************************************************************************)

\* Fault: the request is copied before the busy guard.
BusyAfterCopy(req) ==
  /\ state = "Pending"
  /\ response' = Reply(req.sid, "0x21")
  /\ request_buf' = Kept(req)
  /\ UNCHANGED <<access_vars, job_vars, misc_vars>>

\* While a continuation is in flight every request is turned away, and
\* request_buf keeps the request the continuation will read.
BusyRepeatRequest(req) ==
  /\ state = "Pending"
  /\ response' = Reply(req.sid, "0x21")
  /\ UNCHANGED <<access_vars, job_vars, misc_vars, request_buf>>

\* Unknown service, wrong session, not unlocked: request_buf is not written.
RefuseAtGate(req) ==
  /\ state = "Idle"
  /\ nrc_gate(req) # "ok"
  /\ response' = Reply(req.sid, nrc_gate(req))
  /\ UNCHANGED <<access_vars, job_vars, misc_vars, request_buf>>

\* Fault: no busy guard, or one that looks at the download services only.
RoutedWhileBusy(req) ==
  /\ nrc_gate(req) = "ok"
  /\ request_buf' = Kept(req)

RoutedBesideJob(req) ==
  /\ state = "Idle" \/ req.sid \notin OtaSids
  /\ nrc_gate(req) = "ok"
  /\ request_buf' = Kept(req)

\* The request passes the gates and is copied for the continuations.
Routed(req) ==
  /\ state = "Idle"
  /\ nrc_gate(req) = "ok"
  /\ request_buf' = Kept(req)

Accepted(req) == Routed(req) /\ nrc_handler(req) = "ok"

RefuseInHandler(req) ==
  /\ Routed(req)
  /\ nrc_handler(req) # "ok"
  /\ response' = Reply(req.sid, nrc_handler(req))
  /\ UNCHANGED <<access_vars, job_vars, misc_vars>>

\* Fault: a session change that leaves the level open.
SessionWithoutRelock(req) ==
  /\ req.sid = "0x10"
  /\ Accepted(req)
  /\ session' = req.sub
  /\ seed_sent' = FALSE
  /\ sa_fail_count' = 0
  /\ response' = PositiveReply(req)
  /\ UNCHANGED <<security, current_seed, seeds_given, spent, job_vars, misc_vars>>

\* 0x10: a session change locks the server again.
DiagnosticSessionControl(req) ==
  /\ req.sid = "0x10"
  /\ Accepted(req)
  /\ session' = req.sub
  /\ security' = Locked
  /\ seed_sent' = FALSE
  /\ sa_fail_count' = 0
  /\ response' = PositiveReply(req)
  /\ UNCHANGED <<current_seed, seeds_given, spent, job_vars, misc_vars>>

\* 0x11: the reset itself is left to whoever polls RESET_REQUESTED.
EcuReset(req) ==
  /\ req.sid = "0x11"
  /\ Accepted(req)
  /\ sa_fail_count' = 0
  /\ reset_requested' = TRUE
  /\ response' = PositiveReply(req)
  /\ UNCHANGED <<session, security, seed_sent, current_seed, seeds_given, spent,
                 job_vars, tx_disabled, running>>

\* generate_seed: random, or the next value of the fallback counter when the
\* random number generator does not answer in time.
generate_seed ==
  \E g \in Generator :
     /\ seeds_given[g] < MaxSeeds
     /\ current_seed' = <<g, seeds_given[g]>>
     /\ seeds_given' = [seeds_given EXCEPT ![g] = @ + 1]

\* 0x27, odd sub-function.  A level that is open already is answered with
\* the zero seed and no seed is outstanding; otherwise a new seed replaces
\* the current one.
RequestSeed(req) ==
  /\ req.sid = "0x27"
  /\ Accepted(req)
  /\ is_request_seed(req)
  /\ response' = UnlockReply
  /\ IF security >= sal_of(req)
     THEN UNCHANGED <<seeds_given, current_seed, seed_sent>>
     ELSE generate_seed /\ seed_sent' = TRUE
  /\ UNCHANGED <<session, security, sa_fail_count, spent, job_vars, misc_vars>>

\* Fault: a wrong key leaves its seed outstanding.
SendKeyKeepsSeed(req) ==
  /\ req.sid = "0x27"
  /\ Accepted(req)
  /\ ~is_request_seed(req)
  /\ req.key # KeyOf(sal_of(req), current_seed)
  /\ spent' = spent \cup {current_seed}
  /\ sa_fail_count' = sa_fail_count + 1
  /\ response' = Reply(req.sid, "0x35")
  /\ UNCHANGED <<session, security, seed_sent, current_seed, seeds_given,
                 job_vars, misc_vars>>

\* Fault: a right key leaves its seed outstanding.
SendKeyTwice(req) ==
  /\ req.sid = "0x27"
  /\ Accepted(req)
  /\ ~is_request_seed(req)
  /\ req.key = KeyOf(sal_of(req), current_seed)
  /\ security' = sal_of(req)
  /\ sa_fail_count' = 0
  /\ response' = UnlockReply
  /\ UNCHANGED <<session, seed_sent, current_seed, seeds_given, spent,
                 job_vars, misc_vars>>

\* 0x27, even sub-function: the outstanding seed is used up whether or not
\* the key is right.
SendKey(req) ==
  /\ req.sid = "0x27"
  /\ Accepted(req)
  /\ ~is_request_seed(req)
  /\ seed_sent' = FALSE
  /\ spent' = spent \cup {current_seed}
  /\ IF req.key = KeyOf(sal_of(req), current_seed)
     THEN /\ security' = sal_of(req)
          /\ sa_fail_count' = 0
          /\ response' = UnlockReply
     ELSE /\ security' = security
          /\ sa_fail_count' = sa_fail_count + 1
          /\ response' = Reply(req.sid, "0x35")
  /\ UNCHANGED <<session, current_seed, seeds_given, job_vars, misc_vars>>

\* 0x28: sub-functions 1 and 3 mute the node, 0 unmutes it, 2 is advisory.
CommunicationControl(req) ==
  /\ req.sid = "0x28"
  /\ Accepted(req)
  /\ tx_disabled' = CASE req.sub = 0 -> FALSE
                      [] req.sub \in {1, 3} -> TRUE
                      [] OTHER -> tx_disabled
  /\ response' = PositiveReply(req)
  /\ UNCHANGED <<access_vars, job_vars, reset_requested, running>>

\* 0x14, 0x19, 0x2E, 0x31 and 0x3E touch no engine state.  The 0x2E callback
\* wants 48 bytes of masks, none of them all zero: what is left to it here is
\* to refuse them with a code of its own.
DataService(req) ==
  /\ req.sid \in {"0x14", "0x19", "0x2E", "0x31", "0x3E"}
  /\ Accepted(req)
  /\ response' = CASE req.sid = "0x2E" ->
                        Reply(req.sid, IF req.len = MaskedLen THEN "0x31" ELSE "0x13")
                   [] req.sid \in {"0x31", "0x3E"} -> PositiveReply(req)
                   [] OTHER -> Reply(req.sid, "positive")
  /\ UNCHANGED <<access_vars, job_vars, misc_vars>>

(***************************************************************************)
(* The callbacks of the DIDs 0xF186 and 0xF180 borrow UDS_STATE and        *)
(* UDS_CONFIG a second time, inside dispatch, which holds both of them     *)
(* mutably: RefCell panics, and the panic handler is an undefined          *)
(* instruction with interrupts masked.  0x22 gets there with every request *)
(* for its DID, 0x2E with masks that pass the checks of the callback.      *)
(***************************************************************************)
PanicInCallback(req) ==
  /\ \/ req.sid = "0x22"
     \/ req.sid = "0x2E" /\ req.len = MaskedLen
  /\ Accepted(req)
  /\ running' = FALSE
  /\ UNCHANGED <<access_vars, job_vars, tx_disabled, reset_requested, response>>

(***************************************************************************)
(* push_pending, from 0x34, 0x36 and 0x37.  Nothing is stored in the       *)
(* response buffer when the continuation finds a slot: its answer is       *)
(* stored by a later tick.                                                 *)
(***************************************************************************)
PushPending(req) ==
  /\ req.sid \in OtaSids
  /\ Accepted(req)
  /\ IF Occupied = Slots
     THEN /\ response' = Reply(req.sid, "0x22")
          /\ UNCHANGED job_vars
     ELSE LET free == CHOOSE i \in Slots \ Occupied :
                        \A j \in Slots \ Occupied : i <= j
          IN /\ pending_queue' = [pending_queue EXCEPT
                    ![free] = [func |-> req.sid, asked |-> Kept(req),
                               since |-> now_ms]]
             /\ pending_sid' = req.sid
             /\ state' = "Pending"
             /\ UNCHANGED response
  /\ UNCHANGED <<access_vars, misc_vars>>

dispatch_sid(req) ==
  /\ request_tick_ms' = now_ms
  /\ UNCHANGED <<response_pending, clock_vars>>
  /\ \/ BusyRepeatRequest(req)
     \/ RefuseAtGate(req)
     \/ RefuseInHandler(req)
     \/ DiagnosticSessionControl(req)
     \/ EcuReset(req)
     \/ RequestSeed(req)
     \/ SendKey(req)
     \/ CommunicationControl(req)
     \/ DataService(req)
     \/ PanicInCallback(req)
     \/ PushPending(req)

-----------------------------------------------------------------------------
(***************************************************************************)
(* pending::tick.  Every queued continuation runs once; those in done      *)
(* complete, the last of them having stored an answer with the given code. *)
(* The queue is then put back without them.  As long as the server stays   *)
(* Pending two timers are looked at in this order: P2, which stores a 0x78 *)
(* response and restamps the request, and P2*, which gives up.             *)
(***************************************************************************)
PutBack(done) == [i \in Slots |-> IF i \in done THEN NoJob ELSE pending_queue[i]]

Drained(done) == done # {} /\ PutBack(done) = EmptyQueue

P2Elapsed == Elapsed(now_ms, request_tick_ms) >= P2
StampAfterP2 == IF P2Elapsed THEN now_ms ELSE request_tick_ms
P2StarElapsed == Elapsed(now_ms, StampAfterP2) >= P2Star

\* What the response buffer holds once the continuations have run.
JobResponse(done, code) ==
  IF done = {} THEN response
  ELSE LET last == CHOOSE i \in done : \A j \in done : j <= i
       IN Reply(pending_queue[last].func, code)

\* pending_sid names the request in 0x78 and 0x72; 0 means there is none.
PendingNotice(otherwise, code) ==
  IF pending_sid = NoSid THEN otherwise ELSE Reply(pending_sid, code)

\* Faults: a queue that drains without the state following it, and a P2 check
\* that does not stop at a drained queue.
FinishStaysPending(done, code) ==
  /\ Drained(done)
  /\ pending_queue' = EmptyQueue
  /\ response_pending' = TRUE
  /\ response' = JobResponse(done, code)
  /\ UNCHANGED <<request_tick_ms, state>>

FinishThenNotice(done, code) ==
  /\ Drained(done)
  /\ pending_queue' = EmptyQueue
  /\ state' = "Idle"
  /\ response_pending' = TRUE
  /\ response' = IF P2Elapsed THEN PendingNotice(response, "0x78")
                 ELSE JobResponse(done, code)
  /\ UNCHANGED request_tick_ms

\* The last continuation completes and the server accepts requests again.
FinishJobs(done, code) ==
  /\ Drained(done)
  /\ pending_queue' = EmptyQueue
  /\ state' = "Idle"
  /\ response_pending' = TRUE
  /\ response' = JobResponse(done, code)
  /\ UNCHANGED request_tick_ms

\* Some continuation is left: announce a delay when P2 has passed.
KeepWaiting(done, code) ==
  /\ ~Drained(done)
  /\ ~P2StarElapsed
  /\ pending_queue' = PutBack(done)
  /\ response_pending' = (response_pending \/ done # {})
  /\ response' = IF P2Elapsed
                 THEN PendingNotice(JobResponse(done, code), "0x78")
                 ELSE JobResponse(done, code)
  /\ request_tick_ms' = StampAfterP2
  /\ UNCHANGED state

\* Fault: the queue is emptied and nobody is told.
GiveUpSilently(done, code) ==
  /\ ~Drained(done)
  /\ P2StarElapsed
  /\ pending_queue' = EmptyQueue
  /\ state' = "Idle"
  /\ response_pending' = (response_pending \/ done # {})
  /\ response' = JobResponse(done, code)
  /\ request_tick_ms' = now_ms

\* Some continuation is left and P2* has passed: empty the queue.
GiveUp(done, code) ==
  /\ ~Drained(done)
  /\ P2StarElapsed
  /\ pending_queue' = EmptyQueue
  /\ state' = "Idle"
  /\ response_pending' = (response_pending \/ done # {})
  /\ response' = PendingNotice(JobResponse(done, code), "0x72")
  /\ request_tick_ms' = now_ms

tick(done, code) ==
  /\ state = "Pending"
  /\ \/ FinishJobs(done, code)
     \/ KeepWaiting(done, code)
     \/ GiveUp(done, code)
  /\ UNCHANGED <<access_vars, misc_vars, clock_vars, request_buf, pending_sid>>

\* The answers the OTA handlers can store (src/ota/mod.rs).
JobAnswer == {"positive", "0x13", "0x22", "0x31", "0x72", "0x73"}

\* The registered continuations always complete on their first run; StallSids
\* are services with one that needs several ticks, which the queue is built for.
Tick ==
  /\ running
  /\ \E done \in SUBSET Occupied, code \in JobAnswer :
       /\ \A i \in Occupied \ done : pending_queue[i].func \in StallSids
       /\ tick(done, code)

-----------------------------------------------------------------------------
(***************************************************************************)
(* The rest of the engine's surface, and its surroundings.                 *)
(***************************************************************************)

\* uds::take_response_pending: the transport fetches the stored answer.
take_response_pending ==
  /\ running
  /\ response_pending
  /\ response_pending' = FALSE
  /\ UNCHANGED <<access_vars, job_vars, misc_vars, clock_vars, request_buf,
                 request_tick_ms, response>>

\* table::take_reset_request: the transport fetches the reset request.
take_reset_request ==
  /\ running
  /\ reset_requested
  /\ reset_requested' = FALSE
  /\ UNCHANGED <<access_vars, job_vars, clock_vars, request_buf,
                 request_tick_ms, response_pending, tx_disabled, running,
                 response>>

\* Instant::now().as_millis() as u32, sampled after any length of time.
ClockTick ==
  /\ now_ms' \in 0..(ClockMod - 1)
  /\ UNCHANGED <<access_vars, job_vars, misc_vars, request_buf,
                 request_tick_ms, response_pending, response>>

\* A reset of the chip, by hand or by the watchdog.  All of the state is in
\* RAM and starts over, the fallback counter with it: after a reset it gives
\* the same seeds again.  Random seeds go on being new ones.
PowerCycle ==
  /\ session' = Default
  /\ security' = Locked
  /\ seed_sent' = FALSE
  /\ current_seed' = ZeroSeed
  /\ sa_fail_count' = 0
  /\ state' = "Idle"
  /\ request_buf' = NothingKept
  /\ pending_sid' = NoSid
  /\ request_tick_ms' = 0
  /\ response_pending' = FALSE
  /\ pending_queue' = EmptyQueue
  /\ tx_disabled' = FALSE
  /\ response' = EmptyResponse
  /\ reset_requested' = FALSE
  /\ running' = TRUE
  /\ now_ms' = 0
  /\ seeds_given' = [seeds_given EXCEPT !["fallback"] = 0]
  /\ spent' = {}

Dispatch == running /\ \E req \in Requests : dispatch_sid(req)

Next ==
  \/ ClockTick
  \/ take_response_pending
  \/ take_reset_request
  \/ PowerCycle
  \/ Tick
  \/ Dispatch

Spec == Init /\ [][Next]_vars

\* canopen_task drives the queue at the top of every iteration of its loop.
Fairness == WF_vars(Tick)

FairSpec == Spec /\ Fairness

-----------------------------------------------------------------------------
(***************************************************************************)
(* Safety.                                                                 *)
(***************************************************************************)

\* The server is Pending exactly while a continuation is queued, and there is
\* never more than one: the busy guard of dispatch_sid lets no second request
\* reach push_pending, whatever the length of the queue.
OneJobAtATime ==
  /\ state = "Pending" <=> Occupied # {}
  /\ \A i, j \in Occupied : i = j

\* A continuation reads its request from request_buf when it runs, any number
\* of ticks after it was pushed.  What it finds there, and the service 0x78
\* and 0x72 name, are those of the request it was pushed for.
JobSeesItsRequest ==
  \A i \in Occupied :
     /\ request_buf = pending_queue[i].asked
     /\ pending_sid = pending_queue[i].func
     /\ pending_queue[i].asked.sid = pending_queue[i].func

\* The rights that were checked when a download job was accepted still hold
\* whenever it runs: no session change or relock gets in between.
JobKeepsItsRights ==
  Occupied # {} => session = Programming /\ security >= Sal1

\* The open level is one the current session can open: no level survives a
\* session change, and no session opens a level of another one.
LevelFitsSession ==
  security = Locked \/ sal_session_allowed(security, session)

\* An outstanding seed has not been compared with a key since the chip booted:
\* a wrong, a right or a repeated SendKey uses its seed up, and the two
\* generators do not give it out again.  Across a reset this holds of random
\* seeds only: the fallback counter starts over.
SeedUsedOnce == seed_sent => current_seed \notin spent

\* No run of wrong keys gets past the configured number of attempts.
AttemptsBounded == sa_fail_count <= SaMax

\* A key never lowers the open level: whenever the level falls, the server is
\* locked.  The send-key handler assigns the level of its sub-function, which
\* need not be the level the seed was asked for.
KeyNeverLowers == [][security' >= security \/ security' = Locked]_vars

\* When a job is reported complete, the response buffer holds an answer to
\* that job's service, not a delay notice or the answer to another request.
AnswerNamesItsJob ==
  [][~response_pending /\ response_pending' =>
        /\ response'.code \in JobAnswer
        /\ \E i \in Occupied : response'.sid = pending_queue[i].func]_vars

\* When P2* makes the server give up on a job, what is left for the tester in
\* the response buffer is NRC 0x72 for that job's service.
GiveUpReports ==
  [][Occupied # {} /\ Occupied' = {} /\ ~response_pending'
        => \/ \E i \in Occupied : response' = Reply(pending_queue[i].func, "0x72")
           \/ PowerCycle]_vars

(***************************************************************************)
(* Liveness.                                                               *)
(***************************************************************************)

\* With a continuation that completes on its first run, which all the
\* registered ones do, the server does not stay Pending.
JobsFinish ==
  state = "Pending" /\ pending_sid \notin StallSids ~> state = "Idle"

(***************************************************************************)
(* What the comments in the code say of it.                                *)
(***************************************************************************)

\* ota/mod.rs: the one-byte request 0x37 ends a transfer, so an idle and
\* unlocked server in the programming session queues it.
TransferExitIsQueued ==
  [][\A req \in Requests :
        /\ dispatch_sid(req)
        /\ req.sid = "0x37" /\ req.len = 1
        /\ Routed(req)
        => state' = "Pending"]_vars

\* static_config.rs: inside a critical section a callback gets its reference
\* to the configuration cleanly, so a callback that is called returns.
CallbacksReturn == running

\* table.rs: once a job has been queued for P2* without completing, the next
\* tick gives it up and the server is Idle again.
GivesUpAfterP2Star ==
  [][/\ Tick
     /\ \E i \in Occupied : Elapsed(now_ms, pending_queue[i].since) >= P2Star
     => state' = "Idle"]_vars

=============================================================================
