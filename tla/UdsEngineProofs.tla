-------------------------- MODULE UdsEngineProofs --------------------------
(***************************************************************************)
(* Theorems about UdsEngine, for every value of its constants.             *)
(*                                                                         *)
(* Two inductive invariants carry them.  AccessInv is about the session,   *)
(* the open level and the seeds; JobInv is about the pending queue and     *)
(* rests on AccessInv only for the types.  Each is a conjunction of named  *)
(* parts, so that a step of the proof can say which part it is about.      *)
(***************************************************************************)
EXTENDS UdsEngine, WellFoundedInduction, TLAPS

-----------------------------------------------------------------------------
(***************************************************************************)
(* What a handler may rely on once no early return was taken.              *)
(***************************************************************************)

\* The kept part of a request is what request_buf may hold.
LEMMA KeptType == \A req \in Requests : Kept(req) \in KeptRequest
  BY RequestAssumption DEF Kept, KeptRequest, Request

\* 0x10 goes on only for one of the three sessions.
LEMMA SessionAccepted ==
  ASSUME NEW req \in Requests, req.sid = "0x10", nrc_handler(req) = "ok"
  PROVE  req.sub \in Session
  BY DEF nrc_handler, nrc_0x10, EntryServices

\* 0x27 goes on only below the attempt limit, for a level of the session, and
\* for a key only when a seed is outstanding.
LEMMA SecurityAccepted ==
  ASSUME NEW req \in Requests, req.sid = "0x27", nrc_handler(req) = "ok"
  PROVE  /\ ~(sa_fail_count >= SaMax)
         /\ req.sub \in 1..6
         /\ sal_session_allowed(sal_of(req), session)
         /\ ~is_request_seed(req) => seed_sent
  BY DEF nrc_handler, nrc_0x27, sa_subfunc_known, EntryServices

\* The level of a sub-function.
LEMMA SalRange == \A req : req.sub \in 1..6 => sal_of(req) \in 1..3
  <1>1. \A n \in 1..6 : (n + 1) \div 2 \in 1..3
    BY SMT
  <1>2. QED
    BY <1>1 DEF sal_of

\* The service table lets the OTA services through in one session only.
LEMMA OtaGate ==
  ASSUME NEW req \in Requests, req.sid \in OtaSids, nrc_gate(req) = "ok"
  PROVE  session = Programming /\ security >= Sal1
  BY DEF nrc_gate, session_allowed, security_allowed, service_session,
         service_security

-----------------------------------------------------------------------------
(***************************************************************************)
(* Sets of slots.  push_pending takes the lowest free slot and the last    *)
(* continuation to run is the one in the highest slot; both exist.         *)
(***************************************************************************)

\* A nonempty set of natural numbers has a least element.
LEMMA NatLeast ==
  ASSUME NEW T, T \subseteq Nat, T # {}
  PROVE  \E x \in T : \A y \in T : x <= y
  <1> DEFINE R == {ss \in Nat \X Nat : ss[1] < ss[2]}
  <1>1. IsWellFoundedOn(R, Nat)
    BY NatLessThanWellFounded DEF OpToRel
  <1>2. PICK x \in T : \A y \in T : <<y, x>> \notin R
    <2> HIDE DEF R
    <2> QED
      BY <1>1, WFMin
  <1>3. \A y \in T : x <= y
    <2>1. SUFFICES ASSUME NEW y \in T PROVE x <= y
      OBVIOUS
    <2>2. x \in Nat /\ y \in Nat
      BY <1>2
    <2>3. ~(y < x)
      BY <1>2, <2>2
    <2>4. QED
      BY <2>2, <2>3
  <1>4. QED
    BY <1>2, <1>3

\* The highest slot of a nonempty set, by reflection in QueueSize.
LEMMA HighestSlot ==
  ASSUME NEW T, T \subseteq Slots, T # {}
  PROVE  \E x \in T : \A y \in T : y <= x
  <1> USE QueueAssumption DEF Slots
  <1> DEFINE U == {QueueSize - y : y \in T}
  <1>1. U \subseteq Nat /\ U # {}
    <2>1. \A y \in T : QueueSize - y \in Nat
      OBVIOUS
    <2>2. QED
      BY <2>1
  <1>2. PICK u \in U : \A v \in U : u <= v
    BY <1>1, NatLeast
  <1>3. PICK x \in T : u = QueueSize - x
    BY <1>2
  <1>4. \A y \in T : y <= x
    <2>1. SUFFICES ASSUME NEW y \in T PROVE y <= x
      OBVIOUS
    <2>2. QueueSize - x <= QueueSize - y
      BY <1>2, <1>3
    <2>3. QED
      BY <2>2
  <1>5. QED
    BY <1>4

\* The lowest slot of a nonempty set.
LEMMA LowestSlot ==
  ASSUME NEW T, T \subseteq Slots, T # {}
  PROVE  \E x \in T : \A y \in T : x <= y
  <1>1. T \subseteq Nat
    BY QueueAssumption DEF Slots
  <1>2. QED
    BY <1>1, NatLeast

-----------------------------------------------------------------------------
(***************************************************************************)
(* Type correctness.                                                       *)
(***************************************************************************)

\* The constants that are not numbers by their assumptions alone.
LEMMA ClockType == 0 \in 0..(ClockMod - 1)
  BY TimerAssumption

LEMMA ResponseType ==
  /\ EmptyResponse \in Response
  /\ UnlockReply \in Response
  /\ \A sid \in Sid \cup {NoSid}, code \in ResponseCode : Reply(sid, code) \in Response
  /\ \A req \in Requests : PositiveReply(req) \in Response
  /\ \A req \in Requests : req.sid \in Sid
  BY RequestAssumption
     DEF EmptyResponse, Response, Reply, UnlockReply, PositiveReply, ResponseCode, Request

LEMMA QueueType ==
  /\ EmptyQueue \in [Slots -> Job \cup {NoJob}]
  /\ pending_queue \in [Slots -> Job \cup {NoJob}] =>
        \A done : PutBack(done) \in [Slots -> Job \cup {NoJob}]
  BY DEF EmptyQueue, PutBack

\* Every refusal is an NRC.
LEMMA RefusalType ==
  ASSUME NEW req \in Requests
  PROVE  /\ nrc_gate(req) \in ResponseCode \cup {"ok"}
         /\ nrc_handler(req) \in ResponseCode \cup {"ok"}
  <1>1. nrc_gate(req) \in ResponseCode \cup {"ok"}
    BY DEF nrc_gate, ResponseCode, Nrc
  <1>2. /\ nrc_0x10(req) \in ResponseCode \cup {"ok"}
        /\ nrc_0x11(req) \in ResponseCode \cup {"ok"}
        /\ nrc_0x28(req) \in ResponseCode \cup {"ok"}
        /\ nrc_0x3E(req) \in ResponseCode \cup {"ok"}
    BY DEF nrc_0x10, nrc_0x11, nrc_0x28, nrc_0x3E, ResponseCode, Nrc
  <1>3. /\ nrc_0x27(req) \in ResponseCode \cup {"ok"}
        /\ nrc_dtc(req) \in ResponseCode \cup {"ok"}
    BY DEF nrc_0x27, nrc_dtc, ResponseCode, Nrc
  <1>4. /\ nrc_entry(req) \in ResponseCode \cup {"ok"}
        /\ nrc_ota(req) \in ResponseCode \cup {"ok"}
    BY DEF nrc_entry, nrc_ota, ResponseCode, Nrc
  <1>5. QED
    BY <1>1, <1>2, <1>3, <1>4 DEF nrc_handler

\* The response a refused request gets.
LEMMA RefusalReply ==
  ASSUME NEW req \in Requests
  PROVE  /\ nrc_gate(req) # "ok" => Reply(req.sid, nrc_gate(req)) \in Response
         /\ nrc_handler(req) # "ok" => Reply(req.sid, nrc_handler(req)) \in Response
         /\ Reply(req.sid, "0x13") \in Response
         /\ Reply(req.sid, "0x21") \in Response
         /\ Reply(req.sid, "0x22") \in Response
         /\ Reply(req.sid, "0x31") \in Response
         /\ Reply(req.sid, "0x35") \in Response
         /\ Reply(req.sid, "positive") \in Response
  BY RefusalType, ResponseType DEF ResponseCode, Nrc

LEMMA ZeroSeedType == ZeroSeed \in Seed
  BY DEF ZeroSeed, Seed, Generator

\* A new seed is the next one of its generator.
LEMMA GenerateType ==
  ASSUME TypeOK, generate_seed
  PROVE  seeds_given' \in [Generator -> 0..MaxSeeds] /\ current_seed' \in Seed
  <1>1. PICK g \in Generator : /\ seeds_given[g] < MaxSeeds
                              /\ current_seed' = <<g, seeds_given[g]>>
                              /\ seeds_given' = [seeds_given EXCEPT ![g] = @ + 1]
    BY DEF generate_seed
  <1>2. seeds_given \in [Generator -> 0..MaxSeeds] /\ seeds_given[g] \in 0..MaxSeeds
    BY DEF TypeOK
  <1>3. seeds_given[g] + 1 \in 0..MaxSeeds /\ seeds_given[g] \in Nat
    BY <1>1, <1>2, SeedAssumption
  <1>4. QED
    BY <1>1, <1>2, <1>3 DEF Seed

\* A dispatched request leaves every variable well-typed.
LEMMA DispatchType ==
  ASSUME TypeOK, NEW req \in Requests, dispatch_sid(req)
  PROVE  TypeOK'
  <1> USE DEF TypeOK
  <1>0. /\ request_tick_ms' \in 0..(ClockMod - 1)
        /\ response_pending' \in BOOLEAN
        /\ now_ms' \in 0..(ClockMod - 1)
    BY DEF dispatch_sid, clock_vars
  <1>1. CASE BusyRepeatRequest(req)
    BY <1>0, <1>1, RefusalReply
       DEF BusyRepeatRequest, access_vars, job_vars, misc_vars
  <1>2. CASE RefuseAtGate(req)
    BY <1>0, <1>2, RefusalReply
       DEF RefuseAtGate, access_vars, job_vars, misc_vars
  <1>3. CASE RefuseInHandler(req)
    BY <1>0, <1>3, RefusalReply, KeptType
       DEF RefuseInHandler, Routed, access_vars, job_vars, misc_vars
  <1>4. CASE DiagnosticSessionControl(req)
    <2>1. nrc_handler(req) = "ok" /\ req.sid = "0x10"
      BY <1>4 DEF DiagnosticSessionControl, Accepted
    <2>2. req.sub \in Session
      BY <2>1, SessionAccepted
    <2>3. session' \in Session /\ seed_sent' \in BOOLEAN
      BY <1>4, <2>2 DEF DiagnosticSessionControl
    <2>6. security' \in SecurityLevel /\ sa_fail_count' \in Nat
      BY <1>4 DEF DiagnosticSessionControl, Locked, SecurityLevel
    <2>7. /\ current_seed' \in Seed
          /\ seeds_given' \in [Generator -> 0..MaxSeeds]
          /\ spent' \subseteq Seed
      BY <1>4 DEF DiagnosticSessionControl
    <2>4. response' \in Response /\ request_buf' \in KeptRequest
      BY <1>4, ResponseType, KeptType
         DEF DiagnosticSessionControl, Accepted, Routed
    <2>5. QED
      BY <1>0, <1>4, <2>3, <2>4, <2>6, <2>7
         DEF DiagnosticSessionControl, job_vars, misc_vars
  <1>5. CASE EcuReset(req)
    BY <1>0, <1>5, ResponseType, KeptType
       DEF EcuReset, Accepted, Routed, job_vars
  <1>6. CASE RequestSeed(req)
    <2>1. response' \in Response /\ request_buf' \in KeptRequest
      BY <1>6, ResponseType, KeptType DEF RequestSeed, Accepted, Routed
    <2>2. CASE security >= sal_of(req)
      BY <1>0, <1>6, <2>1, <2>2 DEF RequestSeed, job_vars, misc_vars
    <2>3. CASE ~(security >= sal_of(req))
      <3>1. seeds_given' \in [Generator -> 0..MaxSeeds] /\ current_seed' \in Seed
        BY <1>6, <2>3, GenerateType DEF RequestSeed
      <3>2. seed_sent' \in BOOLEAN
        BY <1>6, <2>3 DEF RequestSeed
      <3>3. QED
        BY <1>0, <1>6, <2>1, <3>1, <3>2 DEF RequestSeed, job_vars, misc_vars
    <2>4. QED
      BY <2>2, <2>3
  <1>7. CASE SendKey(req)
    <2>1. nrc_handler(req) = "ok" /\ req.sid = "0x27"
      BY <1>7 DEF SendKey, Accepted
    <2>2. sal_of(req) \in 1..3
      BY <2>1, SecurityAccepted, SalRange
    <2>3. response' \in Response /\ request_buf' \in KeptRequest
      BY <1>7, ResponseType, RefusalReply, KeptType DEF SendKey, Accepted, Routed
    <2>4. security' \in SecurityLevel /\ sa_fail_count' \in Nat
      <3>1. CASE req.key = KeyOf(sal_of(req), current_seed)
        BY <1>7, <2>2, <3>1 DEF SendKey, SecurityLevel
      <3>2. CASE req.key # KeyOf(sal_of(req), current_seed)
        BY <1>7, <2>2, <3>2 DEF SendKey
      <3>3. QED
        BY <3>1, <3>2
    <2>5. seed_sent' \in BOOLEAN /\ spent' \subseteq Seed
      BY <1>7 DEF SendKey
    <2>6. QED
      BY <1>0, <1>7, <2>3, <2>4, <2>5 DEF SendKey, job_vars, misc_vars
  <1>8. CASE CommunicationControl(req)
    BY <1>0, <1>8, ResponseType, KeptType
       DEF CommunicationControl, Accepted, Routed, access_vars, job_vars
  <1>9. CASE DataService(req)
    <2>1. response' \in Response
      BY <1>9, ResponseType, RefusalReply DEF DataService
    <2>2. request_buf' \in KeptRequest
      BY <1>9, KeptType DEF DataService, Accepted, Routed
    <2>3. QED
      BY <1>0, <1>9, <2>1, <2>2
         DEF DataService, access_vars, job_vars, misc_vars
  <1>10. CASE PanicInCallback(req)
    BY <1>0, <1>10, KeptType
       DEF PanicInCallback, Accepted, Routed, access_vars, job_vars
  <1>11. CASE PushPending(req)
    <2>1. CASE Occupied = Slots
      BY <1>0, <1>11, <2>1, RefusalReply, KeptType
         DEF PushPending, Accepted, Routed, access_vars, job_vars, misc_vars
    <2>2. CASE Occupied # Slots
      <3>1. PICK free : pending_queue' = [pending_queue EXCEPT
                          ![free] = [func |-> req.sid, asked |-> Kept(req),
                                     since |-> now_ms]]
        BY <1>11, <2>2 DEF PushPending
      <3>2. pending_queue' \in [Slots -> Job \cup {NoJob}]
        <4>1. [func |-> req.sid, asked |-> Kept(req), since |-> now_ms] \in Job
          BY <1>11, KeptType, TimerAssumption DEF PushPending, Job
        <4>2. QED
          BY <3>1, <4>1
      <3>3. QED
        BY <1>0, <1>11, <2>2, <3>2, KeptType
           DEF PushPending, Accepted, Routed, access_vars, misc_vars, SrvState
    <2>3. QED
      BY <2>1, <2>2
  <1>12. QED
    BY <1>1, <1>2, <1>3, <1>4, <1>5, <1>6, <1>7, <1>8, <1>9, <1>11,
       <1>10
       DEF dispatch_sid

\* The answer of the last continuation that completed is a response to it.
LEMMA JobResponseType ==
  ASSUME TypeOK, NEW done \in SUBSET Occupied, NEW code \in JobAnswer
  PROVE  JobResponse(done, code) \in Response
  <1>1. CASE done = {}
    BY <1>1 DEF TypeOK, JobResponse
  <1>2. CASE done # {}
    <2> DEFINE last == CHOOSE i \in done : \A j \in done : j <= i
    <2>1. done \subseteq Slots
      BY DEF Occupied
    <2>2. last \in done
      BY <1>2, <2>1, HighestSlot
    <2>3. pending_queue[last] \in Job
      BY <2>1, <2>2 DEF TypeOK, Occupied
    <2>4. pending_queue[last].func \in Sid
      BY <2>3 DEF Job, Sid, Services
    <2>5. code \in ResponseCode
      BY DEF JobAnswer, ResponseCode, Nrc
    <2>6. QED
      BY <1>2, <2>4, <2>5, ResponseType DEF JobResponse
  <1>3. QED
    BY <1>1, <1>2

\* A delay notice or a timeout replaces an answer by another one.
LEMMA NoticeType ==
  ASSUME TypeOK, NEW otherwise \in Response, NEW code \in {"0x78", "0x72"}
  PROVE  PendingNotice(otherwise, code) \in Response
  <1>1. pending_sid \in Sid \cup {NoSid}
    BY DEF TypeOK, Sid, Services
  <1>2. code \in ResponseCode
    BY DEF ResponseCode, Nrc
  <1>3. QED
    BY <1>1, <1>2, ResponseType DEF PendingNotice

\* A tick leaves every variable well-typed.
LEMMA TickType ==
  ASSUME TypeOK, Tick
  PROVE  TypeOK'
  <1>1. PICK done \in SUBSET Occupied, code \in JobAnswer : tick(done, code)
    BY DEF Tick
  <1>2. /\ UNCHANGED <<session, security, seed_sent, current_seed,
                       sa_fail_count, seeds_given, spent, tx_disabled,
                       reset_requested, running, now_ms, request_buf,
                       pending_sid>>
    BY <1>1 DEF tick, access_vars, misc_vars, clock_vars
  <1>3. pending_queue' \in [Slots -> Job \cup {NoJob}]
    BY <1>1, QueueType DEF tick, FinishJobs, KeepWaiting, GiveUp, TypeOK
  <1>4. state' \in SrvState
    BY <1>1 DEF tick, FinishJobs, KeepWaiting, GiveUp, TypeOK, SrvState
  <1>5. response_pending' \in BOOLEAN
    BY <1>1 DEF tick, FinishJobs, KeepWaiting, GiveUp, TypeOK
  <1>6. response' \in Response
    BY <1>1, JobResponseType, NoticeType DEF tick, FinishJobs, KeepWaiting, GiveUp
  <1>7. request_tick_ms' \in 0..(ClockMod - 1)
    BY <1>1 DEF tick, FinishJobs, KeepWaiting, GiveUp, TypeOK, StampAfterP2
  <1>8. QED
    BY <1>2, <1>3, <1>4, <1>5, <1>6, <1>7 DEF TypeOK

\* So do the flags the transport takes, the clock and a reset.
LEMMA SurroundingsType ==
  ASSUME TypeOK,
         \/ take_response_pending \/ take_reset_request
         \/ ClockTick \/ PowerCycle
  PROVE  TypeOK'
  <1>1. CASE take_response_pending
    BY <1>1 DEF take_response_pending, access_vars, job_vars, misc_vars,
                clock_vars, TypeOK
  <1>2. CASE take_reset_request
    BY <1>2 DEF take_reset_request, access_vars, job_vars, clock_vars, TypeOK
  <1>3. CASE ClockTick
    <2>1. now_ms' \in 0..(ClockMod - 1)
      BY <1>3, TimerAssumption DEF ClockTick, TypeOK
    <2>2. QED
      BY <1>3, <2>1 DEF ClockTick, access_vars, job_vars, misc_vars, TypeOK
  <1>4. CASE PowerCycle
    <2>1. request_tick_ms' \in 0..(ClockMod - 1) /\ now_ms' \in 0..(ClockMod - 1)
      BY <1>4, ClockType DEF PowerCycle
    <2>2. /\ session' \in Session /\ security' \in SecurityLevel
          /\ current_seed' \in Seed /\ sa_fail_count' \in Nat
          /\ spent' \subseteq Seed
      BY <1>4, ZeroSeedType
         DEF PowerCycle, Session, Default, SecurityLevel, Locked
    <2>3. /\ state' \in SrvState
          /\ request_buf' \in KeptRequest
          /\ pending_sid' \in OtaSids \cup {NoSid}
          /\ response' \in Response
          /\ pending_queue' \in [Slots -> Job \cup {NoJob}]
      BY <1>4, ResponseType, QueueType
         DEF PowerCycle, SrvState, KeptRequest, NothingKept
    <2>4. seeds_given' \in [Generator -> 0..MaxSeeds]
      <3>1. 0 \in 0..MaxSeeds
        BY SeedAssumption
      <3>2. QED
        BY <1>4, <3>1 DEF PowerCycle, TypeOK
    <2>5. QED
      BY <1>4, <2>1, <2>2, <2>3, <2>4 DEF PowerCycle, TypeOK
  <1>5. QED
    BY <1>1, <1>2, <1>3, <1>4

LEMMA InitType == Init => TypeOK
  <1> SUFFICES ASSUME Init PROVE TypeOK
    OBVIOUS
  <1>1. request_tick_ms \in 0..(ClockMod - 1) /\ now_ms \in 0..(ClockMod - 1)
    BY ClockType DEF Init
  <1>2. /\ session \in Session /\ security \in SecurityLevel
        /\ current_seed \in Seed /\ sa_fail_count \in Nat
        /\ seeds_given \in [Generator -> 0..MaxSeeds] /\ spent \subseteq Seed
    BY ZeroSeedType, SeedAssumption DEF Init, Session, Default, SecurityLevel, Locked
  <1>3. /\ state \in SrvState
        /\ request_buf \in KeptRequest
        /\ pending_sid \in OtaSids \cup {NoSid}
        /\ response \in Response
        /\ pending_queue \in [Slots -> Job \cup {NoJob}]
    BY ResponseType, QueueType DEF Init, SrvState, KeptRequest, NothingKept
  <1>4. QED
    BY <1>1, <1>2, <1>3 DEF Init, TypeOK

LEMMA NextType == TypeOK /\ [Next]_vars => TypeOK'
  <1> SUFFICES ASSUME TypeOK, [Next]_vars PROVE TypeOK'
    OBVIOUS
  <1>1. CASE Dispatch
    BY <1>1, DispatchType DEF Dispatch
  <1>2. CASE Tick
    BY <1>2, TickType
  <1>3. CASE \/ take_response_pending \/ take_reset_request
             \/ ClockTick \/ PowerCycle
    BY <1>3, SurroundingsType
  <1>4. CASE UNCHANGED vars
    BY <1>4 DEF vars, TypeOK
  <1>5. QED
    BY <1>1, <1>2, <1>3, <1>4 DEF Next

\* Every variable keeps its type, whatever is requested and whenever the
\* queue is polled.
THEOREM TypeCorrect == Spec => []TypeOK
  BY InitType, NextType, PTL DEF Spec

-----------------------------------------------------------------------------
(***************************************************************************)
(* Session, level and seeds.  LevelFitsSession, SeedUsedOnce and           *)
(* AttemptsBounded are made inductive by the numbering of the seeds (the   *)
(* outstanding one and those used up were all given since the boot, so a   *)
(* new one is none of them) and by SeedBelowLevel: while                   *)
(* a seed is outstanding, the open level is at most the lowest one the     *)
(* session can open, which is why no key can lower it.                     *)
(***************************************************************************)
Given(seed) == seed[2] < seeds_given[seed[1]]

SeedsNumbered ==
  /\ seed_sent => Given(current_seed)
  /\ \A seed \in spent : Given(seed)

SeedBelowLevel ==
  seed_sent => \A sal \in 1..3 : sal_session_allowed(sal, session) => security <= sal

AccessInv ==
  /\ LevelFitsSession
  /\ SeedUsedOnce
  /\ AttemptsBounded
  /\ SeedsNumbered
  /\ SeedBelowLevel

\* AccessInv mentions no other variable than these.
LEMMA AccessFrame ==
  ASSUME AccessInv, UNCHANGED access_vars
  PROVE  AccessInv'
  BY DEF AccessInv, access_vars, LevelFitsSession, SeedUsedOnce, AttemptsBounded,
         SeedsNumbered, Given, SeedBelowLevel

LEMMA SessionAccess ==
  ASSUME TypeOK, AccessInv, NEW req \in Requests, DiagnosticSessionControl(req)
  PROVE  AccessInv'
  <1>1. /\ security' = Locked /\ seed_sent' = FALSE /\ sa_fail_count' = 0
        /\ UNCHANGED <<current_seed, seeds_given, spent>>
    BY DEF DiagnosticSessionControl
  <1>2. LevelFitsSession' /\ SeedUsedOnce' /\ SeedBelowLevel'
    BY <1>1 DEF LevelFitsSession, SeedUsedOnce, SeedBelowLevel
  <1>3. AttemptsBounded'
    BY <1>1, AttemptAssumption DEF AttemptsBounded
  <1>4. SeedsNumbered'
    BY <1>1, <1>2 DEF AccessInv, SeedsNumbered, Given
  <1>5. QED
    BY <1>2, <1>3, <1>4 DEF AccessInv

LEMMA ResetAccess ==
  ASSUME TypeOK, AccessInv, NEW req \in Requests, EcuReset(req)
  PROVE  AccessInv'
  <1>1. /\ sa_fail_count' = 0
        /\ UNCHANGED <<session, security, seed_sent, current_seed, seeds_given, spent>>
    BY DEF EcuReset
  <1>2. AttemptsBounded'
    BY <1>1, AttemptAssumption DEF AttemptsBounded
  <1>3. QED
    BY <1>1, <1>2 DEF AccessInv, LevelFitsSession, SeedUsedOnce, SeedsNumbered,
                      Given, SeedBelowLevel

\* A level below the one a seed is asked for is at most the lowest level of
\* the session: the sessions open at most two levels, which are adjacent.
LEMMA AdjacentLevels ==
  ASSUME NEW lvl \in SecurityLevel, NEW s, NEW asked \in 1..3,
         lvl = Locked \/ sal_session_allowed(lvl, s),
         sal_session_allowed(asked, s), lvl < asked
  PROVE  \A sal \in 1..3 : sal_session_allowed(sal, s) => lvl <= sal
  BY DEF sal_session_allowed, Session, Default, Programming, Extended, Locked,
         SecurityLevel

\* The seed a generator gives next is none of those it gave before.
LEMMA FreshSeed ==
  ASSUME TypeOK, AccessInv, generate_seed
  PROVE  /\ current_seed' \notin spent
         /\ Given(current_seed)'
         /\ \A seed \in spent : Given(seed)'
  <1>1. PICK g \in Generator : /\ current_seed' = <<g, seeds_given[g]>>
                              /\ seeds_given' = [seeds_given EXCEPT ![g] = @ + 1]
    BY DEF generate_seed
  <1>2. /\ seeds_given \in [Generator -> Nat]
        /\ \A seed \in spent : /\ seed[1] \in Generator /\ seed[2] \in Nat
                              /\ seed[2] < seeds_given[seed[1]]
    BY SeedAssumption DEF TypeOK, Seed, AccessInv, SeedsNumbered, Given
  <1>3. current_seed' \notin spent
    <2>1. SUFFICES ASSUME current_seed' \in spent PROVE FALSE
      OBVIOUS
    <2>2. current_seed'[1] = g /\ current_seed'[2] = seeds_given[g]
      BY <1>1
    <2>3. QED
      BY <1>2, <2>1, <2>2
  <1>4. Given(current_seed)'
    BY <1>1, <1>2 DEF Given
  <1>5. ASSUME NEW seed \in spent PROVE Given(seed)'
    <2>1. /\ seed[1] \in Generator /\ seed[2] \in Nat
          /\ seed[2] < seeds_given[seed[1]]
      BY <1>2
    <2>2. /\ seeds_given[seed[1]] \in Nat /\ seeds_given'[seed[1]] \in Nat
          /\ seeds_given'[seed[1]] >= seeds_given[seed[1]]
      BY <1>1, <1>2, <2>1
    <2>3. seed[2] < seeds_given'[seed[1]]
      BY <2>1, <2>2
    <2>4. QED
      BY <2>3 DEF Given
  <1>6. QED
    BY <1>3, <1>4, <1>5

LEMMA SeedAccess ==
  ASSUME TypeOK, AccessInv, NEW req \in Requests, RequestSeed(req)
  PROVE  AccessInv'
  <1>1. /\ req.sid = "0x27" /\ nrc_handler(req) = "ok"
        /\ UNCHANGED <<session, security, sa_fail_count, spent>>
    BY DEF RequestSeed, Accepted
  <1>2. /\ sal_of(req) \in 1..3
        /\ sal_session_allowed(sal_of(req), session)
    BY <1>1, SecurityAccepted, SalRange
  <1>3. CASE security >= sal_of(req)
    <2>1. UNCHANGED access_vars
      BY <1>1, <1>3 DEF RequestSeed, access_vars
    <2>2. QED
      BY <2>1, AccessFrame
  <1>4. CASE ~(security >= sal_of(req))
    <2>1. generate_seed /\ seed_sent' = TRUE
      BY <1>4 DEF RequestSeed
    <2>2. security \in SecurityLevel
      BY DEF TypeOK
    <2>3. LevelFitsSession' /\ AttemptsBounded'
      BY <1>1 DEF AccessInv, LevelFitsSession, AttemptsBounded
    <2>4. SeedsNumbered' /\ SeedUsedOnce'
      BY <1>1, <2>1, FreshSeed DEF SeedsNumbered, SeedUsedOnce
    <2>6. SeedBelowLevel'
      <3>1. security < sal_of(req)
        BY <1>2, <1>4, <2>2 DEF SecurityLevel
      <3>2. security = Locked \/ sal_session_allowed(security, session)
        BY DEF AccessInv, LevelFitsSession
      <3>3. \A sal \in 1..3 : sal_session_allowed(sal, session) => security <= sal
        BY <1>2, <2>2, <3>1, <3>2, AdjacentLevels
      <3>4. QED
        BY <1>1, <3>3 DEF SeedBelowLevel
    <2>7. QED
      BY <2>3, <2>4, <2>6 DEF AccessInv
  <1>5. QED
    BY <1>3, <1>4

LEMMA KeyAccess ==
  ASSUME TypeOK, AccessInv, NEW req \in Requests, SendKey(req)
  PROVE  AccessInv' /\ security' >= security
  <1>1. /\ req.sid = "0x27" /\ nrc_handler(req) = "ok" /\ ~is_request_seed(req)
        /\ seed_sent' = FALSE /\ spent' = spent \cup {current_seed}
        /\ UNCHANGED <<session, current_seed, seeds_given>>
    BY DEF SendKey, Accepted
  <1>2. /\ sal_of(req) \in 1..3
        /\ sal_session_allowed(sal_of(req), session)
        /\ ~(sa_fail_count >= SaMax)
        /\ seed_sent
    BY <1>1, SecurityAccepted, SalRange
  <1>3. security' = sal_of(req) \/ security' = security
    BY DEF SendKey
  <1>4. sa_fail_count' = 0 \/ sa_fail_count' = sa_fail_count + 1
    BY DEF SendKey
  <1>5. LevelFitsSession'
    BY <1>1, <1>2, <1>3 DEF AccessInv, LevelFitsSession
  <1>6. SeedUsedOnce' /\ SeedBelowLevel'
    BY <1>1 DEF SeedUsedOnce, SeedBelowLevel
  <1>7. AttemptsBounded'
    BY <1>2, <1>4, AttemptAssumption DEF AttemptsBounded, TypeOK
  <1>8. SeedsNumbered'
    BY <1>1, <1>2 DEF AccessInv, SeedsNumbered, Given
  <1>9. security' >= security
    <2>1. security <= sal_of(req)
      BY <1>2 DEF AccessInv, SeedBelowLevel
    <2>2. security \in 0..3
      BY DEF TypeOK, SecurityLevel
    <2>3. QED
      BY <1>2, <1>3, <2>1, <2>2
  <1>10. QED
    BY <1>5, <1>6, <1>7, <1>8, <1>9 DEF AccessInv

\* A power cycle locks the server and withdraws the seed.
LEMMA PowerCycleAccess ==
  ASSUME TypeOK, AccessInv, PowerCycle
  PROVE  AccessInv'
  <1>1. /\ security' = Locked /\ seed_sent' = FALSE /\ sa_fail_count' = 0
        /\ spent' = {}
    BY DEF PowerCycle
  <1>2. LevelFitsSession' /\ SeedUsedOnce' /\ SeedBelowLevel'
    BY <1>1 DEF LevelFitsSession, SeedUsedOnce, SeedBelowLevel
  <1>3. AttemptsBounded'
    BY <1>1, AttemptAssumption DEF AttemptsBounded
  <1>4. SeedsNumbered'
    BY <1>1 DEF SeedsNumbered
  <1>5. QED
    BY <1>2, <1>3, <1>4 DEF AccessInv

\* The steps that are neither a session change, a reset, a seed, a key nor a
\* power cycle leave session, level and seeds alone.
LEMMA AccessSteps ==
  ASSUME TypeOK, [Next]_vars
  PROVE  \/ UNCHANGED access_vars
         \/ PowerCycle
         \/ \E req \in Requests : \/ DiagnosticSessionControl(req)
                                 \/ EcuReset(req)
                                 \/ RequestSeed(req)
                                 \/ SendKey(req)
  <1>1. ASSUME NEW req \in Requests, dispatch_sid(req)
        PROVE  \/ UNCHANGED access_vars
               \/ DiagnosticSessionControl(req) \/ EcuReset(req)
               \/ RequestSeed(req) \/ SendKey(req)
    BY <1>1 DEF dispatch_sid, BusyRepeatRequest, RefuseAtGate, RefuseInHandler,
                CommunicationControl, DataService, PanicInCallback,
                PushPending
  <1>2. Tick => UNCHANGED access_vars
    BY DEF Tick, tick
  <1>3. take_response_pending \/ take_reset_request \/ ClockTick
           => UNCHANGED access_vars
    BY DEF take_response_pending, take_reset_request, ClockTick
  <1>4. UNCHANGED vars => UNCHANGED access_vars
    BY DEF vars, access_vars
  <1>5. QED
    BY <1>1, <1>2, <1>3, <1>4 DEF Next, Dispatch

LEMMA InitAccess == Init => AccessInv
  BY AttemptAssumption
     DEF Init, AccessInv, LevelFitsSession, SeedUsedOnce, AttemptsBounded,
         SeedsNumbered, SeedBelowLevel

LEMMA NextAccess == TypeOK /\ AccessInv /\ [Next]_vars => AccessInv'
  <1> SUFFICES ASSUME TypeOK, AccessInv, [Next]_vars PROVE AccessInv'
    OBVIOUS
  <1>1. CASE UNCHANGED access_vars
    BY <1>1, AccessFrame
  <1>2. CASE PowerCycle
    BY <1>2, PowerCycleAccess
  <1>3. ASSUME NEW req \in Requests,
               \/ DiagnosticSessionControl(req) \/ EcuReset(req)
               \/ RequestSeed(req) \/ SendKey(req)
        PROVE  AccessInv'
    BY <1>3, SessionAccess, ResetAccess, SeedAccess, KeyAccess
  <1>4. QED
    BY <1>1, <1>2, <1>3, AccessSteps

\* The inductive invariant of the session, the level and the seeds.
LEMMA AccessInvariant == Spec => [](TypeOK /\ AccessInv)
  <1>1. Init => TypeOK /\ AccessInv
    BY InitType, InitAccess
  <1>2. TypeOK /\ AccessInv /\ [Next]_vars => (TypeOK /\ AccessInv)'
    BY NextType, NextAccess
  <1>3. QED
    BY <1>1, <1>2, PTL DEF Spec

\* The open level is always one the current session can open.
THEOREM LevelCorrect == Spec => []LevelFitsSession
  <1>1. TypeOK /\ AccessInv => LevelFitsSession
    BY DEF AccessInv
  <1>2. QED
    BY <1>1, AccessInvariant, PTL

\* Between two boots no seed is compared with a second key, neither one of the
\* random number generator nor one of the fallback counter.
THEOREM SeedCorrect == Spec => []SeedUsedOnce
  <1>1. TypeOK /\ AccessInv => SeedUsedOnce
    BY DEF AccessInv
  <1>2. QED
    BY <1>1, AccessInvariant, PTL

\* The counter of wrong keys never exceeds the configured limit, for every
\* limit a u8 can hold.
THEOREM AttemptsCorrect == Spec => []AttemptsBounded
  <1>1. TypeOK /\ AccessInv => AttemptsBounded
    BY DEF AccessInv
  <1>2. QED
    BY <1>1, AccessInvariant, PTL

\* No step lowers the open level except by locking the server.
THEOREM KeyCorrect == Spec => KeyNeverLowers
  <1>1. ASSUME TypeOK, AccessInv, [Next]_vars
        PROVE  [security' >= security \/ security' = Locked]_vars
    <2>0. security \in 0..3
      BY <1>1 DEF TypeOK, SecurityLevel
    <2>1. CASE UNCHANGED access_vars
      BY <2>0, <2>1 DEF access_vars
    <2>2. CASE PowerCycle
      BY <2>2 DEF PowerCycle
    <2>3. ASSUME NEW req \in Requests,
                 DiagnosticSessionControl(req) \/ EcuReset(req) \/ RequestSeed(req)
          PROVE  security' = Locked \/ security' = security
      BY <2>3 DEF DiagnosticSessionControl, EcuReset, RequestSeed
    <2>4. ASSUME NEW req \in Requests, SendKey(req)
          PROVE  security' >= security
      BY <1>1, <2>4, KeyAccess
    <2>5. QED
      BY <1>1, <2>0, <2>1, <2>2, <2>3, <2>4, AccessSteps
  <1>2. QED
    BY <1>1, AccessInvariant, PTL DEF Spec, KeyNeverLowers

-----------------------------------------------------------------------------
(***************************************************************************)
(* The pending queue.  The three invariants are inductive together: an     *)
(* Idle server has an empty queue, so that a request which is not turned   *)
(* away as busy finds no job whose request, service or rights it could     *)
(* change.                                                                 *)
(***************************************************************************)
JobInv ==
  /\ OneJobAtATime
  /\ JobSeesItsRequest
  /\ JobKeepsItsRights

\* Without a job, JobInv says no more than that the server is Idle.
LEMMA NoJobsLeft ==
  ASSUME pending_queue' = EmptyQueue, state' = "Idle"
  PROVE  JobInv' /\ Occupied' = {}
  <1>1. Occupied' = {}
    BY DEF Occupied, EmptyQueue
  <1>2. QED
    BY <1>1 DEF JobInv, OneJobAtATime, JobSeesItsRequest, JobKeepsItsRights

\* An Idle server has no job, and a queue without a job is the empty queue.
LEMMA IdleIsEmpty ==
  ASSUME TypeOK, JobInv, state = "Idle"
  PROVE  pending_queue = EmptyQueue
  <1>1. \A i \in Slots : pending_queue[i] = NoJob
    BY DEF JobInv, OneJobAtATime, Occupied
  <1>2. QED
    BY <1>1 DEF TypeOK, EmptyQueue

\* Whatever leaves the queue, the state and what a job reads alone keeps it.
LEMMA JobFrame ==
  ASSUME JobInv,
         UNCHANGED <<session, security, state, request_buf, pending_sid,
                     pending_queue>>
  PROVE  JobInv' /\ Occupied' = Occupied
  <1>1. Occupied' = Occupied
    BY DEF Occupied
  <1>2. QED
    BY <1>1 DEF JobInv, OneJobAtATime, JobSeesItsRequest, JobKeepsItsRights

LEMMA PushJob ==
  ASSUME TypeOK, JobInv, NEW req \in Requests, PushPending(req)
  PROVE  JobInv'
  <1>1. /\ req.sid \in OtaSids /\ nrc_gate(req) = "ok" /\ state = "Idle"
        /\ request_buf' = Kept(req)
        /\ UNCHANGED <<session, security>>
    BY DEF PushPending, Accepted, Routed, access_vars
  <1>2. pending_queue = EmptyQueue
    BY <1>1, IdleIsEmpty
  <1>3. Occupied = {} /\ Occupied # Slots
    <2>1. Occupied = {}
      BY <1>2 DEF Occupied, EmptyQueue
    <2>2. 1 \in Slots
      BY QueueAssumption DEF Slots
    <2>3. QED
      BY <2>1, <2>2
  <1> DEFINE free == CHOOSE i \in Slots \ Occupied :
                       \A j \in Slots \ Occupied : i <= j
             job == [func |-> req.sid, asked |-> Kept(req), since |-> now_ms]
  <1>4. free \in Slots
    <2>1. Slots \ Occupied # {}
      BY <1>3 DEF Occupied
    <2>2. \E i \in Slots \ Occupied : \A j \in Slots \ Occupied : i <= j
      BY <2>1, LowestSlot
    <2>3. QED
      BY <2>2
  <1>5. /\ pending_queue' = [pending_queue EXCEPT ![free] = job]
        /\ pending_sid' = req.sid /\ state' = "Pending"
    BY <1>3 DEF PushPending
  <1> HIDE DEF free
  <1>6. Occupied' = {free} /\ pending_queue'[free] = job
    <2>1. job # NoJob
      BY <1>1 DEF NoJob, OtaSids, NoSid
    <2>2. \A i \in Slots : pending_queue'[i] = IF i = free THEN job ELSE NoJob
      BY <1>2, <1>5 DEF EmptyQueue
    <2>3. QED
      BY <1>4, <2>1, <2>2 DEF Occupied
  <1>7. OneJobAtATime'
    BY <1>5, <1>6 DEF OneJobAtATime
  <1>8. JobSeesItsRequest'
    <2>1. /\ job.asked = Kept(req) /\ job.func = req.sid
          /\ Kept(req).sid = req.sid
      BY DEF Kept
    <2>2. QED
      BY <1>1, <1>5, <1>6, <2>1 DEF JobSeesItsRequest
  <1>9. JobKeepsItsRights'
    BY <1>1, OtaGate DEF JobKeepsItsRights
  <1>10. QED
    BY <1>7, <1>8, <1>9 DEF JobInv

LEMMA DispatchJob ==
  ASSUME TypeOK, JobInv, NEW req \in Requests, dispatch_sid(req)
  PROVE  JobInv'
  <1>1. CASE BusyRepeatRequest(req)
    <2>1. UNCHANGED <<session, security, state, request_buf, pending_sid,
                      pending_queue>>
      BY <1>1 DEF BusyRepeatRequest, access_vars, job_vars
    <2>2. QED
      BY <2>1, JobFrame
  <1>2. CASE PushPending(req)
    BY <1>2, PushJob
  <1>3. CASE state = "Idle" /\ UNCHANGED job_vars
    <2>1. pending_queue' = EmptyQueue /\ state' = "Idle"
      BY <1>3, IdleIsEmpty DEF job_vars
    <2>2. QED
      BY <2>1, NoJobsLeft
  <1>4. QED
    BY <1>1, <1>2, <1>3
       DEF dispatch_sid, RefuseAtGate, RefuseInHandler, Routed, Accepted,
           DiagnosticSessionControl, EcuReset, RequestSeed, SendKey,
           CommunicationControl, DataService, PanicInCallback

\* With one job in the queue, a continuation that completes drains it.
LEMMA OneDrains ==
  ASSUME TypeOK, JobInv, NEW done \in SUBSET Occupied, ~Drained(done),
         Occupied # {}
  PROVE  done = {} /\ PutBack(done) = pending_queue
  <1>1. done = {}
    <2>1. SUFFICES ASSUME done # {} PROVE FALSE
      OBVIOUS
    <2>2. done = Occupied
      BY <2>1 DEF JobInv, OneJobAtATime
    <2>3. \A i \in Slots : i \notin done => pending_queue[i] = NoJob
      BY <2>2 DEF Occupied
    <2>4. PutBack(done) = EmptyQueue
      BY <2>3 DEF PutBack, EmptyQueue
    <2>5. QED
      BY <2>1, <2>4 DEF Drained
  <1>2. PutBack(done) = pending_queue
    BY <1>1 DEF PutBack, TypeOK
  <1>3. QED
    BY <1>1, <1>2

LEMMA TickJob ==
  ASSUME TypeOK, JobInv, Tick
  PROVE  JobInv'
  <1>1. PICK done \in SUBSET Occupied, code \in JobAnswer : tick(done, code)
    BY DEF Tick
  <1>2. CASE FinishJobs(done, code) \/ GiveUp(done, code)
    BY <1>2, NoJobsLeft DEF FinishJobs, GiveUp
  <1>3. CASE KeepWaiting(done, code)
    <2>1. Occupied # {}
      BY <1>1 DEF tick, JobInv, OneJobAtATime
    <2>2. pending_queue' = pending_queue
      BY <1>3, <2>1, OneDrains DEF KeepWaiting
    <2>3. UNCHANGED <<session, security, state, request_buf, pending_sid>>
      BY <1>1, <1>3 DEF tick, KeepWaiting, access_vars
    <2>4. QED
      BY <2>2, <2>3, JobFrame
  <1>4. QED
    BY <1>1, <1>2, <1>3 DEF tick

LEMMA InitJob == Init => JobInv
  BY DEF Init, JobInv, OneJobAtATime, JobSeesItsRequest, JobKeepsItsRights,
         Occupied, EmptyQueue

LEMMA NextJob == TypeOK /\ JobInv /\ [Next]_vars => JobInv'
  <1> SUFFICES ASSUME TypeOK, JobInv, [Next]_vars PROVE JobInv'
    OBVIOUS
  <1>1. CASE Dispatch
    BY <1>1, DispatchJob DEF Dispatch
  <1>2. CASE Tick
    BY <1>2, TickJob
  <1>3. CASE PowerCycle
    BY <1>3, NoJobsLeft DEF PowerCycle
  <1>4. CASE \/ take_response_pending \/ take_reset_request
             \/ ClockTick \/ UNCHANGED vars
    <2>1. UNCHANGED <<session, security, state, request_buf, pending_sid,
                      pending_queue>>
      BY <1>4 DEF take_response_pending, take_reset_request, ClockTick, vars,
                  access_vars, job_vars
    <2>2. QED
      BY <2>1, JobFrame
  <1>5. QED
    BY <1>1, <1>2, <1>3, <1>4 DEF Next

\* The inductive invariant of the pending queue.
LEMMA JobInvariant == Spec => [](TypeOK /\ JobInv)
  <1>1. Init => TypeOK /\ JobInv
    BY InitType, InitJob
  <1>2. TypeOK /\ JobInv /\ [Next]_vars => (TypeOK /\ JobInv)'
    BY NextType, NextJob
  <1>3. QED
    BY <1>1, <1>2, PTL DEF Spec

\* The server is Pending exactly while one continuation is queued, whatever
\* the length of the queue.
THEOREM OneJobCorrect == Spec => []OneJobAtATime
  <1>1. TypeOK /\ JobInv => OneJobAtATime
    BY DEF JobInv
  <1>2. QED
    BY <1>1, JobInvariant, PTL

\* A continuation always finds the request it was pushed for.
THEOREM RequestCorrect == Spec => []JobSeesItsRequest
  <1>1. TypeOK /\ JobInv => JobSeesItsRequest
    BY DEF JobInv
  <1>2. QED
    BY <1>1, JobInvariant, PTL

\* A continuation always runs in the programming session, unlocked.
THEOREM RightsCorrect == Spec => []JobKeepsItsRights
  <1>1. TypeOK /\ JobInv => JobKeepsItsRights
    BY DEF JobInv
  <1>2. QED
    BY <1>1, JobInvariant, PTL

-----------------------------------------------------------------------------
(***************************************************************************)
(* The timers.  The P2 check comes first and restamps the request, so the  *)
(* P2* check that follows sees less than P2 elapsed, or nothing at all.    *)
(***************************************************************************)

\* With P2 no longer than P2*, the P2* timeout never fires.
LEMMA P2StarNeverElapses ==
  ASSUME TypeOK, P2 <= P2Star
  PROVE  ~P2StarElapsed
  <1>1. now_ms \in Nat /\ request_tick_ms \in Nat /\ P2 \in Nat \ {0}
           /\ P2Star \in Nat
    BY TimerAssumption DEF TypeOK
  <1>2. CASE P2Elapsed
    BY <1>1, <1>2 DEF P2StarElapsed, StampAfterP2, Elapsed
  <1>3. CASE ~P2Elapsed
    BY <1>1, <1>3 DEF P2StarElapsed, StampAfterP2, P2Elapsed, Elapsed
  <1>4. QED
    BY <1>2, <1>3

\* The queue empties in a tick or with a reset: while a job is queued, every
\* request is turned away as busy.
LEMMA OnlyTickEmpties ==
  ASSUME TypeOK, JobInv, [Next]_vars, Occupied # {}, Occupied' = {}
  PROVE  Tick \/ PowerCycle
  <1>1. CASE UNCHANGED pending_queue
    BY <1>1 DEF Occupied
  <1>2. CASE Dispatch
    <2>1. PICK req \in Requests : dispatch_sid(req)
      BY <1>2 DEF Dispatch
    <2>2. state # "Idle"
      BY DEF JobInv, OneJobAtATime
    <2>3. UNCHANGED pending_queue
      BY <2>1, <2>2
         DEF dispatch_sid, BusyRepeatRequest, RefuseAtGate, RefuseInHandler,
             Routed, Accepted, DiagnosticSessionControl, EcuReset,
             RequestSeed, SendKey, CommunicationControl, DataService,
             PanicInCallback, PushPending, job_vars
    <2>4. QED
      BY <1>1, <2>3
  <1>3. CASE take_response_pending \/ take_reset_request \/ ClockTick \/ UNCHANGED vars
    BY <1>1, <1>3 DEF take_response_pending, take_reset_request, ClockTick, job_vars, vars
  <1>4. QED
    BY <1>2, <1>3 DEF Next

\* Under the timers the firmware configures, P2 below P2*, the test that makes
\* the server give up on a job is false in every state: the branch is dead.
THEOREM NeverGivesUp ==
  ASSUME P2 <= P2Star
  PROVE  Spec => []~P2StarElapsed
  <1>1. TypeOK => ~P2StarElapsed
    BY P2StarNeverElapses
  <1>2. QED
    BY <1>1, TypeCorrect, PTL

-----------------------------------------------------------------------------
(***************************************************************************)
(* The answer of a job.  What the tick stores depends on which             *)
(* continuations completed, and with one job queued there are two cases:   *)
(* it completed and the queue has drained, or none did.                    *)
(***************************************************************************)

\* A job that completes is answered for its own service.
LEMMA DrainedAnswer ==
  ASSUME NEW done \in SUBSET Occupied, done # {}, NEW code \in JobAnswer
  PROVE  /\ JobResponse(done, code).code \in JobAnswer
         /\ \E i \in Occupied : JobResponse(done, code).sid = pending_queue[i].func
  <1> DEFINE last == CHOOSE i \in done : \A j \in done : j <= i
  <1>1. last \in done
    <2>1. done \subseteq Slots
      BY DEF Occupied
    <2>2. \E i \in done : \A j \in done : j <= i
      BY <2>1, HighestSlot
    <2>3. QED
      BY <2>2
  <1>2. JobResponse(done, code) = Reply(pending_queue[last].func, code)
    BY DEF JobResponse
  <1> HIDE DEF last
  <1>3. QED
    BY <1>1, <1>2 DEF Reply

\* When a tick leaves an answer flagged that was not flagged before, the queue
\* has drained.
LEMMA FlaggedByDrain ==
  ASSUME TypeOK, JobInv, ~response_pending,
         NEW done \in SUBSET Occupied, NEW code \in JobAnswer,
         tick(done, code), response_pending'
  PROVE  done # {} /\ response' = JobResponse(done, code)
  <1>1. Occupied # {}
    BY DEF tick, JobInv, OneJobAtATime
  <1>2. CASE FinishJobs(done, code)
    BY <1>2 DEF FinishJobs, Drained
  <1>3. CASE ~Drained(done)
    BY <1>1, <1>3, OneDrains DEF tick, FinishJobs, KeepWaiting, GiveUp
  <1>4. QED
    BY <1>2, <1>3 DEF tick, KeepWaiting, GiveUp

\* Only the tick flags an answer.
LEMMA OnlyTickFlags ==
  ASSUME [Next]_vars, ~response_pending, response_pending'
  PROVE  Tick
  BY DEF Next, Dispatch, dispatch_sid, take_response_pending, take_reset_request,
         ClockTick, PowerCycle, vars

\* Whatever a tick reports as the answer of a job is an answer the job stored,
\* for the service it was pushed for: no delay notice overwrites it.
THEOREM AnswerCorrect == Spec => AnswerNamesItsJob
  <1>1. ASSUME TypeOK, JobInv, [Next]_vars, ~response_pending, response_pending'
        PROVE  /\ response'.code \in JobAnswer
               /\ \E i \in Occupied : response'.sid = pending_queue[i].func
    <2>1. Tick
      BY <1>1, OnlyTickFlags
    <2>2. PICK done \in SUBSET Occupied, code \in JobAnswer : tick(done, code)
      BY <2>1 DEF Tick
    <2>3. QED
      BY <1>1, <2>2, FlaggedByDrain, DrainedAnswer
  <1>2. ASSUME TypeOK, JobInv, [Next]_vars
        PROVE  [~response_pending /\ response_pending' =>
                  /\ response'.code \in JobAnswer
                  /\ \E i \in Occupied : response'.sid = pending_queue[i].func]_vars
    BY <1>1, <1>2
  <1>3. QED
    BY <1>2, JobInvariant, PTL DEF Spec, AnswerNamesItsJob

\* Giving up on the one job there is names its service: it did not complete
\* in this tick, and the server remembers which request it belongs to.
LEMMA GiveUpNotice ==
  ASSUME TypeOK, JobInv, Occupied # {},
         NEW done \in SUBSET Occupied, NEW code \in JobAnswer, GiveUp(done, code)
  PROVE  \E i \in Occupied : response' = Reply(pending_queue[i].func, "0x72")
  <1>1. PICK i \in Occupied : TRUE
    OBVIOUS
  <1>2. pending_sid = pending_queue[i].func
    BY DEF JobInv, JobSeesItsRequest
  <1>3. pending_sid # NoSid
    <2>1. pending_queue[i] \in Job
      BY DEF Occupied, TypeOK
    <2>2. QED
      BY <1>2, <2>1 DEF Job, OtaSids, NoSid
  <1>4. response' = Reply(pending_sid, "0x72")
    BY <1>3 DEF GiveUp, PendingNotice
  <1>5. QED
    BY <1>2, <1>4

\* A job that is given up leaves NRC 0x72 for its service, whatever the two
\* timers are.
THEOREM GiveUpCorrect == Spec => GiveUpReports
  <1> DEFINE Told == \/ \E i \in Occupied : response' = Reply(pending_queue[i].func, "0x72")
                     \/ PowerCycle
  <1>1. ASSUME TypeOK, JobInv, [Next]_vars, Occupied # {}, Occupied' = {},
               ~response_pending', Tick
        PROVE  Told
    <2>1. PICK done \in SUBSET Occupied, code \in JobAnswer : tick(done, code)
      BY <1>1 DEF Tick
    <2>2. CASE KeepWaiting(done, code)
      <3>1. pending_queue' = pending_queue
        BY <1>1, <2>2, OneDrains DEF KeepWaiting
      <3>2. QED
        BY <1>1, <3>1 DEF Occupied
    <2>3. CASE GiveUp(done, code)
      BY <1>1, <2>3, GiveUpNotice
    <2>4. QED
      BY <1>1, <2>1, <2>2, <2>3 DEF tick, FinishJobs
  <1>2. ASSUME TypeOK, JobInv, [Next]_vars
        PROVE  [Occupied # {} /\ Occupied' = {} /\ ~response_pending' => Told]_vars
    BY <1>1, <1>2, OnlyTickEmpties
  <1>3. QED
    BY <1>2, JobInvariant, PTL DEF Spec, GiveUpReports

=============================================================================
