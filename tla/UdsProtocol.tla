---------------------------- MODULE UdsProtocol ----------------------------
(***************************************************************************)
(* The values and tables of the UDS protocol stack: sessions, security     *)
(* levels and response codes (uds-core/src/types.rs), the access checks    *)
(* and the SecurityAccess gates (uds-core/src/table.rs), and the service,  *)
(* DID and routine tables the firmware configures                          *)
(* (src/uds/static_config.rs).  There is no state in this module.          *)
(*                                                                         *)
(* A service identifier is written as the code writes it, "0x27".  A       *)
(* response code is an NRC ("0x33"), "positive", or "empty" for a          *)
(* response of length zero.                                                *)
(***************************************************************************)
EXTENDS Integers, FiniteSets

Default     == 1
Programming == 2
Extended    == 3
Session     == {Default, Programming, Extended}

Locked        == 0
Sal1          == 1
SecurityLevel == 0..3

SrvState == {"Idle", "Pending"}

Nrc == {"0x11", "0x12", "0x13", "0x21", "0x22", "0x24", "0x31", "0x33",
        "0x35", "0x36", "0x72", "0x73", "0x78", "0x7E", "0x7F"}

ResponseCode == Nrc \cup {"positive", "empty"}

OtaSids == {"0x34", "0x36", "0x37"}
Services == {"0x10", "0x11", "0x14", "0x19", "0x22", "0x27", "0x28",
             "0x2E", "0x31", "0x3E"} \cup OtaSids
\* "0x85" stands for every identifier the service table does not list.
Sid == Services \cup {"0x85"}
NoSid == "0x00"

(***************************************************************************)
(* A response: whom it answers and how.  An empty response carries no      *)
(* service identifier.  The positive responses to 0x27 start with the      *)
(* sub-function plus 0x40 where all others start with the identifier plus  *)
(* 0x40: they read as answers to a service 0x01 to 0x06, for which SubSid  *)
(* stands.                                                                 *)
(***************************************************************************)
SubSid == "0x01"
Response == [sid : Sid \cup {NoSid, SubSid}, code : ResponseCode]
EmptyResponse == [sid |-> NoSid, code |-> "empty"]
Reply(sid, code) == [sid |-> sid, code |-> code]

UnlockReply == Reply(SubSid, "positive")

\* The suppress bit (0x80) of a sub-function asks for no positive response.
PositiveReply(req) ==
  IF req.suppress THEN EmptyResponse ELSE Reply(req.sid, "positive")

(***************************************************************************)
(* Access control.  An access mask is the set of sessions it names; the    *)
(* mask 0 means every session.                                             *)
(***************************************************************************)
session_allowed(state_session, access) ==
  access = {} \/ state_session \in access

security_allowed(state_security, required) == state_security >= required

service_session(sid) == IF sid \in OtaSids THEN {Programming} ELSE Session
service_security(sid) == IF sid \in OtaSids THEN Sal1 ELSE Locked

(***************************************************************************)
(* The DID and routine tables hold one entry each; sub = 1 in a request    *)
(* names that entry and any other value names none.  The write mask 0b011  *)
(* is { Default, Programming }: bit (s - 1) stands for session s.          *)
(***************************************************************************)
EntryServices == {"0x22", "0x2E", "0x31"}
KnownEntry == 1
\* The length of a 0x2E request with three 16-byte masks.
MaskedLen == 51
entry_session(sid) == IF sid = "0x22" THEN Session ELSE {Default, Programming}
entry_security(sid) ==
  IF sid = "0x22" THEN Locked ELSE IF sid = "0x2E" THEN 2 ELSE Sal1

(***************************************************************************)
(* SecurityAccess: sub-functions 1, 3, 5 ask for the seed of level 1, 2,   *)
(* 3 and 2, 4, 6 send the key.  The sub-function is compared as a whole    *)
(* byte, so one with the suppress bit is unknown.                          *)
(***************************************************************************)
sa_subfunc_known(req) == req.sub \in 1..6 /\ ~req.suppress
is_request_seed(req) == req.sub \in {1, 3, 5}
sal_of(req) == (req.sub + 1) \div 2

sal_session_allowed(sal, session) ==
  \/ sal = 1 /\ session \in {Default, Programming}
  \/ sal = 2 /\ session \in {Programming, Extended}
  \/ sal = 3 /\ session = Extended

(***************************************************************************)
(* A seed is named by the generator it comes from and its number there:    *)
(* the random number generator, whose seeds never repeat, or the fallback  *)
(* counter, which starts over with the chip.  The first fallback seed is   *)
(* sixteen zeros, and so is the seed the state starts with.                *)
(***************************************************************************)
Generator == {"rng", "fallback"}
Seed == Generator \X Nat
ZeroSeed == <<"fallback", 0>>

\* The key that opens a level is a function of the level's key material and
\* of the seed; NoKey is any 16 bytes that are the key of nothing.
KeyOf(sal, seed) == <<sal, seed>>
NoKey == <<0, ZeroSeed>>

(***************************************************************************)
(* Milliseconds from since to now, as u32::saturating_sub computes them:   *)
(* zero when the clock has wrapped in between.                             *)
(***************************************************************************)
Elapsed(now, since) == IF now >= since THEN now - since ELSE 0

=============================================================================
