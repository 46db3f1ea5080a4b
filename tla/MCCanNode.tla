----------------------------- MODULE MCCanNode -----------------------------
(***************************************************************************)
(* An instance of CanNode for TLC: one request of each kind that the       *)
(* broadcast filter, the frame lengths or the engine tells apart, and the  *)
(* one trouble code of the firmware.                                       *)
(***************************************************************************)
EXTENDS CanNode

Req(sid, len, sub) == [sid |-> sid, len |-> len, sub |-> sub,
                       suppress |-> FALSE, key |-> NoKey, data |-> "data"]
Suppressed(req) == [req EXCEPT !.suppress = TRUE]

\* The keys of the first seed of each generator, in 18 bytes, and one padded
\* to 20.
KeyRequest(len, seed) == [Req("0x27", len, 2) EXCEPT !.key = KeyOf(1, seed)]

NodeRequests ==
  {Req("0x10", 2, 1), Req("0x10", 2, 2), Req("0x27", 2, 1),
   KeyRequest(18, ZeroSeed), KeyRequest(18, <<"rng", 0>>),
   KeyRequest(20, ZeroSeed), Req("0x34", 6, 0), Req("0x11", 2, 1),
   Suppressed(Req("0x11", 2, 1)), Req("0x28", 3, 1),
   Req("0x14", 4, 0), Req("0x19", 3, 2), Req("0x22", 3, 1)}

TimeoutCode == {"0x030100"}
Network == {"U"}
NetworkGroup == [c \in TimeoutCode |-> "U"]
AnyLength == 0..64
BothFramings == {FdLengths, AnyLength}
NoStall == {}

=============================================================================
