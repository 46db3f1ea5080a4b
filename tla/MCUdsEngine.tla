---------------------------- MODULE MCUdsEngine ----------------------------
(***************************************************************************)
(* Instances of UdsEngine for TLC: the requests a tester sends in each     *)
(* run, one well-formed variant of each kind and the malformed ones that   *)
(* take a different early return.                                          *)
(***************************************************************************)
EXTENDS UdsEngine

CONSTANTS p1, p2      \* two different payloads

Req(sid, len, sub) == [sid |-> sid, len |-> len, sub |-> sub,
                       suppress |-> FALSE, key |-> NoKey, data |-> p1]
Suppressed(req) == [req EXCEPT !.suppress = TRUE]
WithData(req, d) == [req EXCEPT !.data = d]
WithKey(req, k) == [req EXCEPT !.key = k]

SessionRequests ==
  {Req("0x10", 2, s) : s \in 0..3} \cup {Suppressed(Req("0x10", 2, 1))}

\* The first seeds of both generators, and the key of each level for them.
FirstSeeds == Generator \X (0..(MaxSeeds - 1))

RightKeys ==
  {WithKey(Req("0x27", 18, 2 * sal), KeyOf(sal, seed)) : sal \in 1..3, seed \in FirstSeeds}

SecurityRequests ==
  {Req("0x27", 2, sub) : sub \in {0, 1, 3, 5}}
    \cup {Req("0x27", 1, 1), Suppressed(Req("0x27", 2, 1)), Req("0x27", 17, 2)}
    \cup {Req("0x27", 18, sub) : sub \in {2, 4, 6}} \cup RightKeys

DownloadRequests ==
  {WithData(Req("0x34", 6, 0), d) : d \in {p1, p2}}
    \cup {Req("0x36", 4, 1), Req("0x37", 1, 0), Req("0x34", 6, 1), Req("0x36", 5, 1)}

\* The services that touch neither the access state nor the queue.  0x28 is
\* left to the run of CanNode: the variable it sets is read nowhere else.
OtherRequests ==
  {Req("0x11", 2, 1), Suppressed(Req("0x11", 2, 3)), Req("0x11", 2, 2),
   Suppressed(Req("0x3E", 2, 0)), Req("0x3E", 2, 1), Req("0x14", 4, 0),
   Req("0x19", 3, 2), Req("0x19", 3, 1), Req("0x22", 3, 1), Req("0x22", 3, 0),
   Req("0x2E", 51, 1), Req("0x2E", 3, 1), Req("0x31", 4, 1), Req("0x31", 3, 1),
   Req("0x85", 2, 1)}

\* Every kind of request once.
AllRequests ==
  SessionRequests \cup SecurityRequests \cup DownloadRequests \cup OtherRequests

\* The service whose continuation may need several ticks.
SomeStall == {"0x36"}

\* What a job needs to be queued, and a request that finds the server busy.
JobRequests ==
  {Req("0x10", 2, 2), Req("0x27", 2, 1), Req("0x34", 6, 0), Req("0x36", 4, 1),
   Req("0x3E", 2, 0)}
    \cup {WithKey(Req("0x27", 18, 2), KeyOf(1, seed)) : seed \in FirstSeeds}

ReadRequests == {Req("0x22", 3, 1), Req("0x3E", 2, 0)}

ExitRequests == JobRequests \cup {Req("0x37", 1, 0)}

=============================================================================
